----------------------------- MODULE UartProofs -----------------------------
(***************************************************************************)
(* The UART download protocol for every image, counter width, number of    *)
(* tries and amount of loss: what the tool and the boot ROM know of each   *)
(* other over two channels that keep their order.  The wire is without     *)
(* memory of more than one packet: once the tool has read an answer to its *)
(* current packet everything still under way is about that packet, which   *)
(* is why a counter that wraps around, even at 2, is enough.               *)
(***************************************************************************)
EXTENDS UartDownload, SequenceTheorems, TLAPS

\* Between two packets the tool is at rest; in one it writes or waits.
Resting == pc \in {"sync", "listen", "ready", "done"}
Active == pc \in {"write", "await", "payload", "failed"}

\* A unit that answers packet c of call k.
AnswerTypes(k) == {"ACK", "NAK", "NYET"} \cup IF Script[k] = "send" THEN {} ELSE {"DATA_TOKEN"}
Answers(u, c, k) == u.type \in AnswerTypes(k) /\ u.n = c

\* A unit that does not belong to an earlier packet.
Current(u, c, k) == /\ u.type \in Tokens => u.n = c
                    /\ u.type = "crc" => u.n = k

Tagged(s, c) == \A j \in 1..Len(s) : s[j].type \in Tokens => s[j].n = c
AllCurrent(s, c, k) == \A j \in 1..Len(s) : Current(s[j], c, k)
HasAnswer(s, c, k) == \E j \in 1..Len(s) : Answers(s[j], c, k)

\* Behind an answer to the packet there is nothing older, in a sequence of
\* units, and in what is read and the packets that follow it.
Ordered(s, c, k) ==
  \A i, j \in 1..Len(s) : i < j /\ Answers(s[i], c, k) => Current(s[j], c, k)

InOrder(in, from, c, k) ==
  /\ Ordered(in, c, k)
  /\ \A m \in 1..Len(from) :
       HasAnswer(in, c, k) \/ HasAnswer(from[m], c, k) => AllCurrent(from[m], c, k)
  /\ \A l, m \in 1..Len(from) :
       l < m /\ HasAnswer(from[l], c, k) => AllCurrent(from[m], c, k)

\* What the tool may read off an answer: the chip has seen the packet, and
\* has not answered it in any other way.
Told(u) == Answers(u, counter, call) => /\ lastCounter = counter
                                        /\ Sending => answer = <<u>>
                                        /\ u.type = "DATA_TOKEN" => answer # <<>>

\* The units received, or on their way to be.
Heard(in, from) == {in[j] : j \in 1..Len(in)}
  \cup UNION {{from[m][j] : j \in 1..Len(from[m])} : m \in 1..Len(from)}

ToldAll == \A u \in Heard(inbuf, fromChip) : Told(u)

\* A packet the chip will only answer again: it has the counter of the last.
IsRequest(p) == p[1].type \in Requests
Stale(p) == IsRequest(p) /\ p[1].n = lastCounter /\ lastCounter # counter /\ answer # <<>>

\* Packets to the chip: the stale ones, and then the current one.
Outgoing ==
  /\ \A i \in 1..Len(toChip) : IsRequest(toChip[i]) => toChip[i] = Packet \/ Stale(toChip[i])
  /\ \A i, j \in 1..Len(toChip) : i < j /\ toChip[i] = Packet /\ IsRequest(toChip[j]) =>
                                   toChip[j] = Packet

\* The block of the current call has arrived.
HasArrived == accepted # <<>> /\ accepted[Len(accepted)] = call

\* What the chip has done, by the answer it gave last.
ChipSend ==
  IF lastCounter # counter THEN ~HasArrived
  ELSE \E t \in {"ACK", "NAK", "NYET"} :
         /\ answer = <<Unit(t, counter)>>
         /\ doPing => t # "NYET"
         /\ HasArrived <=> ~doPing /\ t # "NAK"

ChipRecv ==
  IF lastCounter # counter \/ answer = <<>> THEN offered < call
  ELSE answer = <<Unit("DATA_TOKEN", counter)>> \o Payload(call) /\ offered = call

\* The replies of earlier calls have been given, those of later ones not.
InScript ==
  /\ offered <= call
  /\ \A r \in DOMAIN Script : Script[r] = "recv" /\ r < call => r <= offered
  /\ accepted # <<>> => accepted[Len(accepted)] <= call

Exchange ==
  /\ InOrder(inbuf, fromChip, counter, call) /\ ToldAll /\ Outgoing
  /\ IF Sending THEN ChipSend /\ offered < call ELSE ChipRecv

\* The chip's last packet is the tool's, and nothing older is under way.
Settled(in) ==
  /\ lastCounter = counter
  /\ Tagged(in, counter)
  /\ \A m \in 1..Len(fromChip) : Tagged(fromChip[m], counter)
  /\ \A i \in 1..Len(toChip) :
       IsRequest(toChip[i]) => toChip[i][1].n = counter /\ answer # <<>>

AtRest ==
  /\ Settled(inbuf)
  /\ pc \in {"sync", "listen"} => counter = 0
  /\ offered < call
  /\ accepted # <<>> => accepted[Len(accepted)] < call

InPayload ==
  /\ lastCounter = counter /\ answer # <<>> /\ ~Sending /\ tries = 0
  /\ AllCurrent(inbuf, counter, call)
  /\ \A m \in 1..Len(fromChip) : AllCurrent(fromChip[m], counter, call)

Proto ==
  /\ Tagged(answer, lastCounter)
  /\ InScript
  /\ pc = "done" <=> call = Len(Script) + 1
  /\ Resting => AtRest
  /\ Active => Exchange
  /\ pc = "payload" => InPayload

UInv == TypeOK /\ Proto

-----------------------------------------------------------------------------
(* Without a late answer the protocol is stop-and-wait: one packet or one  *)
(* answer is under way, or one of them was lost.                           *)

Idle == inbuf = <<>> /\ toChip = <<>> /\ fromChip = <<>>

\* The answers a packet may have.
Replies ==
  IF Sending
  THEN {<<Unit("ACK", counter)>>, <<Unit("NAK", counter)>>}
         \cup IF doPing THEN {} ELSE {<<Unit("NYET", counter)>>}
  ELSE {<<Unit("NAK", counter)>>, <<Unit("DATA_TOKEN", counter)>> \o Payload(call)}

\* A reply that is not whole took a loss.
Cut == /\ ~Sending /\ lost > 0
       /\ Len(inbuf) \in 1..4 /\ inbuf[1] = Unit("DATA_TOKEN", counter)

OneInFlight ==
  \/ Idle /\ lost > tries
  \/ /\ lost >= tries /\ inbuf = <<>>
     /\ \/ toChip = <<Packet>> /\ fromChip = <<>>
        \/ toChip = <<>> /\ \E p \in Replies : fromChip = <<p>>
  \/ toChip = <<>> /\ fromChip = <<>> /\ (inbuf \in Replies \/ Cut)

\* The echo of a sync token, its answer or the first half of it.
Echo == Sync("SYNC_TOKEN")
SyncHeard == {<<>>, <<Unit("SYNC_RESP", 1)>>, Sync("SYNC_RESP")}

SyncInFlight ==
  \/ /\ inbuf \in {<<>>, Echo}
     /\ \/ toChip = <<Sync("SYNC_TOKEN")>> /\ fromChip = <<>>
        \/ toChip = <<>> /\ fromChip = <<Sync("SYNC_RESP")>>
  \/ /\ toChip = <<>> /\ fromChip = <<>>
     /\ \E h \in SyncHeard : inbuf = h \/ inbuf = Echo \o h

StopAndWait == late = 0 =>
  /\ pc \in {"sync", "ready", "done", "write"} => Idle
  /\ pc = "listen" => SyncInFlight
  /\ pc = "write" => lost >= tries
  /\ pc = "await" => OneInFlight
  /\ pc = "payload" => /\ toChip = <<>> /\ fromChip = <<>>
                       /\ Len(inbuf) <= 3
                       /\ inbuf = Payload(call) \/ lost > 0
  /\ pc = "failed" => error = "timeout" /\ lost > MaxTries + 1

-----------------------------------------------------------------------------
(* Sequences of units.                                                     *)

LEMMA DropShape ==
  ASSUME NEW S, NEW s \in Seq(S), NEW n \in Nat
  PROVE  /\ Lesser(n, Len(s)) \in 0..Len(s)
         /\ Drop(s, n) \in Seq(S) /\ Len(Drop(s, n)) = Len(s) - Lesser(n, Len(s))
         /\ \A j \in 1..(Len(s) - Lesser(n, Len(s))) : Drop(s, n)[j] = s[j + Lesser(n, Len(s))]
<1> DEFINE k == Lesser(n, Len(s))
<1>1. k \in 0..Len(s)
  BY DEF Lesser
<1>2. Drop(s, n) = SubSeq(s, k + 1, Len(s))
  BY DEF Drop
<1> HIDE DEF k
<1>3. Drop(s, n) \in Seq(S) /\ Len(Drop(s, n)) = Len(s) - k
        /\ \A j \in 1..(Len(s) - k) : Drop(s, n)[j] = s[j + k]
  BY <1>1, <1>2
<1>. QED  BY <1>1, <1>3 DEF k

LEMMA ConcatShape ==
  ASSUME NEW S, NEW s \in Seq(S), NEW t \in Seq(S)
  PROVE  /\ s \o t \in Seq(S) /\ Len(s \o t) = Len(s) + Len(t)
         /\ \A j \in 1..Len(s \o t) :
              (s \o t)[j] = IF j <= Len(s) THEN s[j] ELSE t[j - Len(s)]
  OBVIOUS

LEMMA ScriptShape ==
  /\ Len(Script) \in Nat /\ Len(Script) >= 4 /\ DOMAIN Script = 1..Len(Script)
  /\ \A k \in 1..Len(Script) : Script[k] \in {"send", "recv"}
  /\ Script[1] = "send"
<1> DEFINE image == IF Blocks = 0 THEN <<>> ELSE [i \in 1..(1 + Blocks + 2) |-> "send"]
           start == <<"send", "recv", "send", "recv">>
           Ops == {"send", "recv"}
<1>1. image \in Seq(Ops)
  BY DownloadAssumption
<1>2. start \in Seq(Ops) /\ Len(start) = 4 /\ start[1] = "send"
  OBVIOUS
<1>3. Script = start \o image
  BY DEF Script
<1> HIDE DEF start, image, Ops
<1>4. /\ Script \in Seq(Ops) /\ Len(Script) = 4 + Len(image)
      /\ \A j \in 1..Len(Script) :
           Script[j] = IF j <= Len(start) THEN start[j] ELSE image[j - Len(start)]
  <2>1. /\ start \o image \in Seq(Ops) /\ Len(start \o image) = Len(start) + Len(image)
        /\ \A j \in 1..Len(start \o image) :
             (start \o image)[j] = IF j <= Len(start) THEN start[j] ELSE image[j - Len(start)]
    BY <1>1, <1>2, ConcatShape
  <2>. QED  BY <1>2, <1>3, <2>1
<1>5. Len(image) \in Nat
  BY <1>1
<1>. QED  BY <1>2, <1>4, <1>5 DEF Ops

LEMMA TailShape ==
  ASSUME NEW S, NEW s \in Seq(S), s # <<>>
  PROVE  /\ Tail(s) \in Seq(S) /\ Len(Tail(s)) = Len(s) - 1 /\ Len(s) >= 1
         /\ \A j \in 1..Len(Tail(s)) : Tail(s)[j] = s[j + 1]
         /\ Head(s) = s[1] /\ s[1] \in S
  OBVIOUS

LEMMA AppendShape ==
  ASSUME NEW S, NEW s \in Seq(S), NEW e \in S
  PROVE  /\ Append(s, e) \in Seq(S) /\ Len(Append(s, e)) = Len(s) + 1
         /\ \A j \in 1..(Len(s) + 1) : Append(s, e)[j] = IF j <= Len(s) THEN s[j] ELSE e
  OBVIOUS

\* What is left after a read is part of what was there.
LEMMA DropKeeps ==
  ASSUME NEW s \in Seq(Units), NEW n \in Nat, NEW c, NEW k
  PROVE  /\ Ordered(s, c, k) => Ordered(Drop(s, n), c, k)
         /\ AllCurrent(s, c, k) => AllCurrent(Drop(s, n), c, k)
         /\ Tagged(s, c) => Tagged(Drop(s, n), c)
         /\ HasAnswer(Drop(s, n), c, k) => HasAnswer(s, c, k)
<1> DEFINE d == Lesser(n, Len(s))
<1>1. /\ d \in 0..Len(s) /\ Len(Drop(s, n)) = Len(s) - d
      /\ \A j \in 1..(Len(s) - d) : Drop(s, n)[j] = s[j + d]
  BY DropShape
<1> HIDE DEF d
<1>2. \A j \in 1..Len(Drop(s, n)) : j + d \in 1..Len(s) /\ Drop(s, n)[j] = s[j + d]
  BY <1>1
<1>3. \A i, j \in 1..Len(Drop(s, n)) : i < j => i + d < j + d
  BY <1>1
<1> HIDE DEF Drop
<1>. QED  BY <1>2, <1>3 DEF Ordered, AllCurrent, Tagged, HasAnswer

LEMMA TailKeeps ==
  ASSUME NEW s \in Seq(Units), s # <<>>, NEW c, NEW k
  PROVE  /\ Ordered(s, c, k) => Ordered(Tail(s), c, k)
         /\ Ordered(s, c, k) /\ Answers(s[1], c, k) => AllCurrent(Tail(s), c, k)
         /\ AllCurrent(s, c, k) => AllCurrent(Tail(s), c, k)
         /\ HasAnswer(Tail(s), c, k) => HasAnswer(s, c, k)
         /\ Answers(s[1], c, k) => HasAnswer(s, c, k)
<1>1. \A j \in 1..Len(Tail(s)) : j + 1 \in 2..Len(s) /\ Tail(s)[j] = s[j + 1]
  BY TailShape
<1>2. 1 \in 1..Len(s) /\ 2..Len(s) \subseteq 1..Len(s)
  BY TailShape
<1>3. \A i, j \in 1..Len(Tail(s)) : i < j => i + 1 < j + 1
  OBVIOUS
<1>4. \A j \in 2..Len(s) : 1 < j
  OBVIOUS
<1>. QED  BY <1>1, <1>2, <1>3, <1>4 DEF Ordered, AllCurrent, HasAnswer

LEMMA ConcatKeeps ==
  ASSUME NEW s \in Seq(Units), NEW t \in Seq(Units), NEW c, NEW k
  PROVE  /\ Ordered(s, c, k) /\ Ordered(t, c, k) /\ (HasAnswer(s, c, k) => AllCurrent(t, c, k))
              => Ordered(s \o t, c, k)
         /\ AllCurrent(s, c, k) /\ AllCurrent(t, c, k) => AllCurrent(s \o t, c, k)
         /\ Tagged(s, c) /\ Tagged(t, c) => Tagged(s \o t, c)
         /\ HasAnswer(s \o t, c, k) => HasAnswer(s, c, k) \/ HasAnswer(t, c, k)
<1>1. \A j \in 1..Len(s \o t) :
        \/ j \in 1..Len(s) /\ (s \o t)[j] = s[j]
        \/ j - Len(s) \in 1..Len(t) /\ (s \o t)[j] = t[j - Len(s)] /\ j > Len(s)
  BY ConcatShape
<1>2. AllCurrent(s, c, k) /\ AllCurrent(t, c, k) => AllCurrent(s \o t, c, k)
  BY <1>1 DEF AllCurrent
<1>3. Tagged(s, c) /\ Tagged(t, c) => Tagged(s \o t, c)
  BY <1>1 DEF Tagged
<1>4. HasAnswer(s \o t, c, k) => HasAnswer(s, c, k) \/ HasAnswer(t, c, k)
  BY <1>1 DEF HasAnswer
<1>5. ASSUME Ordered(s, c, k), Ordered(t, c, k), HasAnswer(s, c, k) => AllCurrent(t, c, k),
             NEW i \in 1..Len(s \o t), NEW j \in 1..Len(s \o t),
             i < j, Answers((s \o t)[i], c, k)
      PROVE  Current((s \o t)[j], c, k)
  <2>1. CASE j \in 1..Len(s) /\ (s \o t)[j] = s[j]
    BY <1>1, <1>5, <2>1, ConcatShape DEF Ordered
  <2>2. CASE j - Len(s) \in 1..Len(t) /\ (s \o t)[j] = t[j - Len(s)]
    <3>1. CASE i \in 1..Len(s) /\ (s \o t)[i] = s[i]
      BY <1>5, <2>2, <3>1 DEF AllCurrent, HasAnswer
    <3>2. CASE i - Len(s) \in 1..Len(t) /\ (s \o t)[i] = t[i - Len(s)]
      <4>1. i - Len(s) < j - Len(s)
        BY <1>5
      <4>. QED  BY <1>5, <2>2, <3>2, <4>1 DEF Ordered
    <3>. QED  BY <1>1, <3>1, <3>2
  <2>. QED  BY <1>1, <2>1, <2>2
<1>6. Ordered(s, c, k) /\ Ordered(t, c, k) /\ (HasAnswer(s, c, k) => AllCurrent(t, c, k))
        => Ordered(s \o t, c, k)
  BY <1>5 DEF Ordered
<1>. QED  BY <1>2, <1>3, <1>4, <1>6

LEMMA Beyond ==
  \A a, b \in Nat : \A j \in 1..(a + b) : j \in 1..a \/ (~(j <= a) /\ j - a \in 1..b)
  OBVIOUS

LEMMA HeardRead ==
  ASSUME NEW in, NEW from, NEW j \in 1..Len(in) PROVE in[j] \in Heard(in, from)
  BY DEF Heard

LEMMA HeardUnder ==
  ASSUME NEW in, NEW from, NEW m \in 1..Len(from), NEW j \in 1..Len(from[m])
  PROVE  from[m][j] \in Heard(in, from)
<1>1. from[m][j] \in {from[m][i] : i \in 1..Len(from[m])}
  OBVIOUS
<1>. QED  BY <1>1 DEF Heard

LEMMA NoneAnswers ==
  ASSUME NEW s \in Seq(Units), NEW c, NEW d, NEW k, Tagged(s, c), c # d
  PROVE  ~HasAnswer(s, d, k) /\ Ordered(s, d, k)
<1>1. \A u : u.type \in AnswerTypes(k) => u.type \in Tokens
  BY DEF AnswerTypes, Tokens, Requests
<1>. QED  BY <1>1 DEF Tagged, HasAnswer, Ordered, Answers

\* What arrives of a packet: a part of it, or all but the body.
LEMMA PieceKeeps ==
  ASSUME NEW p \in Seq(Units), NEW q, q = p \/ q \in Arrivals(p), NEW c, NEW k
  PROVE  /\ q \in Seq(Units) /\ Len(q) <= Len(p)
         /\ \A j \in 1..Len(q) : q[j] = p[j] \/ q[j] = Unit("body", 0)
         /\ Ordered(p, c, k) => Ordered(q, c, k)
         /\ AllCurrent(p, c, k) => AllCurrent(q, c, k)
         /\ Tagged(p, c) => Tagged(q, c)
         /\ HasAnswer(q, c, k) => HasAnswer(p, c, k)
<1> DEFINE spoilt == Unit("body", 0)
<1>1. spoilt \in Units /\ spoilt.type \notin Tokens /\ spoilt.type # "crc"
        /\ spoilt.type \notin AnswerTypes(k)
  BY DEF Unit, Units, Tokens, Requests, AnswerTypes
<1>2. q \in Seq(Units) /\ Len(q) <= Len(p) /\ \A j \in 1..Len(q) : q[j] = p[j] \/ q[j] = spoilt
  <2>1. CASE q = p
    BY <2>1
  <2>2. CASE q \in {SubSeq(p, 1, n) : n \in 0..(Len(p) - 1)}
    BY <2>2
  <2>3. CASE Len(p) = 4 /\ q = [p EXCEPT ![3] = spoilt]
    <3>1. spoilt \in Units
      BY <1>1
    <3> HIDE DEF spoilt
    <3>. QED  BY <2>3, <3>1
  <2>. QED  BY <2>1, <2>2, <2>3 DEF Arrivals
<1> HIDE DEF spoilt
<1>3. \A j \in 1..Len(q) : j \in 1..Len(p)
  BY <1>2
<1>4. Ordered(p, c, k) => Ordered(q, c, k)
  BY <1>1, <1>2, <1>3 DEF Ordered, Answers, Current
<1>5. AllCurrent(p, c, k) => AllCurrent(q, c, k)
  BY <1>1, <1>2, <1>3 DEF AllCurrent, Current
<1>6. Tagged(p, c) => Tagged(q, c)
  BY <1>1, <1>2, <1>3 DEF Tagged
<1>7. HasAnswer(q, c, k) => HasAnswer(p, c, k)
  BY <1>1, <1>2, <1>3 DEF HasAnswer, Answers
<1>. QED  BY <1>2, <1>4, <1>5, <1>6, <1>7 DEF spoilt

\* The order of the whole wire.
LEMMA OrderedAppend ==
  ASSUME NEW in \in Seq(Units), NEW from \in Seq(Seq(Units)), NEW a \in Seq(Units),
         NEW c, NEW k, InOrder(in, from, c, k),
         HasAnswer(a, c, k) \/ (\E u \in Heard(in, from) : Answers(u, c, k))
            => AllCurrent(a, c, k)
  PROVE  /\ InOrder(in, Append(from, a), c, k)
         /\ Heard(in, Append(from, a)) \subseteq Heard(in, from) \cup {a[j] : j \in 1..Len(a)}
<1> DEFINE all == Append(from, a)
<1>1. /\ all \in Seq(Seq(Units)) /\ Len(all) = Len(from) + 1 /\ Len(from) \in Nat
      /\ \A m \in 1..Len(all) : IF m <= Len(from) THEN m \in 1..Len(from) /\ all[m] = from[m]
                                                  ELSE all[m] = a
  BY AppendShape
<1>2. HasAnswer(in, c, k) => \E u \in Heard(in, from) : Answers(u, c, k)
  BY DEF HasAnswer, Heard
<1>3. \A m \in 1..Len(from) : HasAnswer(from[m], c, k)
                                => \E u \in Heard(in, from) : Answers(u, c, k)
  BY DEF HasAnswer, Heard
<1> HIDE DEF all
<1>4. \A m \in 1..Len(all) : HasAnswer(in, c, k) \/ HasAnswer(all[m], c, k) =>
                               AllCurrent(all[m], c, k)
  BY <1>1, <1>2 DEF InOrder
<1>5. ASSUME NEW l \in 1..Len(all), NEW m \in 1..Len(all), l < m, HasAnswer(all[l], c, k)
      PROVE  AllCurrent(all[m], c, k)
  <2>1. l \in 1..Len(from) /\ all[l] = from[l]
    BY <1>1, <1>5
  <2>2. CASE m \in 1..Len(from) /\ all[m] = from[m]
    BY <1>5, <2>1, <2>2 DEF InOrder
  <2>3. CASE all[m] = a
    BY <1>3, <1>5, <2>1, <2>3
  <2>. QED  BY <1>1, <2>2, <2>3
<1>6. ASSUME NEW u \in Heard(in, all)
      PROVE  u \in Heard(in, from) \cup {a[j] : j \in 1..Len(a)}
  <2>1. CASE u \in {in[j] : j \in 1..Len(in)}
    BY <2>1 DEF Heard
  <2>2. CASE \E m \in 1..Len(all) : u \in {all[m][j] : j \in 1..Len(all[m])}
    <3>1. PICK m \in 1..Len(all) : u \in {all[m][j] : j \in 1..Len(all[m])}
      BY <2>2
    <3>2. CASE m \in 1..Len(from) /\ all[m] = from[m]
      BY <3>1, <3>2 DEF Heard
    <3>3. CASE all[m] = a
      BY <3>1, <3>3
    <3>. QED  BY <1>1, <3>2, <3>3
  <2>. QED  BY <2>1, <2>2 DEF Heard
<1>. QED  BY <1>4, <1>5, <1>6 DEF InOrder, all

LEMMA OrderedDrop ==
  ASSUME NEW in \in Seq(Units), NEW rest \in Seq(Units), NEW from, NEW c, NEW k,
         \E n \in Nat : rest = Drop(in, n)
  PROVE  /\ InOrder(in, from, c, k) => InOrder(rest, from, c, k)
         /\ Heard(rest, from) \subseteq Heard(in, from)
<1>1. PICK n \in Nat : rest = Drop(in, n)
  OBVIOUS
<1>2. Ordered(in, c, k) => Ordered(rest, c, k)
  BY <1>1, DropKeeps
<1>3. HasAnswer(rest, c, k) => HasAnswer(in, c, k)
  BY <1>1, DropKeeps
<1>4. \A j \in 1..Len(rest) : \E i \in 1..Len(in) : rest[j] = in[i]
  <2>1. \A j \in 1..Len(rest) : j + Lesser(n, Len(in)) \in 1..Len(in)
                                /\ rest[j] = in[j + Lesser(n, Len(in))]
    BY <1>1, DropShape
  <2>. QED  BY <2>1
<1>. QED  BY <1>2, <1>3, <1>4 DEF InOrder, Heard

\* The first packet under way arrives, or what is left of it.
LEMMA OrderedDeliver ==
  ASSUME NEW in \in Seq(Units), NEW from \in Seq(Seq(Units)), from # <<>>, NEW q,
         q = from[1] \/ q \in Arrivals(from[1]),
         NEW c, NEW k, InOrder(in, from, c, k), Ordered(from[1], c, k)
  PROVE  /\ InOrder(in \o q, Tail(from), c, k)
         /\ Heard(in \o q, Tail(from)) \subseteq Heard(in, from) \cup {Unit("body", 0)}
<1> DEFINE all == in \o q
           rest == Tail(from)
<1>1. /\ from[1] \in Seq(Units) /\ 1 \in 1..Len(from) /\ Len(from) \in Nat
      /\ \A m \in 1..Len(rest) : m + 1 \in 1..Len(from) /\ 1 < m + 1 /\ rest[m] = from[m + 1]
  BY TailShape
<1>2. /\ q \in Seq(Units) /\ Len(q) <= Len(from[1])
      /\ \A j \in 1..Len(q) : q[j] = from[1][j] \/ q[j] = Unit("body", 0)
      /\ Ordered(q, c, k)
      /\ AllCurrent(from[1], c, k) => AllCurrent(q, c, k)
      /\ HasAnswer(q, c, k) => HasAnswer(from[1], c, k)
  BY <1>1, PieceKeeps
<1>3. Ordered(all, c, k)
  BY <1>1, <1>2, ConcatKeeps DEF InOrder
<1>4. HasAnswer(all, c, k) => HasAnswer(in, c, k) \/ HasAnswer(from[1], c, k)
  BY <1>2, ConcatKeeps
<1>5. /\ Len(all) = Len(in) + Len(q) /\ Len(in) \in Nat /\ Len(q) \in Nat
      /\ \A j \in 1..Len(all) : all[j] = IF j <= Len(in) THEN in[j] ELSE q[j - Len(in)]
  BY <1>2, ConcatShape
<1> HIDE DEF all, rest
<1>9. \A j \in 1..Len(all) : j \in 1..Len(in) \/ (~(j <= Len(in)) /\ j - Len(in) \in 1..Len(q))
  BY <1>5, Beyond
<1>6. \A m \in 1..Len(rest) : HasAnswer(all, c, k) \/ HasAnswer(rest[m], c, k)
                                => AllCurrent(rest[m], c, k)
  BY <1>1, <1>4 DEF InOrder
<1>7. ASSUME NEW l \in 1..Len(rest), NEW m \in 1..Len(rest), l < m, HasAnswer(rest[l], c, k)
      PROVE  AllCurrent(rest[m], c, k)
  <2>1. l + 1 < m + 1 /\ l + 1 \in 1..Len(from) /\ m + 1 \in 1..Len(from)
    BY <1>1, <1>7
  <2>. QED  BY <1>1, <1>7, <2>1 DEF InOrder
<1>8. ASSUME NEW u \in Heard(all, rest) PROVE u \in Heard(in, from) \cup {Unit("body", 0)}
  <2>1. CASE u \in {all[j] : j \in 1..Len(all)}
    <3>1. PICK j \in 1..Len(all) : u = all[j]
      BY <2>1
    <3>2. CASE j \in 1..Len(in)
      <4>1. u = in[j]
        BY <1>5, <3>1, <3>2
      <4>2. in[j] \in Heard(in, from)
        BY <3>2, HeardRead
      <4>. QED  BY <4>1, <4>2
    <3>3. CASE ~(j <= Len(in)) /\ j - Len(in) \in 1..Len(q)
      <4>1. PICK i \in 1..Len(q) : u = q[i]
        BY <1>5, <3>1, <3>3
      <4>2. i \in 1..Len(from[1])
        BY <1>1, <1>2
      <4>3. u = from[1][i] \/ u = Unit("body", 0)
        BY <1>2, <4>1
      <4>4. from[1][i] \in Heard(in, from)
        BY <1>1, <4>2, HeardUnder
      <4>. QED  BY <4>3, <4>4
    <3>. QED  BY <1>9, <3>2, <3>3
  <2>2. CASE \E m \in 1..Len(rest) : u \in {rest[m][j] : j \in 1..Len(rest[m])}
    <3>1. PICK m \in 1..Len(rest) : u \in {rest[m][j] : j \in 1..Len(rest[m])}
      BY <2>2
    <3>2. m + 1 \in 1..Len(from) /\ rest[m] = from[m + 1]
      BY <1>1
    <3>3. PICK j \in 1..Len(rest[m]) : u = rest[m][j]
      BY <3>1
    <3>4. j \in 1..Len(from[m + 1]) /\ u = from[m + 1][j]
      BY <3>2, <3>3
    <3>5. from[m + 1][j] \in Heard(in, from)
      BY <3>2, <3>4, HeardUnder
    <3>. QED  BY <3>4, <3>5
  <2>. QED  BY <2>1, <2>2 DEF Heard
<1>. QED  BY <1>3, <1>6, <1>7, <1>8 DEF InOrder, all, rest

LEMMA OneAndThree == \A a, b, c, d : <<a>> \o <<b, c, d>> = <<a, b, c, d>>
<1> SUFFICES ASSUME NEW a, NEW b, NEW c, NEW d PROVE <<a>> \o <<b, c, d>> = <<a, b, c, d>>
  OBVIOUS
<1> DEFINE S == {a, b, c, d}
           s == <<a>>
           t == <<b, c, d>>
           st == <<a, b, c, d>>
<1>1. /\ s \in Seq(S) /\ Len(s) = 1 /\ s[1] = a
      /\ t \in Seq(S) /\ Len(t) = 3 /\ t[1] = b /\ t[2] = c /\ t[3] = d
      /\ st \in Seq(S) /\ Len(st) = 4 /\ st[1] = a /\ st[2] = b /\ st[3] = c /\ st[4] = d
  OBVIOUS
<1> HIDE DEF S, s, t, st
<1>2. /\ s \o t \in Seq(S) /\ Len(s \o t) = 4
      /\ \A j \in 1..4 : (s \o t)[j] = IF j <= 1 THEN s[j] ELSE t[j - 1]
  <2>1. /\ s \o t \in Seq(S) /\ Len(s \o t) = Len(s) + Len(t)
        /\ \A j \in 1..Len(s \o t) :
             (s \o t)[j] = IF j <= Len(s) THEN s[j] ELSE t[j - Len(s)]
    BY <1>1, ConcatShape
  <2>. QED  BY <1>1, <2>1
<1>3. \A j \in 1..4 : (s \o t)[j] = st[j]
  <2>1. ASSUME NEW j \in 1..4 PROVE j \in {1, 2, 3, 4}
    OBVIOUS
  <2>2. (s \o t)[1] = a /\ (s \o t)[2] = b /\ (s \o t)[3] = c /\ (s \o t)[4] = d
    BY <1>1, <1>2
  <2>. QED  BY <1>1, <2>1, <2>2
<1>4. s \o t = st
  BY <1>1, <1>2, <1>3, SeqEqual
<1>. QED  BY <1>4 DEF s, t, st

\* The packet of the call, and what of it is an answer or old: nothing.
PacketOf(c, k, ping) ==
  IF Script[k] # "send" THEN <<Unit("DATA_REQUEST", c)>>
  ELSE IF ping THEN <<Unit("PING_TOKEN", c)>>
  ELSE <<Unit("DATA_TOKEN", c)>> \o Payload(k)

LEMMA PacketIs ==
  ASSUME NEW c \in Nat, NEW k \in Nat, NEW ping
  PROVE  /\ PacketOf(c, k, ping) \in Seq(Units) /\ Len(PacketOf(c, k, ping)) \in {1, 4}
         /\ IsRequest(PacketOf(c, k, ping)) /\ PacketOf(c, k, ping)[1].n = c
         /\ AllCurrent(PacketOf(c, k, ping), c, k) /\ Tagged(PacketOf(c, k, ping), c)
         /\ ~HasAnswer(PacketOf(c, k, ping), c, k) /\ Ordered(PacketOf(c, k, ping), c, k)
<1>1. CASE Script[k] # "send"
  BY <1>1 DEF PacketOf, Unit, Units, Tokens, Requests, IsRequest, AllCurrent, Tagged,
              HasAnswer, Ordered, Answers, AnswerTypes, Current
<1>2. CASE Script[k] = "send" /\ ping
  BY <1>2 DEF PacketOf, Unit, Units, Tokens, Requests, IsRequest, AllCurrent, Tagged,
              HasAnswer, Ordered, Answers, AnswerTypes, Current
<1>3. CASE Script[k] = "send" /\ ~ping
  <2> DEFINE p == <<Unit("DATA_TOKEN", c), Unit("length", 1), Unit("body", k), Unit("crc", k)>>
  <2>1. PacketOf(c, k, ping) = p
    BY <1>3, OneAndThree DEF PacketOf, Payload
  <2>2. p \in Seq(Units) /\ Len(p) = 4
    BY DEF Unit, Units, Tokens, Requests
  <2>3. \A j \in 1..4 : Current(p[j], c, k) /\ ~Answers(p[j], c, k)
                        /\ (p[j].type \in Tokens => p[j].n = c)
    BY <1>3 DEF Unit, Tokens, Requests, Answers, AnswerTypes, Current
  <2>4. IsRequest(p) /\ p[1].n = c
    BY DEF IsRequest, Requests, Unit
  <2> HIDE DEF p
  <2>. QED  BY <2>1, <2>2, <2>3, <2>4 DEF AllCurrent, Tagged, HasAnswer, Ordered
<1>. QED  BY <1>1, <1>2, <1>3

LEMMA PacketNow == Packet = PacketOf(counter, call, doPing)
  BY DEF Packet, PacketOf, Sending

LEMMA SyncShape ==
  ASSUME NEW t \in {"SYNC_TOKEN", "SYNC_RESP"}, NEW c, NEW k
  PROVE  /\ Sync(t) \in Seq(Units) /\ Len(Sync(t)) = 2 /\ ~IsRequest(Sync(t))
         /\ Tagged(Sync(t), c) /\ AllCurrent(Sync(t), c, k)
         /\ ~HasAnswer(Sync(t), c, k) /\ Ordered(Sync(t), c, k)
<1>1. /\ Sync(t) \in Seq(Units) /\ Len(Sync(t)) = 2
      /\ \A j \in 1..2 : Sync(t)[j].type = t
  BY DEF Sync, Unit, Units, Tokens, Requests
<1>2. t \notin Tokens /\ t \notin AnswerTypes(k) /\ t # "crc" /\ t \notin Requests
  BY DEF Tokens, Requests, AnswerTypes
<1>. QED  BY <1>1, <1>2
          DEF IsRequest, Tagged, AllCurrent, HasAnswer, Ordered, Answers, Current

LEMMA CurrentIsTagged ==
  ASSUME NEW s \in Seq(Units), NEW c, NEW k, AllCurrent(s, c, k)
  PROVE  Tagged(s, c) /\ Ordered(s, c, k)
  BY DEF AllCurrent, Tagged, Ordered, Current

\* The counter moves on, whatever its width.
LEMMA NextCounter ==
  ASSUME NEW c \in 0..(CounterMod - 1)
  PROVE  (c + 1) % CounterMod \in 0..(CounterMod - 1) /\ (c + 1) % CounterMod # c
<1>1. CounterMod \in Nat /\ CounterMod > 1 /\ c \in Nat /\ c < CounterMod
  BY DownloadAssumption
<1>2. \A m, n \in Nat : m > 1 /\ n < m => (n + 1) % m \in 0..(m - 1) /\ (n + 1) % m # n
  <2>1. ASSUME NEW m \in Nat, NEW n \in Nat, m > 1, n < m
        PROVE  (n + 1) % m \in 0..(m - 1) /\ (n + 1) % m # n
    <3>1. CASE n + 1 < m
      BY <2>1, <3>1
    <3>2. CASE n + 1 = m
      BY <2>1, <3>2
    <3>. QED  BY <2>1, <3>1, <3>2
  <2>. QED  BY <2>1
<1>. QED  BY <1>1, <1>2

-----------------------------------------------------------------------------
(* The two ways a packet ends, and what is left of it.                     *)

WireTypes == /\ inbuf \in Seq(Units) /\ toChip \in Seq(Seq(Units))
             /\ fromChip \in Seq(Seq(Units)) /\ answer \in Seq(Units)

LEMMA InCall ==
  ASSUME UInv, Active \/ pc \in {"sync", "listen", "ready"}
  PROVE  /\ call \in 1..Len(Script) /\ call \in Nat /\ counter \in Nat /\ pc # "done"
         /\ Script[call] \in {"send", "recv"}
  BY ScriptShape, DownloadAssumption DEF UInv, TypeOK, Proto, Active

LEMMA LastAccepted ==
  ASSUME TypeOK, accepted # <<>>
  PROVE  accepted[Len(accepted)] \in 1..Len(Script) /\ accepted[Len(accepted)] \in Nat
<1>1. accepted \in Seq(DOMAIN Script)
  BY DEF TypeOK
<1>2. Len(accepted) \in 1..Len(accepted)
  BY <1>1
<1>3. accepted[Len(accepted)] \in DOMAIN Script
  BY <1>1, <1>2
<1>. QED  BY <1>3, ScriptShape

LEMMA LateType == ASSUME TypeOK, TimedOut \/ UNCHANGED late PROVE late' \in 0..MaxLate
<1>1. late \in 0..MaxLate /\ MaxLate \in Nat
  BY DownloadAssumption DEF TypeOK
<1>2. late' = late \/ (late < MaxLate /\ late' = late + 1)
  BY DEF TimedOut
<1>. QED  BY <1>1, <1>2

LEMMA NewPacketStep ==
  ASSUME UInv, NEW ping, NewPacket(ping), call \in 1..Len(Script),
         Settled(inbuf'), inbuf' \in Seq(Units),
         UNCHANGED <<call, toChip, fromChip, chip>>,
         offered < call, Sending => ~HasArrived
  PROVE  Proto' /\ counter' \in 0..(CounterMod - 1)
<1>1. counter' \in 0..(CounterMod - 1) /\ counter' # counter /\ pc' = "write"
  BY NextCounter DEF NewPacket, UInv, TypeOK
<1>2. lastCounter' = counter /\ UNCHANGED <<answer, accepted, held, offered>>
  BY DEF Settled, chip
<1>3. /\ ~HasAnswer(inbuf', counter', call) /\ Ordered(inbuf', counter', call)
      /\ \A m \in 1..Len(fromChip) : ~HasAnswer(fromChip[m], counter', call)
  <2>1. Tagged(inbuf', counter)
    BY DEF Settled
  <2>2. ASSUME NEW m \in 1..Len(fromChip)
        PROVE  fromChip[m] \in Seq(Units) /\ Tagged(fromChip[m], counter)
    BY DEF Settled, UInv, TypeOK
  <2>. QED  BY <1>1, <2>1, <2>2, NoneAnswers
<1>4. InOrder(inbuf', fromChip', counter', call')
  BY <1>3 DEF InOrder
<1>5. \A u \in Heard(inbuf', fromChip') : ~Answers(u, counter', call')
  BY <1>3 DEF Heard, HasAnswer
<1>6. ToldAll'
  BY <1>5 DEF ToldAll, Told
<1>7. \A i \in 1..Len(toChip) : IsRequest(toChip[i]) => Stale(toChip[i])'
  BY <1>1, <1>2 DEF Settled, Stale
<1>8. counter' \in Nat /\ call' \in Nat
  BY <1>1, ScriptShape, DownloadAssumption
<1>9. Packet'[1].n = counter' /\ IsRequest(Packet')
  <2>1. Packet' = PacketOf(counter', call', doPing')
    BY DEF Packet, PacketOf, Sending
  <2>2. PacketOf(counter', call', doPing')[1].n = counter'
          /\ IsRequest(PacketOf(counter', call', doPing'))
    BY <1>8, PacketIs
  <2>. QED  BY <2>1, <2>2
<1>10. Outgoing'
  <2>1. \A i \in 1..Len(toChip) : toChip[i] # Packet'
    BY <1>1, <1>9 DEF Settled
  <2>. QED  BY <1>7, <2>1 DEF Outgoing, Stale
<1>11. Exchange'
  <2>1. Sending' = Sending
    BY DEF Sending
  <2>2. IF Sending' THEN ChipSend' /\ offered' < call' ELSE ChipRecv'
    BY <1>1, <1>2, <2>1 DEF ChipSend, ChipRecv, HasArrived
  <2>. QED  BY <1>4, <1>6, <1>10, <2>2 DEF Exchange
<1>12. InScript' /\ Tagged(answer', lastCounter')
  BY <1>2 DEF UInv, Proto, InScript, chip
<1>. QED  BY <1>1, <1>11, <1>12, ScriptShape DEF Proto, Resting, Active

LEMMA ReturnStep ==
  ASSUME UInv, Return, call \in 1..Len(Script), Settled(inbuf'), InScript,
         UNCHANGED <<counter, toChip, fromChip, chip>>,
         Sending \/ offered = call
  PROVE  Proto'
<1>1. call \in Nat /\ Len(Script) \in Nat /\ DOMAIN Script = 1..Len(Script)
  BY ScriptShape
<1>2. call' = call + 1 /\ pc' = IF call = Len(Script) THEN "done" ELSE "ready"
  BY DEF Return
<1>3. UNCHANGED <<lastCounter, answer, accepted, held, offered>>
  BY DEF chip
<1>4. /\ offered \in Nat
      /\ accepted # <<>> => accepted[Len(accepted)] \in Nat
  <2>1. TypeOK
    BY DEF UInv
  <2>2. offered \in Nat
    BY <1>1, <2>1 DEF TypeOK
  <2>3. accepted # <<>> => accepted[Len(accepted)] \in Nat
    BY <2>1, LastAccepted
  <2>. QED  BY <2>2, <2>3
<1>5. offered < call + 1 /\ (accepted # <<>> => accepted[Len(accepted)] < call + 1)
  BY <1>1, <1>4 DEF InScript
<1>6. pc' \notin {"sync", "listen"}
  BY <1>2
<1>7. AtRest'
  BY <1>2, <1>3, <1>5, <1>6 DEF AtRest, Settled
<1>8. InScript'
  <2>1. ASSUME NEW r \in DOMAIN Script, Script[r] = "recv", r < call + 1 PROVE r <= offered
    <3>1. r \in Nat /\ (r = call \/ r < call)
      BY <1>1, <2>1
    <3>2. CASE r = call
      BY <1>1, <1>4, <2>1, <3>2 DEF Sending
    <3>. QED  BY <2>1, <3>1, <3>2 DEF InScript
  <2>2. offered <= call + 1 /\ (accepted # <<>> => accepted[Len(accepted)] <= call + 1)
    BY <1>1, <1>4, <1>5
  <2>. QED  BY <1>2, <1>3, <2>1, <2>2 DEF InScript
<1>9. pc' = "done" <=> call' = Len(Script) + 1
  <2>1. \A k, n \in Nat : k = n <=> k + 1 = n + 1
    OBVIOUS
  <2>2. call = Len(Script) <=> call + 1 = Len(Script) + 1
    BY <1>1, <2>1
  <2>. QED  BY <1>2, <2>2
<1>10. Tagged(answer', lastCounter')
  BY <1>3 DEF UInv, Proto
<1>. QED  BY <1>2, <1>7, <1>8, <1>9, <1>10 DEF Proto, Resting, Active

-----------------------------------------------------------------------------
(* Synchronisation.                                                        *)

LEMMA RestStep ==
  ASSUME UInv, pc \in {"sync", "listen"}, pc' \in {"sync", "listen", "ready"},
         UNCHANGED <<call, chip, fromChip>>, counter' = 0,
         inbuf' \in Seq(Units), Tagged(inbuf', counter),
         \/ toChip' = toChip
         \/ toChip' = Append(toChip, Sync("SYNC_TOKEN"))
  PROVE  Proto' /\ toChip' \in Seq(Seq(Units))
<1>1. AtRest /\ counter = 0 /\ counter' = 0
  BY DEF UInv, Proto, Resting, AtRest
<1>2. Sync("SYNC_TOKEN") \in Seq(Units) /\ ~IsRequest(Sync("SYNC_TOKEN"))
  BY SyncShape
<1>3. toChip \in Seq(Seq(Units))
      /\ \A i \in 1..Len(toChip) :
           IsRequest(toChip[i]) => toChip[i][1].n = counter /\ answer # <<>>
  BY <1>1 DEF AtRest, Settled, UInv, TypeOK
<1>4. toChip' \in Seq(Seq(Units))
      /\ \A i \in 1..Len(toChip') :
           IsRequest(toChip'[i]) => toChip'[i][1].n = counter /\ answer # <<>>
  <2>1. CASE toChip' = toChip
    BY <1>3, <2>1
  <2>2. CASE toChip' = Append(toChip, Sync("SYNC_TOKEN"))
    <3> DEFINE e == Sync("SYNC_TOKEN")
    <3>1. e \in Seq(Units) /\ ~IsRequest(e) /\ toChip' = Append(toChip, e)
      BY <1>2, <2>2
    <3> HIDE DEF e
    <3>2. /\ toChip' \in Seq(Seq(Units)) /\ Len(toChip') = Len(toChip) + 1 /\ Len(toChip) \in Nat
          /\ \A i \in 1..(Len(toChip) + 1) : toChip'[i] = IF i <= Len(toChip) THEN toChip[i] ELSE e
      BY <1>3, <3>1, AppendShape
    <3>. QED  BY <1>3, <3>1, <3>2
  <2>. QED  BY <2>1, <2>2
<1>5. UNCHANGED <<lastCounter, answer, accepted, held, offered>>
  BY DEF chip
<1>6. AtRest'
  BY <1>1, <1>4, <1>5 DEF AtRest, Settled
<1>. QED  BY <1>4, <1>5, <1>6 DEF UInv, Proto, InScript, Resting, Active

LEMMA SendSyncStep == ASSUME UInv, SendSync PROVE UInv'
<1>1. /\ inbuf' = Sync("SYNC_TOKEN") /\ inbuf' \in Seq(Units) /\ Tagged(inbuf', counter)
  BY SyncShape DEF SendSync
<1>2. pc = "sync" /\ pc' = "listen" /\ UNCHANGED <<call, chip, fromChip, counter>> /\ counter = 0
  BY DEF SendSync, UInv, Proto, Resting, AtRest
<1>3. toChip' = toChip \/ toChip' = Append(toChip, Sync("SYNC_TOKEN"))
  BY DEF SendSync, Transmit
<1>4. Proto' /\ toChip' \in Seq(Seq(Units))
  BY <1>1, <1>2, <1>3, RestStep
<1>5. num' \in 0..SyncTries /\ lost' \in 0..MaxLost
  BY DownloadAssumption DEF SendSync, Transmit, UInv, TypeOK
<1>. QED  BY <1>1, <1>4, <1>5 DEF SendSync, UInv, TypeOK, chip

LEMMA HardResetStep == ASSUME UInv, HardReset PROVE UInv'
<1> DEFINE echo == Sync("SYNC_TOKEN")
<1>1. /\ echo \in Seq(Units) /\ Tagged(echo, counter) /\ Tagged(inbuf, counter)
      /\ inbuf \in Seq(Units)
  BY SyncShape DEF HardReset, UInv, TypeOK, Proto, Resting, AtRest, Settled
<1> HIDE DEF echo
<1>2. inbuf \o echo \in Seq(Units) /\ Tagged(inbuf \o echo, counter)
  BY <1>1, ConcatKeeps, ConcatShape
<1>3. inbuf' = Drop(inbuf \o echo, 2)
  BY DEF HardReset, echo
<1>4. inbuf' \in Seq(Units) /\ Tagged(inbuf', counter)
  BY <1>2, <1>3, DropKeeps, DropShape
<1>5. pc = "sync" /\ pc' = "sync" /\ UNCHANGED <<call, chip, fromChip, toChip>> /\ counter' = 0
  BY DEF HardReset
<1>6. Proto'
  BY <1>4, <1>5, RestStep
<1>7. num' \in 0..SyncTries /\ counter' \in 0..(CounterMod - 1)
  BY DownloadAssumption DEF HardReset
<1>. QED  BY <1>4, <1>6, <1>7 DEF HardReset, UInv, TypeOK, chip

LEMMA ListenStep == ASSUME UInv, Listen \/ ListenTimeout PROVE UInv'
<1>1. inbuf \in Seq(Units) /\ Tagged(inbuf, counter) /\ pc = "listen" /\ counter = 0
  BY DEF Listen, ListenTimeout, UInv, TypeOK, Proto, Resting, AtRest, Settled
<1>2. inbuf' = Drop(inbuf, 2) \/ inbuf' = inbuf
  BY DEF Listen, ListenTimeout, wire
<1>3. inbuf' \in Seq(Units) /\ Tagged(inbuf', counter)
  <2>1. Drop(inbuf, 2) \in Seq(Units) /\ Tagged(Drop(inbuf, 2), counter)
    BY <1>1, DropKeeps, DropShape
  <2>. QED  BY <1>1, <1>2, <2>1
<1>4. /\ pc' \in {"sync", "listen", "ready"}
      /\ UNCHANGED <<call, chip, fromChip, toChip, counter>>
  BY DEF Listen, ListenTimeout, wire
<1>5. Proto'
  BY <1>1, <1>3, <1>4, RestStep
<1>6. late' \in 0..MaxLate
  BY LateType DEF Listen, ListenTimeout, UInv
<1>. QED  BY <1>3, <1>4, <1>5, <1>6 DEF Listen, ListenTimeout, UInv, TypeOK, chip

LEMMA BeginStep == ASSUME UInv, Begin PROVE UInv'
<1>1. /\ pc = "ready" /\ NewPacket(Sending /\ pingFirst) /\ inbuf' = inbuf
      /\ UNCHANGED <<call, toChip, fromChip, chip>>
  BY DEF Begin, wire
<1>2. call \in 1..Len(Script) /\ call \in Nat
  BY <1>1, InCall
<1>3. AtRest
  BY <1>1 DEF UInv, Proto, Resting
<1>4. Settled(inbuf') /\ offered < call /\ ~HasArrived
  BY <1>1, <1>2, <1>3, ScriptShape DEF AtRest, Settled, HasArrived, UInv, TypeOK
<1>5. inbuf' \in Seq(Units)
  BY <1>1 DEF UInv, TypeOK
<1>6. Proto' /\ counter' \in 0..(CounterMod - 1)
  BY <1>1, <1>2, <1>4, <1>5, NewPacketStep
<1>7. pc' = "write" /\ doPing' \in BOOLEAN /\ tries' \in 0..(MaxTries + 1)
  BY <1>1, DownloadAssumption DEF NewPacket
<1>. QED  BY <1>1, <1>6, <1>7 DEF Begin, UInv, TypeOK, wire, chip

-----------------------------------------------------------------------------
(* The tool in a packet.                                                   *)

LEMMA HereActive ==
  ASSUME UInv, Active
  PROVE  /\ WireTypes /\ Exchange /\ InScript /\ Tagged(answer, lastCounter)
         /\ InOrder(inbuf, fromChip, counter, call) /\ ToldAll /\ Outgoing
         /\ call \in 1..Len(Script) /\ call \in Nat /\ counter \in Nat
         /\ offered \in Nat /\ offered <= call
  BY InCall, ScriptShape DEF UInv, TypeOK, WireTypes, Proto, Exchange, InScript

\* A step that at most reads.
LEMMA StayActive ==
  ASSUME UInv, Active, Active', pc' = "payload" => InPayload',
         UNCHANGED <<call, counter, doPing, toChip, fromChip, chip>>,
         inbuf' = inbuf \/ \E n \in Nat : inbuf' = Drop(inbuf, n)
  PROVE  Proto' /\ inbuf' \in Seq(Units)
<1>1. UNCHANGED <<lastCounter, answer, accepted, held, offered>>
  BY DEF chip
<1>2. inbuf' \in Seq(Units)
  BY HereActive, DropShape DEF WireTypes
<1>3. InOrder(inbuf', fromChip, counter, call) /\ Heard(inbuf', fromChip) \subseteq Heard(inbuf, fromChip)
  BY <1>2, HereActive, OrderedDrop DEF WireTypes
<1>4. ToldAll'
  BY <1>1, <1>3, HereActive DEF ToldAll, Told, Sending
<1>5. Packet' = Packet
  BY DEF Packet, Sending
<1>6. Outgoing'
  BY <1>1, <1>5, HereActive DEF Outgoing, Stale
<1>7. Exchange'
  BY <1>1, <1>3, <1>4, <1>6, HereActive
  DEF Exchange, Sending, ChipSend, ChipRecv, HasArrived
<1>8. call # Len(Script) + 1 /\ pc' # "done"
  BY HereActive, ScriptShape DEF Active
<1>. QED  BY <1>1, <1>2, <1>7, <1>8, HereActive DEF Proto, InScript, Resting, Active

LEMMA WriteStep == ASSUME UInv, Write PROVE UInv'
<1>1. /\ Active /\ Active' /\ pc' = "await"
      /\ UNCHANGED <<call, counter, doPing, fromChip, chip>>
      /\ inbuf' = Drop(inbuf \o Packet, Len(Packet)) /\ Transmit(Packet)
  BY DEF Write, PortWrite, Active
<1>2. /\ inbuf \in Seq(Units) /\ toChip \in Seq(Seq(Units)) /\ fromChip \in Seq(Seq(Units))
      /\ Exchange /\ InScript
      /\ InOrder(inbuf, fromChip, counter, call) /\ ToldAll /\ Outgoing
      /\ call \in 1..Len(Script) /\ call \in Nat /\ counter \in Nat
  BY <1>1, HereActive DEF WireTypes
<1>3. UNCHANGED <<lastCounter, answer, accepted, held, offered>>
  BY <1>1 DEF chip
<1> DEFINE p == Packet
<1>4. /\ p \in Seq(Units) /\ Len(p) \in Nat /\ IsRequest(p) /\ p[1].n = counter
      /\ AllCurrent(p, counter, call) /\ ~HasAnswer(p, counter, call) /\ Ordered(p, counter, call)
  BY <1>2, PacketIs, PacketNow
<1>5. Packet' = p
  BY <1>1 DEF Packet, Sending
<1> HIDE DEF p
<1>6. /\ inbuf \o p \in Seq(Units) /\ Ordered(inbuf \o p, counter, call)
      /\ HasAnswer(inbuf \o p, counter, call) => HasAnswer(inbuf, counter, call)
  BY <1>2, <1>4, ConcatKeeps, ConcatShape DEF InOrder
<1>7. InOrder(inbuf \o p, fromChip, counter, call)
  BY <1>2, <1>6 DEF InOrder
<1>8. ASSUME NEW u \in Heard(inbuf \o p, fromChip), Answers(u, counter, call)
      PROVE  u \in Heard(inbuf, fromChip)
  <2>1. CASE \E j \in 1..Len(inbuf \o p) : u = (inbuf \o p)[j]
    <3>1. PICK j \in 1..Len(inbuf \o p) : u = (inbuf \o p)[j]
      BY <2>1
    <3>2. /\ Len(inbuf \o p) = Len(inbuf) + Len(p) /\ Len(inbuf) \in Nat /\ Len(p) \in Nat
          /\ \A i \in 1..Len(inbuf \o p) :
               (inbuf \o p)[i] = IF i <= Len(inbuf) THEN inbuf[i] ELSE p[i - Len(inbuf)]
      BY <1>2, <1>4, ConcatShape
    <3>3. j \in 1..Len(inbuf) \/ (~(j <= Len(inbuf)) /\ j - Len(inbuf) \in 1..Len(p))
      BY <3>2, Beyond
    <3>4. CASE j \in 1..Len(inbuf)
      <4>1. u = inbuf[j]
        BY <3>1, <3>2, <3>4
      <4>. QED  BY <3>4, <4>1, HeardRead
    <3>5. CASE ~(j <= Len(inbuf)) /\ j - Len(inbuf) \in 1..Len(p)
      BY <1>4, <1>8, <3>1, <3>2, <3>5 DEF HasAnswer
    <3>. QED  BY <3>3, <3>4, <3>5
  <2>2. CASE ~(\E j \in 1..Len(inbuf \o p) : u = (inbuf \o p)[j])
    BY <1>8, <2>2 DEF Heard
  <2>. QED  BY <2>1, <2>2
<1>9. /\ inbuf' = Drop(inbuf \o p, Len(p)) /\ inbuf' \in Seq(Units)
      /\ InOrder(inbuf', fromChip, counter, call)
      /\ Heard(inbuf', fromChip) \subseteq Heard(inbuf \o p, fromChip)
  <2>1. inbuf' = Drop(inbuf \o p, Len(p))
    BY <1>1 DEF p
  <2>2. inbuf' \in Seq(Units)
    BY <1>4, <1>6, <2>1, DropShape
  <2>. QED  BY <1>4, <1>6, <1>7, <2>1, <2>2, OrderedDrop
<1>10. ToldAll'
  BY <1>1, <1>2, <1>3, <1>8, <1>9 DEF ToldAll, Told, Sending
<1>11. toChip' \in Seq(Seq(Units)) /\ Outgoing'
  <2>1. \A x : Stale(x)' <=> Stale(x)
    BY <1>1, <1>3 DEF Stale
  <2>2. CASE toChip' = toChip
    BY <1>2, <1>5, <2>1, <2>2 DEF Outgoing, p
  <2>3. CASE toChip' = Append(toChip, p)
    <3>1. /\ toChip' \in Seq(Seq(Units)) /\ Len(toChip') = Len(toChip) + 1 /\ Len(toChip) \in Nat
          /\ \A i \in 1..(Len(toChip) + 1) : toChip'[i] = IF i <= Len(toChip) THEN toChip[i] ELSE p
      BY <1>2, <1>4, <2>3, AppendShape
    <3>2. \A i \in 1..Len(toChip') : \/ i \in 1..Len(toChip) /\ toChip'[i] = toChip[i]
                                     \/ i = Len(toChip') /\ toChip'[i] = p
      BY <3>1
    <3>3. \A i \in 1..Len(toChip') : IsRequest(toChip'[i]) => toChip'[i] = p \/ Stale(toChip'[i])
      BY <1>2, <3>2 DEF Outgoing, p
    <3>4. ASSUME NEW i \in 1..Len(toChip'), NEW j \in 1..Len(toChip'), i < j,
                 toChip'[i] = p, IsRequest(toChip'[j])
          PROVE  toChip'[j] = p
      <4>1. i \in 1..Len(toChip) /\ toChip'[i] = toChip[i]
        BY <3>1, <3>2, <3>4
      <4>2. CASE j \in 1..Len(toChip) /\ toChip'[j] = toChip[j]
        BY <1>2, <3>4, <4>1, <4>2 DEF Outgoing, p
      <4>. QED  BY <3>2, <4>2
    <3>5. \A i \in 1..Len(toChip') : IsRequest(toChip'[i]) =>
            \/ toChip'[i] = p
            \/ toChip'[i][1].n = lastCounter' /\ lastCounter' # counter' /\ answer' # <<>>
      BY <1>1, <1>3, <3>3 DEF Stale
    <3>6. (\A i \in 1..Len(toChip) : IsRequest(toChip[i]) => toChip[i] = Packet \/ Stale(toChip[i]))'
      BY <1>5, <3>5 DEF Stale
    <3>7. (\A i, j \in 1..Len(toChip) :
             i < j /\ toChip[i] = Packet /\ IsRequest(toChip[j]) => toChip[j] = Packet)'
      BY <1>5, <3>4
    <3>. QED  BY <3>1, <3>6, <3>7 DEF Outgoing
  <2>. QED  BY <1>1, <2>2, <2>3 DEF Transmit, p
<1>12. lost' \in 0..MaxLost
  BY <1>1, DownloadAssumption DEF Transmit, UInv, TypeOK
<1>13. Exchange'
  <2>1. Sending' = Sending
    BY <1>1 DEF Sending
  <2>. QED  BY <1>1, <1>2, <1>3, <1>9, <1>10, <1>11, <2>1
            DEF Exchange, ChipSend, ChipRecv, HasArrived
<1>14. Proto'
  <2>1. call # Len(Script) + 1
    BY <1>2, ScriptShape
  <2>. QED  BY <1>1, <1>2, <1>3, <1>13, <2>1 DEF UInv, Proto, InScript, Resting, Active
<1>. QED  BY <1>1, <1>9, <1>11, <1>12, <1>14 DEF Write, UInv, TypeOK, chip

LEMMA AwaitTimeoutStep == ASSUME UInv, AwaitTimeout PROVE UInv'
<1>1. /\ Active /\ Active' /\ pc' \in {"write", "failed"} /\ inbuf' = inbuf
      /\ UNCHANGED <<call, counter, doPing, toChip, fromChip, chip>>
  BY DEF AwaitTimeout, Active, Retry, Fail, wire
<1>2. Proto'
  BY <1>1, StayActive
<1>3. tries' \in 0..(MaxTries + 1)
  BY DownloadAssumption DEF AwaitTimeout, Retry, UInv, TypeOK
<1>4. late' \in 0..MaxLate
  BY LateType DEF AwaitTimeout, UInv
<1>5. error' \in {"none", "timeout", "token", "mismatch"}
  BY DEF AwaitTimeout, Fail, UInv, TypeOK
<1>. QED  BY <1>1, <1>2, <1>3, <1>4, <1>5 DEF AwaitTimeout, UInv, TypeOK, wire, chip

LEMMA TailIsDrop == ASSUME NEW S, NEW s \in Seq(S), s # <<>> PROVE Tail(s) = Drop(s, 1)
<1>1. Len(s) \in Nat /\ Len(s) >= 1
  OBVIOUS
<1>2. /\ Drop(s, 1) \in Seq(S) /\ Len(Drop(s, 1)) = Len(s) - 1
      /\ \A j \in 1..(Len(s) - 1) : Drop(s, 1)[j] = s[j + 1]
  <2>1. Lesser(1, Len(s)) = 1
    BY <1>1 DEF Lesser
  <2>2. /\ Drop(s, 1) \in Seq(S) /\ Len(Drop(s, 1)) = Len(s) - Lesser(1, Len(s))
        /\ \A j \in 1..(Len(s) - Lesser(1, Len(s))) : Drop(s, 1)[j] = s[j + Lesser(1, Len(s))]
    BY DropShape
  <2>. QED  BY <2>1, <2>2
<1>3. /\ Tail(s) \in Seq(S) /\ Len(Tail(s)) = Len(s) - 1
      /\ \A j \in 1..Len(Tail(s)) : Tail(s)[j] = s[j + 1]
  BY TailShape
<1> HIDE DEF Drop
<1>. QED  BY <1>2, <1>3, SeqEqual

\* Behind the answer that is read everything is settled.
LEMMA ReadSettles ==
  ASSUME UInv, pc = "await", inbuf # <<>>, Answers(Head(inbuf), counter, call)
  PROVE  /\ lastCounter = counter
         /\ AllCurrent(Tail(inbuf), counter, call)
         /\ \A m \in 1..Len(fromChip) : AllCurrent(fromChip[m], counter, call)
         /\ answer # <<>> => Settled(Tail(inbuf))
         /\ Told(Head(inbuf))
<1>1. Active
  BY DEF Active
<1>2. /\ inbuf \in Seq(Units) /\ fromChip \in Seq(Seq(Units)) /\ toChip \in Seq(Seq(Units))
      /\ call \in Nat /\ counter \in Nat
      /\ InOrder(inbuf, fromChip, counter, call) /\ ToldAll /\ Outgoing
  BY <1>1, HereActive DEF WireTypes
<1>3. Head(inbuf) = inbuf[1] /\ 1 \in 1..Len(inbuf) /\ Tail(inbuf) \in Seq(Units)
  BY <1>2, TailShape
<1>4. HasAnswer(inbuf, counter, call) /\ AllCurrent(Tail(inbuf), counter, call)
  BY <1>2, <1>3, TailKeeps DEF InOrder
<1>5. \A m \in 1..Len(fromChip) : AllCurrent(fromChip[m], counter, call)
  BY <1>2, <1>4 DEF InOrder
<1>6. Told(inbuf[1]) /\ lastCounter = counter
  BY <1>2, <1>3, HeardRead DEF ToldAll, Told
<1>7. ASSUME answer # <<>> PROVE Settled(Tail(inbuf))
  <2>1. Tagged(Tail(inbuf), counter) /\ \A m \in 1..Len(fromChip) : Tagged(fromChip[m], counter)
    <3>1. ASSUME NEW m \in 1..Len(fromChip) PROVE Tagged(fromChip[m], counter)
      <4>1. fromChip[m] \in Seq(Units)
        BY <1>2
      <4>. QED  BY <1>5, <4>1, CurrentIsTagged
    <3>. QED  BY <1>3, <1>4, <3>1, CurrentIsTagged
  <2>2. Packet[1].n = counter
    BY <1>2, PacketIs, PacketNow
  <2>3. \A i \in 1..Len(toChip) : IsRequest(toChip[i]) => toChip[i][1].n = counter
    BY <1>2, <1>6, <2>2 DEF Outgoing, Stale
  <2>. QED  BY <1>6, <1>7, <2>1, <2>3 DEF Settled
<1>. QED  BY <1>3, <1>4, <1>5, <1>6, <1>7

\* What a token tells the tool of its block.
LEMMA SendAnswer ==
  ASSUME UInv, pc = "await", inbuf # <<>>, Sending,
         Head(inbuf).type \in {"ACK", "NAK", "NYET"}, Head(inbuf).n = counter
  PROVE  /\ Settled(Tail(inbuf)) /\ offered < call
         /\ HasArrived <=> ~doPing /\ Head(inbuf).type # "NAK"
         /\ doPing => Head(inbuf).type # "NYET"
<1>1. Answers(Head(inbuf), counter, call)
  BY DEF Answers, AnswerTypes
<1>2. lastCounter = counter /\ answer = <<Head(inbuf)>>
  BY <1>1, ReadSettles DEF Told
<1>3. answer # <<>> /\ Settled(Tail(inbuf))
  BY <1>1, <1>2, ReadSettles
<1>4. ChipSend /\ offered < call
  BY HereActive DEF Active, Exchange
<1>5. PICK t \in {"ACK", "NAK", "NYET"} :
        /\ answer = <<Unit(t, counter)>>
        /\ doPing => t # "NYET"
        /\ HasArrived <=> ~doPing /\ t # "NAK"
  BY <1>2, <1>4 DEF ChipSend
<1>6. Head(inbuf) = Unit(t, counter)
  <2>1. \A a, b : <<a>> = <<b>> => a = b
    OBVIOUS
  <2>. QED  BY <1>2, <1>5, <2>1
<1>7. Head(inbuf).type = t
  BY <1>6 DEF Unit
<1>. QED  BY <1>3, <1>4, <1>5, <1>7

LEMMA ReadTokenStep == ASSUME UInv, ReadToken PROVE UInv'
<1> DEFINE u == Head(inbuf)
<1>1. /\ pc = "await" /\ inbuf # <<>> /\ inbuf' = Tail(inbuf) /\ Active
      /\ UNCHANGED <<num, got, toChip, fromChip, chip, lost, late>>
  BY DEF ReadToken, Active
<1>2. /\ inbuf \in Seq(Units) /\ call \in 1..Len(Script) /\ call \in Nat /\ InScript
      /\ tries \in 0..(MaxTries + 1) /\ counter \in 0..(CounterMod - 1)
      /\ error \in {"none", "timeout", "token", "mismatch"}
      /\ pingFirst \in BOOLEAN /\ doPing \in BOOLEAN
  BY <1>1, HereActive DEF WireTypes, UInv, TypeOK
<1>3. inbuf' \in Seq(Units) /\ \E n \in Nat : inbuf' = Drop(inbuf, n)
  BY <1>1, <1>2, TailIsDrop, TailShape
<1>4. MaxTries \in Nat /\ call + 1 \in 1..(Len(Script) + 1) /\ call \in 1..(Len(Script) + 1)
  <2>1. \A k, n \in Nat : k \in 1..n => k \in 1..(n + 1) /\ k + 1 \in 1..(n + 1)
    OBVIOUS
  <2>. QED  BY <1>2, <2>1, ScriptShape, DownloadAssumption
<1> DEFINE Types == /\ pc' \in {"ready", "done", "write", "payload", "failed"}
                    /\ call' \in 1..(Len(Script) + 1) /\ counter' \in 0..(CounterMod - 1)
                    /\ pingFirst' \in BOOLEAN /\ doPing' \in BOOLEAN
                    /\ tries' \in 0..(MaxTries + 1)
                    /\ error' \in {"none", "timeout", "token", "mismatch"}
<1> SUFFICES Proto' /\ Types
  BY <1>1, <1>3 DEF UInv, TypeOK, chip
<1>5. CASE pc' = "failed" /\ UNCHANGED <<call, counter, pingFirst, doPing>>
             /\ error' \in {"token", "mismatch"} /\ tries' \in {tries, 0}
  <2>1. Proto'
    BY <1>1, <1>3, <1>5, StayActive DEF Active
  <2>. QED  BY <1>2, <1>4, <1>5, <2>1
<1>6. CASE u.type \in Tokens /\ u.n = counter /\ Sending /\ SendToken(u.type)
  <2>1. CASE u.type \in {"ACK", "NAK"} /\ (doPing \/ u.type = "NAK")
               /\ (\E ping \in BOOLEAN : NewPacket(ping)) /\ UNCHANGED <<call, pingFirst, error>>
    <3>1. Settled(inbuf') /\ offered < call /\ ~HasArrived
      BY <1>1, <1>6, <2>1, SendAnswer
    <3>2. PICK ping \in BOOLEAN : NewPacket(ping)
      BY <2>1
    <3>3. Proto' /\ counter' \in 0..(CounterMod - 1)
      BY <1>1, <1>2, <1>3, <2>1, <3>1, <3>2, NewPacketStep
    <3>4. pc' = "write" /\ doPing' \in BOOLEAN /\ tries' = 0
      BY <3>2 DEF NewPacket
    <3>. QED  BY <1>2, <1>4, <2>1, <3>3, <3>4
  <2>2. CASE ~doPing /\ u.type \in {"ACK", "NYET"} /\ pingFirst' = (u.type = "NYET") /\ Return
               /\ UNCHANGED <<counter, doPing, tries, error>>
    <3>1. Settled(inbuf')
      BY <1>1, <1>6, <2>2, SendAnswer
    <3>2. Proto'
      BY <1>1, <1>2, <1>6, <2>2, <3>1, ReturnStep
    <3>3. call' = call + 1 /\ pc' \in {"ready", "done"} /\ pingFirst' \in BOOLEAN
      BY <2>2 DEF Return
    <3>. QED  BY <1>2, <1>4, <2>2, <3>2, <3>3
  <2>3. CASE Fail("token") /\ UNCHANGED <<call, counter, pingFirst, doPing, tries>>
    BY <1>5, <2>3 DEF Fail
  <2>. QED  BY <1>2, <1>6, <2>1, <2>2, <2>3 DEF SendToken
<1>7. CASE u.type \in Tokens /\ u.n = counter /\ ~Sending /\ ReceiveToken(u.type)
  <2>1. UNCHANGED <<call, counter, pingFirst, doPing>> /\ tries' = 0
    BY <1>7 DEF ReceiveToken
  <2>2. CASE u.type = "DATA_TOKEN" /\ pc' = "payload" /\ error' = error
    <3>1. Answers(u, counter, call)
      BY <1>7, <2>2 DEF Answers, AnswerTypes, Sending
    <3>2. /\ lastCounter = counter /\ answer # <<>>
          /\ AllCurrent(Tail(inbuf), counter, call)
          /\ \A m \in 1..Len(fromChip) : AllCurrent(fromChip[m], counter, call)
      BY <1>1, <2>2, <3>1, ReadSettles DEF Told
    <3>3. InPayload'
      BY <1>1, <1>7, <2>1, <3>2 DEF InPayload, Sending, chip
    <3>4. Proto'
      BY <1>1, <1>3, <2>1, <2>2, <3>3, StayActive DEF Active
    <3>. QED  BY <1>2, <1>4, <2>1, <2>2, <3>4
  <2>3. CASE pc' = "write" /\ error' = error
    <3>1. Proto'
      BY <1>1, <1>3, <2>1, <2>3, StayActive DEF Active
    <3>. QED  BY <1>2, <1>4, <2>1, <2>3, <3>1
  <2>4. CASE Fail("token")
    BY <1>5, <2>1, <2>4 DEF Fail
  <2>. QED  BY <1>7, <2>2, <2>3, <2>4 DEF ReceiveToken
<1>8. CASE Mismatch
  BY <1>5, <1>8 DEF Mismatch, Fail
<1>. QED  BY <1>5, <1>6, <1>7, <1>8 DEF ReadToken

\* What the chip still has to read is about this packet.
LEMMA OutgoingSettled ==
  ASSUME UInv, Active, lastCounter = counter
  PROVE  \A i \in 1..Len(toChip) : IsRequest(toChip[i]) => toChip[i][1].n = counter
<1>1. Packet[1].n = counter
  BY HereActive, PacketIs, PacketNow
<1>. QED  BY <1>1, HereActive DEF Outgoing, Stale

\* A payload whose CRC fits is the reply to the call.
LEMMA GoodPayload ==
  ASSUME UInv, pc = "payload"
  PROVE  /\ Settled(Drop(inbuf, 3)) /\ ~Sending /\ offered = call
         /\ Len(inbuf) >= 3 /\ PayloadIsGood(SubSeq(inbuf, 1, 3)) => inbuf[2].n = call
<1>1. Active
  BY DEF Active
<1>2. InPayload /\ inbuf \in Seq(Units) /\ fromChip \in Seq(Seq(Units)) /\ Exchange
  BY <1>1, HereActive DEF WireTypes, UInv, Proto
<1>3. Tagged(inbuf, counter)
  BY <1>2, CurrentIsTagged DEF InPayload
<1>4. Tagged(Drop(inbuf, 3), counter)
  BY <1>2, <1>3, DropKeeps
<1>5. ASSUME NEW m \in 1..Len(fromChip) PROVE Tagged(fromChip[m], counter)
  <2>1. fromChip[m] \in Seq(Units) /\ AllCurrent(fromChip[m], counter, call)
    BY <1>2 DEF InPayload
  <2>. QED  BY <2>1, CurrentIsTagged
<1>6. Settled(Drop(inbuf, 3))
  BY <1>1, <1>2, <1>4, <1>5, OutgoingSettled DEF Settled, InPayload
<1>7. ~Sending /\ offered = call
  BY <1>2 DEF InPayload, Exchange, ChipRecv
<1>8. ASSUME Len(inbuf) >= 3, PayloadIsGood(SubSeq(inbuf, 1, 3)) PROVE inbuf[2].n = call
  <2> DEFINE s == SubSeq(inbuf, 1, 3)
  <2>1. s[2] = inbuf[2] /\ s[3] = inbuf[3] /\ 3 \in 1..Len(inbuf)
    BY <1>2, <1>8
  <2>2. s = Payload(s[2].n)
    BY <1>8 DEF PayloadIsGood
  <2> HIDE DEF s
  <2>3. s[3] = Unit("crc", s[2].n)
    BY <2>2 DEF Payload
  <2>4. Current(inbuf[3], counter, call)
    BY <1>2, <2>1 DEF InPayload, AllCurrent
  <2>. QED  BY <2>1, <2>3, <2>4 DEF Current, Unit
<1>. QED  BY <1>6, <1>7, <1>8

LEMMA ReadPayloadStep == ASSUME UInv, ReadPayload PROVE UInv'
<1>1. /\ pc = "payload" /\ Active /\ inbuf' = Drop(inbuf, 3)
      /\ UNCHANGED <<num, counter, pingFirst, doPing, error, toChip, fromChip, chip, lost>>
      /\ InPayload
  BY DEF ReadPayload, Active, UInv, Proto
<1>2. /\ inbuf \in Seq(Units) /\ call \in 1..Len(Script) /\ call \in Nat /\ InScript
      /\ got \in Seq(Nat)
  BY <1>1, HereActive DEF WireTypes, UInv, TypeOK
<1>3. inbuf' \in Seq(Units)
  BY <1>1, <1>2, DropShape
<1>4. late' \in 0..MaxLate
  BY LateType DEF ReadPayload, UInv
<1>5. MaxTries \in Nat /\ call + 1 \in 1..(Len(Script) + 1) /\ call \in 1..(Len(Script) + 1)
  <2>1. \A k, n \in Nat : k \in 1..n => k \in 1..(n + 1) /\ k + 1 \in 1..(n + 1)
    OBVIOUS
  <2>. QED  BY <1>2, <2>1, ScriptShape, DownloadAssumption
<1>6. CASE /\ Len(inbuf) >= 3 /\ PayloadIsGood(SubSeq(inbuf, 1, 3))
           /\ got' = Append(got, inbuf[2].n) /\ Return /\ UNCHANGED tries
  <2>1. Proto' /\ got' = Append(got, call)
    BY <1>1, <1>2, <1>6, GoodPayload, ReturnStep
  <2>2. got' \in Seq(Nat) /\ call' = call + 1 /\ pc' \in {"ready", "done"}
    BY <1>2, <1>6, <2>1 DEF Return
  <2>. QED  BY <1>1, <1>3, <1>4, <1>5, <1>6, <2>1, <2>2 DEF UInv, TypeOK, chip
<1>7. CASE Retry /\ UNCHANGED <<call, got>>
  <2>1. pc' = "write" /\ tries' = 1
    BY <1>1, <1>7 DEF Retry, InPayload
  <2>2. Proto'
    BY <1>1, <1>7, <2>1, StayActive DEF Active
  <2>. QED  BY <1>1, <1>3, <1>4, <1>5, <1>7, <2>1, <2>2 DEF UInv, TypeOK, chip
<1>. QED  BY <1>6, <1>7 DEF ReadPayload

-----------------------------------------------------------------------------
(* The chip.                                                               *)

LEMMA ReplyIs ==
  ASSUME NEW c \in Nat, NEW k \in Nat
  PROVE  LET r == <<Unit("DATA_TOKEN", c)>> \o Payload(k) IN
         /\ r \in Seq(Units) /\ Len(r) = 4 /\ r # <<>>
         /\ AllCurrent(r, c, k) /\ Tagged(r, c)
         /\ r[1] = Unit("DATA_TOKEN", c)
<1> DEFINE p == <<Unit("DATA_TOKEN", c), Unit("length", 1), Unit("body", k), Unit("crc", k)>>
<1>1. <<Unit("DATA_TOKEN", c)>> \o Payload(k) = p
  BY OneAndThree DEF Payload
<1>2. p \in Seq(Units) /\ Len(p) = 4 /\ p[1] = Unit("DATA_TOKEN", c)
  BY DEF Unit, Units, Tokens, Requests
<1>3. \A j \in 1..4 : Current(p[j], c, k) /\ (p[j].type \in Tokens => p[j].n = c)
  BY DEF Unit, Tokens, Requests, Current
<1> HIDE DEF p
<1>4. p # <<>>
  BY <1>2
<1>. QED  BY <1>1, <1>2, <1>3, <1>4 DEF AllCurrent, Tagged

LEMMA TokenIs ==
  ASSUME NEW t \in {"ACK", "NAK", "NYET"}, NEW c \in Nat, NEW k
  PROVE  /\ <<Unit(t, c)>> \in Seq(Units) /\ Len(<<Unit(t, c)>>) = 1 /\ <<Unit(t, c)>> # <<>>
         /\ AllCurrent(<<Unit(t, c)>>, c, k) /\ Tagged(<<Unit(t, c)>>, c)
  BY DEF Unit, Units, Tokens, Requests, AllCurrent, Tagged, Current

\* What the type of a packet says of the call.
LEMMA PacketKind ==
  /\ Packet[1].type = "DATA_TOKEN" => Sending /\ ~doPing /\ Packet[3].n = call
  /\ Packet[1].type = "PING_TOKEN" => Sending /\ doPing
  /\ Packet[1].type = "DATA_REQUEST" => ~Sending
<1>1. CASE ~Sending
  BY <1>1 DEF Packet, Unit
<1>2. CASE Sending /\ doPing
  BY <1>2 DEF Packet, Unit
<1>3. CASE Sending /\ ~doPing
  <2>1. Packet = <<Unit("DATA_TOKEN", counter), Unit("length", 1), Unit("body", call),
                   Unit("crc", call)>>
    BY <1>3, OneAndThree DEF Packet, Payload
  <2>. QED  BY <1>3, <2>1 DEF Unit
<1>. QED  BY <1>1, <1>2, <1>3

\* A packet that is not answered as before is the tool's, and unanswered.
LEMMA ChipNew ==
  ASSUME UInv, toChip # <<>>, IsRequest(Head(toChip)),
         ~(Head(toChip)[1].n = lastCounter /\ answer # <<>>)
  PROVE  /\ Active /\ Head(toChip) = Packet /\ Head(toChip)[1].n = counter
         /\ lastCounter # counter \/ (answer = <<>> /\ ~Sending)
<1>1. Head(toChip) = toChip[1] /\ 1 \in 1..Len(toChip)
  BY TailShape DEF UInv, TypeOK
<1>2. Active
  BY <1>1 DEF UInv, TypeOK, Proto, AtRest, Settled, Active, Resting
<1>3. toChip[1] = Packet
  BY <1>1, <1>2, HereActive DEF Outgoing, Stale
<1>4. Packet[1].n = counter
  BY <1>2, HereActive, PacketIs, PacketNow
<1>5. lastCounter = counter /\ Sending => answer # <<>>
  <2>1. \A u : <<u>> # <<>>
    OBVIOUS
  <2>. QED  BY <1>2, <2>1, HereActive DEF Exchange, ChipSend
<1>. QED  BY <1>1, <1>2, <1>3, <1>4, <1>5

\* The chip reads a packet and answers it: the order of the wire is kept.
LEMMA ChipWire ==
  ASSUME UInv, Active, toChip # <<>>, toChip' = Tail(toChip),
         NEW a \in Seq(Units), fromChip' = Append(fromChip, a),
         UNCHANGED <<call, counter, doPing, inbuf>>,
         AllCurrent(a, counter, call) \/ (lastCounter # counter /\ ~HasAnswer(a, counter, call)),
         \A j \in 1..Len(a) : Told(a[j])',
         \/ UNCHANGED <<lastCounter, answer>>
         \/ /\ toChip[1] = Packet /\ lastCounter' = counter
            /\ lastCounter # counter \/ (answer = <<>> /\ ~Sending)
  PROVE  /\ InOrder(inbuf, fromChip, counter, call)' /\ ToldAll' /\ Outgoing'
         /\ toChip' \in Seq(Seq(Units)) /\ fromChip' \in Seq(Seq(Units))
         /\ pc = "payload" => \A m \in 1..Len(fromChip') : AllCurrent(fromChip'[m], counter, call)
<1>1. /\ inbuf \in Seq(Units) /\ fromChip \in Seq(Seq(Units)) /\ toChip \in Seq(Seq(Units))
      /\ InOrder(inbuf, fromChip, counter, call) /\ ToldAll /\ Outgoing
  BY HereActive DEF WireTypes
<1>2. /\ toChip' \in Seq(Seq(Units)) /\ fromChip' \in Seq(Seq(Units)) /\ 1 \in 1..Len(toChip)
      /\ \A i \in 1..Len(toChip') : i + 1 \in 1..Len(toChip) /\ toChip'[i] = toChip[i + 1] /\ 1 < i + 1
  BY <1>1, TailShape, AppendShape
<1>3. (\E u \in Heard(inbuf, fromChip) : Answers(u, counter, call)) => lastCounter = counter
  BY <1>1 DEF ToldAll, Told
<1>4. /\ InOrder(inbuf, fromChip', counter, call)
      /\ Heard(inbuf, fromChip') \subseteq Heard(inbuf, fromChip) \cup {a[j] : j \in 1..Len(a)}
  BY <1>1, <1>3, OrderedAppend
<1>5. ASSUME NEW u \in Heard(inbuf, fromChip) PROVE Told(u)'
  BY <1>1, <1>5 DEF ToldAll, Told, Sending
<1>6. ToldAll'
  BY <1>4, <1>5 DEF ToldAll
<1>7. Packet' = Packet
  BY DEF Packet, Sending
<1>8. Outgoing'
  <2>1. ASSUME NEW i \in 1..Len(toChip'), IsRequest(toChip'[i])
        PROVE  \/ toChip'[i] = Packet
               \/ toChip'[i][1].n = lastCounter' /\ lastCounter' # counter' /\ answer' # <<>>
    BY <1>1, <1>2, <2>1 DEF Outgoing, Stale
  <2>2. ASSUME NEW i \in 1..Len(toChip'), NEW j \in 1..Len(toChip'), i < j,
               toChip'[i] = Packet, IsRequest(toChip'[j])
        PROVE  toChip'[j] = Packet
    <3>1. i + 1 < j + 1 /\ toChip[i + 1] = Packet /\ IsRequest(toChip[j + 1])
      BY <1>2, <2>2
    <3>. QED  BY <1>1, <1>2, <3>1 DEF Outgoing
  <2>3. (\A i \in 1..Len(toChip) : IsRequest(toChip[i]) => toChip[i] = Packet \/ Stale(toChip[i]))'
    BY <1>7, <2>1 DEF Stale
  <2>4. (\A i, j \in 1..Len(toChip) :
           i < j /\ toChip[i] = Packet /\ IsRequest(toChip[j]) => toChip[j] = Packet)'
    BY <1>7, <2>2
  <2>. QED  BY <2>3, <2>4 DEF Outgoing
<1>9. ASSUME pc = "payload", NEW m \in 1..Len(fromChip')
      PROVE  AllCurrent(fromChip'[m], counter, call)
  <2>1. InPayload
    BY <1>9 DEF UInv, Proto
  <2>2. /\ Len(fromChip) \in Nat /\ Len(fromChip') = Len(fromChip) + 1
        /\ \A i \in 1..(Len(fromChip) + 1) :
             fromChip'[i] = IF i <= Len(fromChip) THEN fromChip[i] ELSE a
    BY <1>1, AppendShape
  <2>3. CASE m \in 1..Len(fromChip) /\ fromChip'[m] = fromChip[m]
    BY <2>1, <2>3 DEF InPayload
  <2>4. CASE fromChip'[m] = a
    BY <2>1, <2>4 DEF InPayload
  <2>. QED  BY <1>9, <2>2, <2>3, <2>4
<1>. QED  BY <1>2, <1>4, <1>6, <1>8, <1>9

\* An answer that changes nothing in the chip.
LEMMA ChipRepeats ==
  ASSUME UInv, toChip # <<>>, toChip' = Tail(toChip),
         NEW a \in Seq(Units), fromChip' = Append(fromChip, a),
         UNCHANGED <<tool, inbuf, chip, lost, late>>,
         Resting => Tagged(a, counter),
         Active => \/ AllCurrent(a, counter, call)
                   \/ lastCounter # counter /\ ~HasAnswer(a, counter, call),
         Active => \A j \in 1..Len(a) : Told(a[j])
  PROVE  UInv'
<1>1. /\ UNCHANGED <<pc, call, num, counter, pingFirst, doPing, tries, got, error>>
      /\ UNCHANGED <<lastCounter, answer, accepted, held, offered>>
  BY DEF tool, chip
<1>2. toChip \in Seq(Seq(Units)) /\ fromChip \in Seq(Seq(Units))
  BY DEF UInv, TypeOK
<1>3. toChip' \in Seq(Seq(Units)) /\ fromChip' \in Seq(Seq(Units))
  BY <1>2, TailShape, AppendShape
<1>4. Resting => AtRest'
  <2>1. SUFFICES ASSUME Resting PROVE AtRest'
    OBVIOUS
  <2>2. AtRest
    BY <2>1 DEF UInv, Proto
  <2>3. /\ Len(fromChip) \in Nat /\ Len(fromChip') = Len(fromChip) + 1
        /\ \A i \in 1..(Len(fromChip) + 1) :
             fromChip'[i] = IF i <= Len(fromChip) THEN fromChip[i] ELSE a
    BY <1>2, AppendShape
  <2>4. \A m \in 1..Len(fromChip') : Tagged(fromChip'[m], counter)
    BY <2>1, <2>2, <2>3 DEF AtRest, Settled
  <2>5. \A i \in 1..Len(toChip') : i + 1 \in 1..Len(toChip) /\ toChip'[i] = toChip[i + 1]
    BY <1>2, TailShape
  <2>6. \A i \in 1..Len(toChip') :
          IsRequest(toChip'[i]) => toChip'[i][1].n = counter /\ answer # <<>>
    BY <2>2, <2>5 DEF AtRest, Settled
  <2>. QED  BY <1>1, <2>2, <2>4, <2>6 DEF AtRest, Settled
<1>5. ASSUME Active PROVE Exchange' /\ (pc = "payload" => InPayload')
  <2>1. \A j \in 1..Len(a) : Told(a[j])'
    BY <1>1, <1>5 DEF Told, Sending
  <2>2. /\ InOrder(inbuf, fromChip, counter, call)' /\ ToldAll' /\ Outgoing'
        /\ pc = "payload" => \A m \in 1..Len(fromChip') : AllCurrent(fromChip'[m], counter, call)
    BY <1>1, <1>5, <2>1, ChipWire
  <2>3. Exchange'
    BY <1>1, <1>5, <2>2, HereActive DEF Exchange, Sending, ChipSend, ChipRecv, HasArrived
  <2>. QED  BY <1>1, <2>2, <2>3 DEF UInv, Proto, InPayload, Sending
<1>6. Proto'
  BY <1>1, <1>4, <1>5 DEF UInv, Proto, InScript, Resting, Active
<1>. QED  BY <1>1, <1>3, <1>6 DEF UInv, TypeOK

LEMMA ChipSyncStep ==
  ASSUME UInv, ChipReceive, ~IsRequest(Head(toChip)) PROVE UInv'
<1> DEFINE a == Sync("SYNC_RESP")
<1>1. /\ toChip # <<>> /\ toChip' = Tail(toChip) /\ fromChip' = Append(fromChip, a)
      /\ UNCHANGED <<tool, inbuf, chip, lost, late>>
  BY DEF ChipReceive, IsRequest, ChipSync
<1>2. /\ a \in Seq(Units) /\ Tagged(a, counter) /\ AllCurrent(a, counter, call)
      /\ ~HasAnswer(a, counter, call)
  BY SyncShape
<1> HIDE DEF a
<1>3. \A j \in 1..Len(a) : Told(a[j])
  BY <1>2 DEF HasAnswer, Told
<1>. QED  BY <1>1, <1>2, <1>3, ChipRepeats

LEMMA ChipDupStep ==
  ASSUME UInv, ChipReceive, IsRequest(Head(toChip)),
         Head(toChip)[1].n = lastCounter /\ answer # <<>>
  PROVE  UInv'
<1>1. /\ toChip # <<>> /\ toChip' = Tail(toChip) /\ fromChip' = Append(fromChip, answer)
      /\ UNCHANGED <<tool, inbuf, chip, lost, late>>
  BY DEF ChipReceive, IsRequest, ChipPacket
<1>2. answer \in Seq(Units) /\ Tagged(answer, lastCounter)
  BY DEF UInv, TypeOK, Proto
<1>3. Resting => Tagged(answer, counter)
  BY <1>2 DEF UInv, Proto, AtRest, Settled
<1>4. ASSUME Active
      PROVE  /\ \/ AllCurrent(answer, counter, call)
                \/ lastCounter # counter /\ ~HasAnswer(answer, counter, call)
             /\ \A j \in 1..Len(answer) : Told(answer[j])
  <2>1. call \in Nat /\ counter \in Nat /\ Exchange
    BY <1>4, HereActive
  <2>2. CASE lastCounter # counter
    <3>1. ~HasAnswer(answer, counter, call)
      BY <1>2, <2>2, NoneAnswers
    <3>. QED  BY <2>2, <3>1 DEF HasAnswer, Told
  <2>3. CASE lastCounter = counter /\ Sending
    <3>1. PICK t \in {"ACK", "NAK", "NYET"} : answer = <<Unit(t, counter)>>
      BY <2>1, <2>3 DEF Exchange, ChipSend
    <3>2. AllCurrent(answer, counter, call)
      BY <2>1, <3>1, TokenIs
    <3>3. ASSUME NEW j \in 1..Len(answer) PROVE Told(answer[j])
      <4>1. answer = <<answer[j]>>
        BY <3>1
      <4>2. answer[j].type # "DATA_TOKEN"
        BY <3>1 DEF Unit
      <4>. QED  BY <2>3, <4>1, <4>2 DEF Told
    <3>. QED  BY <3>2, <3>3
  <2>4. CASE lastCounter = counter /\ ~Sending
    <3>1. answer = <<Unit("DATA_TOKEN", counter)>> \o Payload(call)
      BY <2>1, <2>4 DEF Exchange, ChipRecv
    <3>2. AllCurrent(answer, counter, call)
      BY <2>1, <3>1, ReplyIs
    <3>. QED  BY <2>4, <3>2 DEF Told
  <2>. QED  BY <2>2, <2>3, <2>4
<1>. QED  BY <1>1, <1>2, <1>3, <1>4, ChipRepeats

\* A packet carried out: what is left to show is what the chip knows now.
LEMMA ChipActs ==
  ASSUME UInv, toChip # <<>>, toChip' = Tail(toChip), IsRequest(Head(toChip)),
         ~(Head(toChip)[1].n = lastCounter /\ answer # <<>>),
         NEW a \in Seq(Units), fromChip' = Append(fromChip, a),
         UNCHANGED <<tool, inbuf, late>>,
         lastCounter' = counter, AllCurrent(a, counter, call),
         Sending => Len(a) = 1 /\ answer' = a,
         ~Sending => answer' = a \/ (Len(a) = 1 /\ a[1].type # "DATA_TOKEN"),
         a # <<>>,
         answer' \in Seq(Units), Tagged(answer', counter),
         IF Sending THEN ChipSend' /\ offered' < call ELSE ChipRecv',
         InScript', accepted' \in Seq(DOMAIN Script), held' \in 0..Space,
         offered' \in DOMAIN Script \cup {0}, lost' \in 0..MaxLost
  PROVE  UInv'
<1>1. UNCHANGED <<pc, call, num, counter, pingFirst, doPing, tries, got, error>>
  BY DEF tool
<1>2. /\ Active /\ toChip[1] = Packet
      /\ lastCounter # counter \/ (answer = <<>> /\ ~Sending)
  BY ChipNew, TailShape DEF UInv, TypeOK
<1>3. ASSUME NEW j \in 1..Len(a) PROVE Told(a[j])'
  <2>1. Sending => answer' = <<a[j]>>
    <3>1. ASSUME Len(a) = 1 PROVE a = <<a[j]>>
      <4>1. j = 1
        BY <1>3, <3>1
      <4>2. a[1] \in Units
        BY <3>1
      <4>. QED  BY <3>1, <4>1, <4>2, SeqEqual
    <3>. QED  BY <3>1
  <2>2. ~Sending /\ a[j].type = "DATA_TOKEN" => answer' # <<>>
    BY <1>3
  <2>. QED  BY <1>1, <2>1, <2>2 DEF Told, Sending, Answers, AnswerTypes
<1>4. /\ InOrder(inbuf, fromChip, counter, call)' /\ ToldAll' /\ Outgoing'
      /\ toChip' \in Seq(Seq(Units)) /\ fromChip' \in Seq(Seq(Units))
  BY <1>1, <1>2, <1>3, ChipWire
<1>5. pc # "payload"
  BY <1>2 DEF UInv, Proto, InPayload
<1>6. Exchange'
  BY <1>1, <1>4 DEF Exchange, Sending
<1>7. Proto'
  BY <1>1, <1>2, <1>5, <1>6 DEF UInv, Proto, Resting, Active
<1>. QED  BY <1>1, <1>4, <1>7 DEF UInv, TypeOK

LEMMA ChipDataStep ==
  ASSUME UInv, ChipReceive, IsRequest(Head(toChip)),
         ~(Head(toChip)[1].n = lastCounter /\ answer # <<>>),
         Head(toChip)[1].type = "DATA_TOKEN"
  PROVE  UInv'
<1> DEFINE p == Head(toChip)
<1>1. /\ toChip # <<>> /\ toChip' = Tail(toChip) /\ UNCHANGED <<tool, inbuf, late>>
      /\ lastCounter' = p[1].n /\ ChipData(p)
  BY DEF ChipReceive, IsRequest, ChipPacket
<1>2. /\ Active /\ p = Packet /\ p[1].n = counter
      /\ lastCounter # counter \/ (answer = <<>> /\ ~Sending)
  BY <1>1, ChipNew
<1>3. Sending /\ ~doPing /\ p[3].n = call
  BY <1>2, PacketKind
<1>4. /\ InScript /\ call \in 1..Len(Script) /\ call \in Nat /\ counter \in Nat
      /\ offered < call /\ ~HasArrived
  BY <1>2, <1>3, HereActive DEF Exchange, ChipSend
<1>5. UNCHANGED <<pc, call, counter, doPing>>
  BY <1>1 DEF tool
<1>6. /\ accepted \in Seq(DOMAIN Script) /\ held \in 0..Space /\ lost \in 0..MaxLost
      /\ offered \in DOMAIN Script \cup {0} /\ Space \in Nat \ {0} /\ MaxLost \in Nat
  BY DownloadAssumption DEF UInv, TypeOK
<1>7. CASE /\ held < Space /\ accepted' = Append(accepted, call) /\ held' = held + 1
           /\ Answer(<<Unit(IF held + 1 < Space THEN "ACK" ELSE "NYET", counter)>>)
           /\ UNCHANGED <<offered, lost>>
  <2> DEFINE t == IF held + 1 < Space THEN "ACK" ELSE "NYET"
             a == <<Unit(t, counter)>>
  <2>1. t \in {"ACK", "NAK", "NYET"} /\ t # "NAK"
    OBVIOUS
  <2>2. answer' = a /\ fromChip' = Append(fromChip, a)
    BY <1>7 DEF Answer
  <2> HIDE DEF t
  <2>3. a \in Seq(Units) /\ Len(a) = 1 /\ a # <<>> /\ AllCurrent(a, counter, call) /\ Tagged(a, counter)
    BY <1>4, <2>1, TokenIs
  <2>4. /\ accepted' \in Seq(DOMAIN Script) /\ accepted' # <<>>
        /\ accepted'[Len(accepted')] = call
    <3>1. call \in DOMAIN Script
      BY <1>4, ScriptShape
    <3>2. /\ accepted' \in Seq(DOMAIN Script) /\ Len(accepted') = Len(accepted) + 1
          /\ Len(accepted) \in Nat
          /\ \A j \in 1..(Len(accepted) + 1) :
               accepted'[j] = IF j <= Len(accepted) THEN accepted[j] ELSE call
      BY <1>6, <1>7, <3>1, AppendShape
    <3>. QED  BY <3>2
  <2>5. HasArrived'
    BY <1>5, <2>4 DEF HasArrived
  <2>6. ChipSend'
    BY <1>1, <1>2, <1>3, <1>5, <2>1, <2>2, <2>5 DEF ChipSend
  <2>7. InScript'
    BY <1>4, <1>5, <1>7, <2>4 DEF InScript
  <2>8. held' \in 0..Space
    BY <1>6, <1>7
  <2> HIDE DEF a
  <2>. QED  BY <1>1, <1>2, <1>3, <1>4, <1>5, <1>6, <1>7, <2>2, <2>3, <2>4, <2>6, <2>7, <2>8, ChipActs
<1>8. CASE Refuse(counter) /\ lost' \in {lost, lost + 1} /\ (lost' = lost + 1 => lost < MaxLost)
  <2> DEFINE a == <<Unit("NAK", counter)>>
  <2>1. /\ answer' = a /\ fromChip' = Append(fromChip, a)
        /\ UNCHANGED <<accepted, held, offered>>
    BY <1>8 DEF Refuse, Answer
  <2>2. a \in Seq(Units) /\ Len(a) = 1 /\ a # <<>> /\ AllCurrent(a, counter, call) /\ Tagged(a, counter)
    BY <1>4, TokenIs
  <2>3. ~HasArrived'
    BY <1>4, <1>5, <2>1 DEF HasArrived
  <2>4. ChipSend'
    BY <1>1, <1>2, <1>3, <1>5, <2>1, <2>3 DEF ChipSend
  <2>5. InScript'
    BY <1>4, <1>5, <2>1 DEF InScript
  <2>6. lost' \in 0..MaxLost
    BY <1>6, <1>8
  <2> HIDE DEF a
  <2>. QED  BY <1>1, <1>2, <1>3, <1>4, <1>5, <1>6, <2>1, <2>2, <2>4, <2>5, <2>6, ChipActs
<1>. QED  BY <1>1, <1>2, <1>3, <1>6, <1>7, <1>8 DEF ChipData

LEMMA ChipPingStep ==
  ASSUME UInv, ChipReceive, IsRequest(Head(toChip)),
         ~(Head(toChip)[1].n = lastCounter /\ answer # <<>>),
         Head(toChip)[1].type = "PING_TOKEN"
  PROVE  UInv'
<1> DEFINE p == Head(toChip)
<1>1. /\ toChip # <<>> /\ toChip' = Tail(toChip) /\ UNCHANGED <<tool, inbuf, late, lost>>
      /\ lastCounter' = p[1].n /\ ChipPing(p)
  BY DEF ChipReceive, IsRequest, ChipPacket
<1>2. /\ Active /\ p = Packet /\ p[1].n = counter
      /\ lastCounter # counter \/ (answer = <<>> /\ ~Sending)
  BY <1>1, ChipNew
<1>3. Sending /\ doPing
  BY <1>2, PacketKind
<1>4. /\ InScript /\ call \in Nat /\ counter \in Nat /\ offered < call /\ ~HasArrived
  BY <1>2, <1>3, HereActive DEF Exchange, ChipSend
<1>5. UNCHANGED <<pc, call, counter, doPing>>
  BY <1>1 DEF tool
<1>6. PICK t \in {"ACK", "NAK"} :
        Answer(<<Unit(t, counter)>>) /\ UNCHANGED <<accepted, held, offered>>
  BY <1>1, <1>2 DEF ChipPing, Refuse
<1> DEFINE a == <<Unit(t, counter)>>
<1>7. answer' = a /\ fromChip' = Append(fromChip, a)
  BY <1>6 DEF Answer
<1>8. a \in Seq(Units) /\ Len(a) = 1 /\ a # <<>> /\ AllCurrent(a, counter, call) /\ Tagged(a, counter)
  BY <1>4, TokenIs
<1>9. ~HasArrived'
  BY <1>4, <1>5, <1>6 DEF HasArrived
<1>10. ChipSend'
  BY <1>1, <1>2, <1>3, <1>5, <1>7, <1>9 DEF ChipSend
<1>11. InScript'
  BY <1>4, <1>5, <1>6 DEF InScript
<1>12. /\ accepted' \in Seq(DOMAIN Script) /\ held' \in 0..Space /\ lost' \in 0..MaxLost
       /\ offered' \in DOMAIN Script \cup {0}
  BY <1>1, <1>6 DEF UInv, TypeOK
<1> HIDE DEF a
<1>. QED  BY <1>1, <1>2, <1>3, <1>4, <1>5, <1>6, <1>7, <1>8, <1>10, <1>11, <1>12, ChipActs

\* The reply that is due is that of the call.
LEMMA NextIsCall ==
  ASSUME InScript, offered \in Nat, offered < call, call \in 1..Len(Script), ~Sending
  PROVE  NextReply = call
<1> DEFINE Due(r) == Script[r] = "recv" /\ r > offered
           First(r) == /\ Script[r] = "recv" /\ r > offered
                       /\ \A s \in DOMAIN Script : Due(s) => r <= s
<1>1. call \in DOMAIN Script /\ Script[call] = "recv" /\ DOMAIN Script \subseteq Nat /\ call \in Nat
  BY ScriptShape DEF Sending
<1>2. \A s \in DOMAIN Script : Due(s) => call <= s
  <2>1. ASSUME NEW s \in DOMAIN Script, Due(s), ~(call <= s) PROVE FALSE
    <3>1. s \in Nat /\ s < call
      BY <1>1, <2>1
    <3>2. s <= offered
      BY <2>1, <3>1 DEF InScript
    <3>. QED  BY <2>1, <3>1, <3>2
  <2>. QED  BY <2>1
<1>3. First(call)
  BY <1>1, <1>2
<1>4. \A r \in DOMAIN Script : First(r) => r = call
  <2>1. ASSUME NEW r \in DOMAIN Script, First(r) PROVE r = call
    <3>1. r <= call /\ call <= r /\ r \in Nat
      BY <1>1, <1>2, <1>3, <2>1
    <3>. QED  BY <1>1, <3>1
  <2>. QED  BY <2>1
<1>5. NextReply = CHOOSE r \in DOMAIN Script : First(r)
  BY DEF NextReply
<1> HIDE DEF First
<1>. QED  BY <1>1, <1>3, <1>4, <1>5

LEMMA ChipRequestStep ==
  ASSUME UInv, ChipReceive, IsRequest(Head(toChip)),
         ~(Head(toChip)[1].n = lastCounter /\ answer # <<>>),
         Head(toChip)[1].type = "DATA_REQUEST"
  PROVE  UInv'
<1> DEFINE p == Head(toChip)
<1>1. /\ toChip # <<>> /\ toChip' = Tail(toChip) /\ UNCHANGED <<tool, inbuf, late, lost>>
      /\ lastCounter' = p[1].n /\ ChipRequest(p)
  BY DEF ChipReceive, IsRequest, ChipPacket
<1>2. /\ Active /\ p = Packet /\ p[1].n = counter
      /\ lastCounter # counter \/ (answer = <<>> /\ ~Sending)
  BY <1>1, ChipNew
<1>3. ~Sending
  BY <1>2, PacketKind
<1>4. /\ InScript /\ call \in 1..Len(Script) /\ call \in Nat /\ counter \in Nat
      /\ offered \in Nat /\ offered < call
  BY <1>2, <1>3, HereActive DEF Exchange, ChipRecv
<1>5. UNCHANGED <<pc, call, counter, doPing>>
  BY <1>1 DEF tool
<1>6. /\ accepted \in Seq(DOMAIN Script) /\ held \in 0..Space /\ lost' \in 0..MaxLost
      /\ offered \in DOMAIN Script \cup {0} /\ call \in DOMAIN Script
  BY <1>1, <1>4, ScriptShape DEF UInv, TypeOK
<1>7. CASE /\ offered' = NextReply
           /\ Answer(<<Unit("DATA_TOKEN", counter)>> \o Payload(NextReply))
           /\ UNCHANGED <<accepted, held>>
  <2> DEFINE a == <<Unit("DATA_TOKEN", counter)>> \o Payload(call)
  <2>1. offered' = call /\ answer' = a /\ fromChip' = Append(fromChip, a)
    BY <1>3, <1>4, <1>7, NextIsCall DEF Answer
  <2>2. a \in Seq(Units) /\ a # <<>> /\ AllCurrent(a, counter, call) /\ Tagged(a, counter)
    BY <1>4, ReplyIs
  <2>3. ChipRecv'
    BY <1>1, <1>2, <1>5, <2>1, <2>2 DEF ChipRecv
  <2>4. InScript'
    <3>1. \A r \in DOMAIN Script : r < call => r <= call
      BY ScriptShape, <1>4
    <3>. QED  BY <1>4, <1>5, <1>7, <2>1, <3>1 DEF InScript
  <2> HIDE DEF a
  <2>. QED  BY <1>1, <1>2, <1>3, <1>4, <1>5, <1>6, <1>7, <2>1, <2>2, <2>3, <2>4, ChipActs
<1>8. CASE /\ fromChip' = Append(fromChip, <<Unit("NAK", counter)>>) /\ answer' = <<>>
           /\ UNCHANGED <<accepted, held, offered>>
  <2> DEFINE a == <<Unit("NAK", counter)>>
  <2>1. /\ a \in Seq(Units) /\ Len(a) = 1 /\ a # <<>> /\ AllCurrent(a, counter, call)
        /\ a[1].type # "DATA_TOKEN"
    BY <1>4, TokenIs DEF Unit
  <2>2. answer' \in Seq(Units) /\ Tagged(answer', counter)
    BY <1>8 DEF Tagged
  <2>3. ChipRecv'
    BY <1>4, <1>5, <1>8 DEF ChipRecv
  <2>4. InScript'
    BY <1>4, <1>5, <1>8 DEF InScript
  <2> HIDE DEF a
  <2>5. fromChip' = Append(fromChip, a)
    BY <1>8 DEF a
  <2>. QED  BY <1>1, <1>2, <1>3, <1>4, <1>5, <1>6, <1>8, <2>1, <2>2, <2>3, <2>4, <2>5, ChipActs
<1>. QED  BY <1>1, <1>2, <1>7, <1>8 DEF ChipRequest

LEMMA ChipReceiveStep == ASSUME UInv, ChipReceive PROVE UInv'
<1>1. IsRequest(Head(toChip)) => Head(toChip)[1].type \in {"DATA_TOKEN", "PING_TOKEN", "DATA_REQUEST"}
  BY DEF IsRequest, Requests
<1>. QED  BY <1>1, ChipSyncStep, ChipDupStep, ChipDataStep, ChipPingStep, ChipRequestStep

LEMMA ChipProcessStep == ASSUME UInv, ChipProcess PROVE UInv'
<1>1. /\ UNCHANGED <<pc, call, num, counter, pingFirst, doPing, tries, got, error>>
      /\ UNCHANGED <<inbuf, toChip, fromChip>>
      /\ UNCHANGED <<lastCounter, answer, accepted, offered, lost, late>>
  BY DEF ChipProcess, tool, wire
<1>2. held' \in 0..Space
  BY DownloadAssumption DEF ChipProcess, UInv, TypeOK
<1>3. TypeOK'
  BY <1>1, <1>2 DEF UInv, TypeOK
<1>4. Sending' = Sending /\ Packet' = Packet
  BY <1>1 DEF Sending, Packet
<1>5. Exchange => Exchange'
  BY <1>1, <1>4 DEF Exchange, ToldAll, Told, Outgoing, Stale, ChipSend, ChipRecv, HasArrived
<1>6. AtRest => AtRest'
  BY <1>1 DEF AtRest, Settled
<1>. QED  BY <1>1, <1>3, <1>4, <1>5, <1>6 DEF UInv, Proto, InScript, InPayload, Resting, Active

-----------------------------------------------------------------------------
(* The wire, and all steps together.                                       *)

LEMMA DeliverStep == ASSUME UInv, Deliver PROVE UInv'
<1>1. /\ inbuf \in Seq(Units) /\ fromChip \in Seq(Seq(Units)) /\ fromChip # <<>>
      /\ Head(fromChip) = fromChip[1] /\ fromChip[1] \in Seq(Units) /\ 1 \in 1..Len(fromChip)
      /\ fromChip' = Tail(fromChip) /\ fromChip' \in Seq(Seq(Units))
      /\ \A m \in 1..Len(fromChip') : m + 1 \in 1..Len(fromChip) /\ fromChip'[m] = fromChip[m + 1]
  <2>1. fromChip \in Seq(Seq(Units)) /\ fromChip # <<>> /\ fromChip' = Tail(fromChip)
    BY DEF Deliver, UInv, TypeOK
  <2>. QED  BY <2>1, TailShape DEF UInv, TypeOK
<1>2. PICK q : /\ q = fromChip[1] \/ q \in Arrivals(fromChip[1])
               /\ inbuf' = inbuf \o q
               /\ lost' = lost \/ (lost < MaxLost /\ lost' = lost + 1)
  BY <1>1 DEF Deliver
<1>3. /\ UNCHANGED <<pc, call, num, counter, pingFirst, doPing, tries, got, error>>
      /\ UNCHANGED <<toChip, lastCounter, answer, accepted, held, offered, late>>
  BY DEF Deliver, tool, chip
<1>4. q \in Seq(Units) /\ inbuf' \in Seq(Units)
  BY <1>1, <1>2, PieceKeeps, ConcatShape
<1>5. lost' \in 0..MaxLost
  BY <1>2, DownloadAssumption DEF UInv, TypeOK
<1>6. TypeOK'
  BY <1>1, <1>3, <1>4, <1>5 DEF UInv, TypeOK
<1>7. ASSUME Resting PROVE AtRest'
  <2>1. AtRest
    BY <1>7 DEF UInv, Proto
  <2>2. Tagged(inbuf, counter) /\ Tagged(fromChip[1], counter)
    BY <1>1, <2>1 DEF AtRest, Settled
  <2>3. Tagged(inbuf', counter)
    BY <1>1, <1>2, <1>4, <2>2, PieceKeeps, ConcatKeeps
  <2>4. \A m \in 1..Len(fromChip') : Tagged(fromChip'[m], counter)
    BY <1>1, <2>1 DEF AtRest, Settled
  <2>. QED  BY <1>3, <2>1, <2>3, <2>4 DEF AtRest, Settled
<1>8. ASSUME Active PROVE Exchange'
  <2>1. InOrder(inbuf, fromChip, counter, call) /\ ToldAll /\ Outgoing /\ Exchange
    BY <1>8, HereActive
  <2>2. Ordered(fromChip[1], counter, call)
    <3>1. CASE HasAnswer(fromChip[1], counter, call)
      BY <1>1, <2>1, <3>1, CurrentIsTagged DEF InOrder
    <3>2. CASE ~HasAnswer(fromChip[1], counter, call)
      BY <3>2 DEF HasAnswer, Ordered
    <3>. QED  BY <3>1, <3>2
  <2>3. /\ InOrder(inbuf \o q, Tail(fromChip), counter, call)
        /\ Heard(inbuf \o q, Tail(fromChip)) \subseteq Heard(inbuf, fromChip) \cup {Unit("body", 0)}
    BY <1>1, <1>2, <2>1, <2>2, OrderedDeliver
  <2>4. ~Answers(Unit("body", 0), counter, call)
    BY DEF Answers, AnswerTypes, Unit
  <2>5. ToldAll'
    BY <1>1, <1>2, <1>3, <2>1, <2>3, <2>4 DEF ToldAll, Told, Sending
  <2>6. Outgoing'
    BY <1>3, <2>1 DEF Outgoing, Stale, Packet, Sending
  <2>. QED  BY <1>1, <1>2, <1>3, <2>1, <2>3, <2>5, <2>6
            DEF Exchange, Sending, ChipSend, ChipRecv, HasArrived
<1>9. ASSUME pc = "payload" PROVE InPayload'
  <2>1. InPayload
    BY <1>9 DEF UInv, Proto
  <2>2. AllCurrent(inbuf', counter, call)
    BY <1>1, <1>2, <1>4, <2>1, PieceKeeps, ConcatKeeps DEF InPayload
  <2>3. \A m \in 1..Len(fromChip') : AllCurrent(fromChip'[m], counter, call)
    BY <1>1, <2>1 DEF InPayload
  <2>. QED  BY <1>3, <2>1, <2>2, <2>3 DEF InPayload, Sending
<1>10. Proto'
  BY <1>3, <1>7, <1>8, <1>9 DEF UInv, Proto, InScript, Resting, Active
<1>. QED  BY <1>6, <1>10 DEF UInv

LEMMA InitUInv == Init => UInv
<1> SUFFICES ASSUME Init PROVE UInv
  OBVIOUS
<1>1. /\ 1 \in 1..(Len(Script) + 1) /\ 1 # Len(Script) + 1
      /\ \A r \in DOMAIN Script : ~(r < 1)
  <2>1. \A n \in Nat : n >= 4 => 1 \in 1..(n + 1) /\ 1 # n + 1 /\ \A r \in 1..n : ~(r < 1)
    OBVIOUS
  <2>. QED  BY <2>1, ScriptShape
<1>2. TypeOK
  <2>1. /\ 0 \in 0..SyncTries /\ 0 \in 0..(CounterMod - 1) /\ 0 \in 0..(MaxTries + 1)
        /\ 0 \in 0..Space /\ 0 \in 0..MaxLost /\ 0 \in 0..MaxLate
    BY DownloadAssumption
  <2>2. \A S : <<>> \in Seq(S)
    OBVIOUS
  <2>. QED  BY <1>1, <2>1, <2>2 DEF Init, TypeOK
<1>3. AtRest /\ InScript /\ Tagged(answer, lastCounter)
  BY <1>1 DEF Init, AtRest, Settled, Tagged, InScript
<1>. QED  BY <1>1, <1>2, <1>3 DEF Init, UInv, Proto, Resting, Active

LEMMA StutterStep == ASSUME UInv, UNCHANGED vars PROVE UInv'
<1>1. /\ UNCHANGED <<pc, call, num, counter, pingFirst, doPing, tries, got, error>>
      /\ UNCHANGED <<inbuf, toChip, fromChip>>
      /\ UNCHANGED <<lastCounter, answer, accepted, held, offered, lost, late>>
  BY DEF vars, tool, wire, chip
<1>2. TypeOK'
  BY <1>1 DEF UInv, TypeOK
<1>3. Sending' = Sending /\ Packet' = Packet
  BY <1>1 DEF Sending, Packet
<1>4. Exchange => Exchange'
  BY <1>1, <1>3 DEF Exchange, ToldAll, Told, Outgoing, Stale, ChipSend, ChipRecv, HasArrived
<1>5. (AtRest => AtRest') /\ (InPayload => InPayload')
  BY <1>1, <1>3 DEF AtRest, Settled, InPayload
<1>. QED  BY <1>1, <1>2, <1>4, <1>5 DEF UInv, Proto, InScript, Resting, Active

\* Whatever is lost, cut short or late, the tool and the chip never take an
\* answer or a packet for one of another exchange than it belongs to.
THEOREM Invariance == Spec => []UInv
<1>1. UInv /\ [Next]_vars => UInv'
  BY SendSyncStep, HardResetStep, ListenStep, BeginStep, WriteStep, AwaitTimeoutStep,
     ReadTokenStep, ReadPayloadStep, ChipReceiveStep, ChipProcessStep, DeliverStep, StutterStep
  DEF Next, ToolStep
<1>. QED  BY <1>1, InitUInv, PTL DEF Spec

\* The counter stays a byte, the tries within their limit, and the chip
\* within its space.
THEOREM TypeCorrect == Spec => []TypeOK
<1>1. UInv => TypeOK
  BY DEF UInv
<1>. QED  BY <1>1, Invariance, PTL

-----------------------------------------------------------------------------
(* The transfer that the tool is promised.                                 *)

LEMMA CallIs ==
  ASSUME UInv, Active
  PROVE  /\ Transfer!Call = call /\ call \in Nat
         /\ call \in DOMAIN Script
         /\ Transfer!HasArrived <=> HasArrived
         /\ \A op : Transfer!Pending(op) <=> Script[call] = op
<1>1. call \in 1..Len(Script) /\ call \in Nat /\ DOMAIN Script = 1..Len(Script)
  BY HereActive, ScriptShape
<1>2. Transfer!Call = call
  BY <1>1 DEF Transfer!Call
<1>. QED  BY <1>1, <1>2 DEF Transfer!HasArrived, HasArrived, Transfer!Pending

\* A call that returns by a token has sent its block.
LEMMA ReadTokenTransfer ==
  ASSUME UInv, ReadToken PROVE Transfer!Next \/ UNCHANGED <<call, accepted, got>>
<1>1. pc = "await" /\ Active /\ inbuf # <<>> /\ UNCHANGED <<got, accepted>>
  BY DEF ReadToken, Active, chip
<1>2. CASE Head(inbuf).n = counter /\ Sending /\ SendToken(Head(inbuf).type)
  <2>1. CASE ~doPing /\ Head(inbuf).type \in {"ACK", "NYET"}
    <3>1. Return
      BY <1>2, <2>1 DEF SendToken
    <3>2. HasArrived
      BY <1>1, <1>2, <2>1, SendAnswer
    <3>3. call' - 1 = call
      BY <1>1, <3>1, CallIs DEF Return
    <3>4. Transfer!ReturnSend
      BY <1>1, <1>2, <3>2, <3>3, CallIs DEF Transfer!ReturnSend, Sending
    <3>. QED  BY <3>4 DEF Transfer!Next
  <2>2. CASE ~(~doPing /\ Head(inbuf).type \in {"ACK", "NYET"})
    BY <1>1, <1>2, <2>2 DEF SendToken, NewPacket
  <2>. QED  BY <2>1, <2>2
<1>3. CASE UNCHANGED call
  BY <1>1, <1>3
<1>. QED  BY <1>1, <1>2, <1>3 DEF ReadToken, ReceiveToken, Mismatch

\* A reply that is handed over is that of its call.
LEMMA ReadPayloadTransfer ==
  ASSUME UInv, ReadPayload PROVE Transfer!Next \/ UNCHANGED <<call, accepted, got>>
<1>1. pc = "payload" /\ Active /\ UNCHANGED accepted /\ InPayload
  BY DEF ReadPayload, Active, chip, UInv, Proto
<1>2. CASE Len(inbuf) >= 3 /\ PayloadIsGood(SubSeq(inbuf, 1, 3))
  <2>1. got' = Append(got, call) /\ Return
    BY <1>1, <1>2, GoodPayload DEF ReadPayload
  <2>2. call' - 1 = call
    BY <1>1, <2>1, CallIs DEF Return
  <2>3. Script[call] = "recv"
    BY <1>1, HereActive, ScriptShape DEF InPayload, Sending
  <2>4. Transfer!ReturnReceive
    BY <1>1, <2>1, <2>2, <2>3, CallIs DEF Transfer!ReturnReceive
  <2>. QED  BY <2>4 DEF Transfer!Next
<1>3. CASE ~(Len(inbuf) >= 3 /\ PayloadIsGood(SubSeq(inbuf, 1, 3)))
  BY <1>1, <1>3 DEF ReadPayload
<1>. QED  BY <1>2, <1>3

\* A block the chip takes is that of the call, and it comes once.
LEMMA ChipReceiveTransfer ==
  ASSUME UInv, ChipReceive PROVE Transfer!Next \/ UNCHANGED <<call, accepted, got>>
<1> DEFINE p == Head(toChip)
<1>1. toChip # <<>> /\ UNCHANGED <<call, got>>
  BY DEF ChipReceive, tool
<1>2. CASE accepted' = Append(accepted, p[3].n) /\ IsRequest(p)
             /\ ~(p[1].n = lastCounter /\ answer # <<>>) /\ p[1].type = "DATA_TOKEN"
  <2>1. /\ Active /\ p = Packet
        /\ lastCounter # counter \/ (answer = <<>> /\ ~Sending)
    BY <1>1, <1>2, ChipNew
  <2>2. Sending /\ ~doPing /\ p[3].n = call
    BY <1>2, <2>1, PacketKind
  <2>3. ~HasArrived
    BY <2>1, <2>2, HereActive DEF Exchange, ChipSend
  <2>4. Transfer!Arrive
    BY <1>1, <1>2, <2>1, <2>2, <2>3, CallIs DEF Transfer!Arrive, Sending
  <2>. QED  BY <2>4 DEF Transfer!Next
<1>3. CASE accepted' = accepted
  BY <1>1, <1>3
<1>4. CASE ~IsRequest(p)
  BY <1>3, <1>4 DEF ChipReceive, IsRequest, ChipSync, chip
<1>5. CASE IsRequest(p) /\ p[1].n = lastCounter /\ answer # <<>>
  BY <1>3, <1>5 DEF ChipReceive, IsRequest, ChipPacket, chip
<1>6. CASE IsRequest(p) /\ ~(p[1].n = lastCounter /\ answer # <<>>)
  <2>1. CASE p[1].type = "DATA_TOKEN" /\ ChipData(p)
    BY <1>2, <1>3, <1>6, <2>1 DEF ChipData, Refuse
  <2>2. CASE ChipPing(p) \/ ChipRequest(p)
    BY <1>3, <2>2 DEF ChipPing, ChipRequest, Refuse
  <2>. QED  BY <1>6, <2>1, <2>2 DEF ChipReceive, IsRequest, Requests, ChipPacket
<1>. QED  BY <1>4, <1>5, <1>6

\* Each block arrives once and in order, before its call returns, and each
\* reply is that of the command before it, for every image and every loss.
THEOREM TransferImplemented == Spec => ImplementsTransfer
<1>1. Init => Transfer!Init
  BY DEF Init, Transfer!Init
<1>2. UInv /\ [Next]_vars => [Transfer!Next]_(Transfer!vars)
  <2> SUFFICES ASSUME UInv, [Next]_vars PROVE Transfer!Next \/ UNCHANGED <<call, accepted, got>>
    BY DEF Transfer!vars
  <2>1. CASE ToolStep /\ ~ReadToken /\ ~ReadPayload
    BY <2>1 DEF ToolStep, SendSync, HardReset, Listen, ListenTimeout, Begin, Write,
                AwaitTimeout, chip
  <2>2. CASE ChipProcess \/ Deliver \/ UNCHANGED vars
    BY <2>2 DEF ChipProcess, Deliver, vars, tool, chip
  <2>. QED  BY <2>1, <2>2, ReadTokenTransfer, ReadPayloadTransfer, ChipReceiveTransfer DEF Next
<1>. QED  BY <1>1, <1>2, Invariance, PTL DEF Spec, ImplementsTransfer, Transfer!Spec

-----------------------------------------------------------------------------
(* Giving up: one packet at a time.                                        *)

LEMMA EmptyConcat ==
  ASSUME NEW S, NEW s \in Seq(S) PROVE <<>> \o s = s /\ s \o <<>> = s
<1>1. <<>> \in Seq(S) /\ Len(<<>>) = 0 /\ Len(s) \in Nat
  OBVIOUS
<1> DEFINE e == <<>>
<1> HIDE DEF e
<1>2. e \in Seq(S) /\ Len(e) = 0
  BY <1>1 DEF e
<1>3. e \o s = s
  BY <1>1, <1>2, ConcatShape, SeqEqual
<1>4. s \o e = s
  BY <1>1, <1>2, ConcatShape, SeqEqual
<1>. QED  BY <1>3, <1>4 DEF e

LEMMA DropAll ==
  ASSUME NEW S, NEW s \in Seq(S), NEW n \in Nat, Len(s) <= n PROVE Drop(s, n) = <<>>
<1>1. Lesser(n, Len(s)) = Len(s) /\ Len(s) \in Nat
  BY DEF Lesser
<1>2. Drop(s, n) \in Seq(S) /\ Len(Drop(s, n)) = 0
  BY <1>1, DropShape
<1> HIDE DEF Drop
<1>. QED  BY <1>2

\* The echo of the sync token is read in one piece and not taken for an answer.
LEMMA EchoRead ==
  ASSUME NEW h \in SyncHeard
  PROVE  /\ h \in Seq(Units) /\ Len(h) \in 0..2
         /\ Drop(Echo \o h, 2) = h
         /\ SubSeq(Echo \o h, 1, Lesser(2, Len(Echo \o h))) # Sync("SYNC_RESP")
         /\ Echo \o h # <<>>
<1>1. h \in Seq(Units) /\ Len(h) \in 0..2
  <2> DEFINE u == Unit("SYNC_RESP", 1)
  <2>1. u \in Units
    BY DEF Unit, Units
  <2> HIDE DEF u
  <2>2. <<u>> \in Seq(Units) /\ Len(<<u>>) = 1
    BY <2>1
  <2>3. <<>> \in Seq(Units) /\ Len(<<>>) = 0
    OBVIOUS
  <2>4. Sync("SYNC_RESP") \in Seq(Units) /\ Len(Sync("SYNC_RESP")) = 2
    BY SyncShape
  <2>5. h = <<>> \/ h = <<u>> \/ h = Sync("SYNC_RESP")
    BY DEF SyncHeard, u
  <2>6. CASE h = <<>>
    BY <2>3, <2>6
  <2>7. CASE h = <<u>>
    BY <2>2, <2>7
  <2>8. CASE h = Sync("SYNC_RESP")
    BY <2>4, <2>8
  <2>. QED  BY <2>5, <2>6, <2>7, <2>8
<1>2. /\ Echo \in Seq(Units) /\ Len(Echo) = 2
      /\ Echo[1].type = "SYNC_TOKEN" /\ Sync("SYNC_RESP")[1].type = "SYNC_RESP"
  BY DEF Echo, Sync, Unit, Units, Tokens, Requests
<1> DEFINE all == Echo \o h
<1>3. /\ all \in Seq(Units) /\ Len(all) = 2 + Len(h)
      /\ all[1] = Echo[1]
      /\ \A j \in 1..Len(h) : all[j + 2] = h[j]
  <2>1. /\ all \in Seq(Units) /\ Len(all) = Len(Echo) + Len(h)
        /\ \A j \in 1..Len(all) : all[j] = IF j <= Len(Echo) THEN Echo[j] ELSE h[j - Len(Echo)]
    BY <1>1, <1>2, ConcatShape
  <2>. QED  BY <1>1, <1>2, <2>1
<1> HIDE DEF all
<1>4. Lesser(2, Len(all)) = 2
  BY <1>1, <1>3 DEF Lesser
<1>5. Drop(all, 2) = h
  <2>1. /\ Drop(all, 2) \in Seq(Units) /\ Len(Drop(all, 2)) = Len(all) - 2
        /\ \A j \in 1..(Len(all) - 2) : Drop(all, 2)[j] = all[j + 2]
    <3>1. /\ Drop(all, 2) \in Seq(Units) /\ Len(Drop(all, 2)) = Len(all) - Lesser(2, Len(all))
          /\ \A j \in 1..(Len(all) - Lesser(2, Len(all))) :
               Drop(all, 2)[j] = all[j + Lesser(2, Len(all))]
      BY <1>3, DropShape
    <3>. QED  BY <1>4, <3>1
  <2> HIDE DEF Drop
  <2>. QED  BY <1>1, <1>3, <2>1, SeqEqual
<1>6. SubSeq(all, 1, 2)[1].type = "SYNC_TOKEN"
  BY <1>1, <1>2, <1>3
<1>7. SubSeq(all, 1, 2) # Sync("SYNC_RESP")
  BY <1>2, <1>6
<1>8. all # <<>>
  BY <1>1, <1>3
<1>. QED  BY <1>1, <1>4, <1>5, <1>7, <1>8 DEF all

\* The answers to a packet, one by one.
LEMMA RepliesAre ==
  ASSUME NEW p \in Replies, counter \in Nat, call \in Nat
  PROVE  /\ p \in Seq(Units) /\ p # <<>> /\ p[1].n = counter
         /\ \/ /\ Len(p) = 1 /\ p = <<p[1]>>
               /\ p[1].type \in {"ACK", "NAK", "NYET"}
               /\ Sending /\ doPing => p[1].type # "NYET"
               /\ ~Sending => p[1].type = "NAK"
            \/ /\ ~Sending /\ p = <<Unit("DATA_TOKEN", counter)>> \o Payload(call)
               /\ Len(p) = 4 /\ p[1] = Unit("DATA_TOKEN", counter)
<1>1. CASE p = <<Unit("DATA_TOKEN", counter)>> \o Payload(call) /\ ~Sending
  BY <1>1, ReplyIs DEF Unit
<1>2. CASE \E t \in {"ACK", "NAK", "NYET"} :
             /\ p = <<Unit(t, counter)>>
             /\ Sending /\ doPing => t # "NYET"
             /\ ~Sending => t = "NAK"
  <2>1. PICK t \in {"ACK", "NAK", "NYET"} :
             /\ p = <<Unit(t, counter)>>
             /\ Sending /\ doPing => t # "NYET"
             /\ ~Sending => t = "NAK"
    BY <1>2
  <2>2. p \in Seq(Units) /\ p # <<>> /\ Len(p) = 1
    BY <2>1, TokenIs
  <2>3. p[1] = Unit(t, counter)
    BY <2>1
  <2>. QED  BY <2>1, <2>2, <2>3 DEF Unit
<1>. QED  BY <1>1, <1>2 DEF Replies

LEMMA Lates ==
  ASSUME UInv, StopAndWait, Next, late' = 0
  PROVE  late = 0 /\ (TimedOut => toChip = <<>> /\ fromChip = <<>>)
<1>1. late \in Nat /\ MaxLate \in Nat
  BY DownloadAssumption DEF UInv, TypeOK
<1>2. TimedOut \/ UNCHANGED late
  BY DEF Next, ToolStep, SendSync, HardReset, Listen, ListenTimeout, Begin, Write,
         AwaitTimeout, ReadToken, ReadPayload, ChipReceive, ChipProcess, Deliver
<1>3. late = 0
  BY <1>1, <1>2 DEF TimedOut
<1>. QED  BY <1>1, <1>3 DEF TimedOut

LEMMA SyncAlone ==
  ASSUME UInv, StopAndWait, late = 0, late' = 0,
         SendSync \/ HardReset \/ Listen \/ (ListenTimeout /\ toChip = <<>> /\ fromChip = <<>>)
  PROVE  StopAndWait'
<1>1. CASE SendSync
  <2>1. inbuf' = Echo /\ pc' = "listen" /\ toChip = <<>> /\ fromChip = <<>> /\ fromChip' = <<>>
    BY <1>1 DEF SendSync, StopAndWait, Idle, Echo
  <2>2. toChip' = <<>> \/ toChip' = <<Sync("SYNC_TOKEN")>>
    BY <1>1, <2>1 DEF SendSync, Transmit
  <2>3. Echo = Echo \o <<>> /\ <<>> \in SyncHeard
    BY SyncShape, EmptyConcat DEF Echo, SyncHeard
  <2>4. SyncInFlight'
    BY <2>1, <2>2, <2>3 DEF SyncInFlight
  <2>. QED  BY <2>1, <2>4 DEF StopAndWait
<1>2. CASE HardReset
  <2>1. Idle /\ inbuf' = Drop(<<>> \o Sync("SYNC_TOKEN"), 2) /\ UNCHANGED <<toChip, fromChip>>
        /\ pc' = "sync"
    BY <1>2 DEF HardReset, StopAndWait, Idle
  <2> DEFINE e == Sync("SYNC_TOKEN")
  <2>3. e \in Seq(Units) /\ Len(e) = 2 /\ inbuf' = Drop(<<>> \o e, 2)
    BY <2>1, SyncShape
  <2> HIDE DEF e
  <2>4. <<>> \o e = e
    BY <2>3, EmptyConcat
  <2>5. 2 \in Nat /\ Len(e) <= 2
    BY <2>3
  <2>6. Drop(e, 2) = <<>>
    BY <2>3, <2>5, DropAll
  <2>2. inbuf' = <<>>
    BY <2>3, <2>4, <2>6
  <2>. QED  BY <2>1, <2>2 DEF StopAndWait, Idle
<1>3. CASE Listen
  <2>1. /\ pc = "listen" /\ inbuf # <<>> /\ inbuf' = Drop(inbuf, 2)
        /\ UNCHANGED <<toChip, fromChip>> /\ SyncInFlight
        /\ pc' = IF SubSeq(inbuf, 1, Lesser(2, Len(inbuf))) = Sync("SYNC_RESP")
                 THEN "ready" ELSE "listen"
    BY <1>3 DEF Listen, StopAndWait
  <2>2. <<>> \in SyncHeard /\ Echo = Echo \o <<>>
    BY SyncShape, EmptyConcat DEF Echo, SyncHeard
  <2>3. CASE inbuf = Echo
    <3>1. inbuf' = <<>> /\ pc' = "listen"
      BY <2>1, <2>2, <2>3, EchoRead
    <3>2. \/ toChip = <<Sync("SYNC_TOKEN")>> /\ fromChip = <<>>
          \/ toChip = <<>> /\ fromChip = <<Sync("SYNC_RESP")>>
          \/ toChip = <<>> /\ fromChip = <<>>
      BY <2>1 DEF SyncInFlight
    <3>3. SyncInFlight'
      BY <2>1, <2>2, <3>1, <3>2 DEF SyncInFlight
    <3>. QED  BY <3>1, <3>3 DEF StopAndWait
  <2>4. CASE inbuf # Echo
    <3>1. toChip = <<>> /\ fromChip = <<>> /\ \E h \in SyncHeard : inbuf = h \/ inbuf = Echo \o h
      BY <2>1, <2>4 DEF SyncInFlight
    <3>2. PICK h \in SyncHeard : inbuf = h \/ inbuf = Echo \o h
      BY <3>1
    <3>3. CASE inbuf = Echo \o h
      <4>1. inbuf' = h /\ pc' = "listen"
        BY <2>1, <3>2, <3>3, EchoRead
      <4>2. SyncInFlight'
        BY <2>1, <3>1, <4>1 DEF SyncInFlight
      <4>. QED  BY <4>1, <4>2 DEF StopAndWait
    <3>4. CASE inbuf = h
      <4>1. inbuf' = <<>>
        <5>1. h \in Seq(Units) /\ Len(h) <= 2 /\ 2 \in Nat
          <6>1. h \in Seq(Units) /\ Len(h) \in 0..2
            BY <3>2, EchoRead
          <6>2. \A n \in 0..2 : n <= 2
            OBVIOUS
          <6>. QED  BY <6>1, <6>2
        <5>2. Drop(h, 2) = <<>>
          BY <5>1, DropAll
        <5>. QED  BY <2>1, <3>4, <5>2
      <4>2. SyncInFlight' /\ Idle'
        BY <2>1, <2>2, <3>1, <4>1 DEF SyncInFlight, Idle
      <4>. QED  BY <2>1, <4>2 DEF StopAndWait
    <3>. QED  BY <3>2, <3>3, <3>4
  <2>. QED  BY <2>3, <2>4
<1>4. CASE ListenTimeout /\ toChip = <<>> /\ fromChip = <<>>
  BY <1>4 DEF ListenTimeout, wire, StopAndWait, Idle
<1>. QED  BY <1>1, <1>2, <1>3, <1>4

LEMMA PacketAlone ==
  ASSUME UInv, StopAndWait, late = 0, late' = 0,
         Begin \/ Write \/ (AwaitTimeout /\ toChip = <<>> /\ fromChip = <<>>)
  PROVE  StopAndWait'
<1>1. lost \in Nat /\ tries \in 0..(MaxTries + 1) /\ MaxTries \in Nat
  BY DownloadAssumption DEF UInv, TypeOK
<1>2. CASE Begin
  BY <1>1, <1>2 DEF Begin, NewPacket, wire, StopAndWait, Idle
<1>3. CASE Write
  <2>1. /\ pc = "write" /\ pc' = "await" /\ Active /\ Idle /\ lost >= tries
        /\ inbuf' = Drop(<<>> \o Packet, Len(Packet))
        /\ Transmit(Packet) /\ UNCHANGED <<call, counter, doPing, tries, fromChip>>
    BY <1>3 DEF Write, PortWrite, Active, StopAndWait, Idle
  <2>2. Packet \in Seq(Units) /\ Len(Packet) \in Nat
    <3>1. Len(PacketOf(counter, call, doPing)) \in {1, 4}
            /\ PacketOf(counter, call, doPing) \in Seq(Units)
      BY <2>1, HereActive, PacketIs
    <3>. QED  BY <3>1, PacketNow
  <2>3. inbuf' = <<>>
    BY <2>1, <2>2, EmptyConcat, DropAll
  <2>4. Packet' = Packet
    BY <2>1 DEF Packet, Sending
  <2>5. CASE toChip' = Append(toChip, Packet) /\ UNCHANGED lost
    <3>1. toChip' = <<Packet>>
      BY <2>1, <2>5 DEF Idle
    <3>2. OneInFlight'
      BY <2>1, <2>3, <2>4, <2>5, <3>1 DEF OneInFlight, Idle
    <3>. QED  BY <2>1, <3>2 DEF StopAndWait
  <2>6. CASE lost' = lost + 1 /\ UNCHANGED toChip
    <3>1. OneInFlight'
      BY <1>1, <2>1, <2>3, <2>6 DEF OneInFlight, Idle
    <3>. QED  BY <2>1, <3>1 DEF StopAndWait
  <2>. QED  BY <2>1, <2>5, <2>6 DEF Transmit
<1>4. CASE AwaitTimeout /\ toChip = <<>> /\ fromChip = <<>>
  <2>1. pc = "await" /\ inbuf = <<>> /\ Idle /\ UNCHANGED <<wire, lost>> /\ OneInFlight
    BY <1>4 DEF AwaitTimeout, StopAndWait, Idle
  <2>2. inbuf \notin Replies
    BY <2>1, InCall, RepliesAre, HereActive DEF Active
  <2>3. ~Cut
    BY <2>1 DEF Cut
  <2>4. lost > tries
    <3>1. toChip # <<Packet>> /\ \A p : fromChip # <<p>>
      BY <2>1 DEF Idle
    <3>. QED  BY <2>1, <2>2, <2>3, <3>1 DEF OneInFlight
  <2>5. Idle'
    BY <2>1 DEF Idle, wire
  <2>6. CASE tries > MaxTries /\ Fail("timeout")
    BY <1>1, <2>1, <2>4, <2>6 DEF StopAndWait, Fail
  <2>7. CASE Retry
    BY <1>1, <2>1, <2>4, <2>5, <2>7 DEF StopAndWait, Retry
  <2>. QED  BY <1>4, <2>6, <2>7 DEF AwaitTimeout
<1>. QED  BY <1>2, <1>3, <1>4

LEMMA TailOfReply ==
  ASSUME NEW S, NEW t \in S, NEW b \in Seq(S)
  PROVE  /\ Tail(<<t>> \o b) = b /\ Len(<<t>> \o b) = Len(b) + 1
         /\ (<<t>> \o b)[1] = t
<1> DEFINE h == <<t>>
           all == h \o b
<1>1. h \in Seq(S) /\ Len(h) = 1 /\ h[1] = t /\ Len(b) \in Nat
  OBVIOUS
<1> HIDE DEF h
<1>2. /\ all \in Seq(S) /\ Len(all) = Len(b) + 1
      /\ \A j \in 1..(Len(b) + 1) : all[j] = IF j <= 1 THEN h[j] ELSE b[j - 1]
  <2>1. /\ all \in Seq(S) /\ Len(all) = Len(h) + Len(b)
        /\ \A j \in 1..Len(all) : all[j] = IF j <= Len(h) THEN h[j] ELSE b[j - Len(h)]
    BY <1>1, ConcatShape
  <2>. QED  BY <1>1, <2>1
<1> HIDE DEF all
<1>3. all # <<>>
  BY <1>1, <1>2
<1>4. /\ Tail(all) \in Seq(S) /\ Len(Tail(all)) = Len(all) - 1
      /\ \A j \in 1..Len(Tail(all)) : Tail(all)[j] = all[j + 1]
  BY <1>2, <1>3, TailShape
<1>5. \A j \in 1..Len(b) : Tail(all)[j] = b[j]
  BY <1>1, <1>2, <1>4
<1>6. Tail(all) = b
  BY <1>1, <1>2, <1>4, <1>5, SeqEqual
<1>7. all[1] = t
  BY <1>1, <1>2
<1>. QED  BY <1>2, <1>6, <1>7 DEF all, h

LEMMA WholeOfThree ==
  ASSUME NEW S, NEW s \in Seq(S), Len(s) = 3 PROVE SubSeq(s, 1, 3) = s
  OBVIOUS

LEMMA ReadAlone ==
  ASSUME UInv, StopAndWait, late = 0, late' = 0, ReadToken
  PROVE  StopAndWait'
<1> DEFINE u == Head(inbuf)
<1>1. /\ pc = "await" /\ Active /\ inbuf # <<>> /\ inbuf' = Tail(inbuf)
      /\ UNCHANGED <<toChip, fromChip, lost>>
  BY DEF ReadToken, Active
<1>2. /\ inbuf \in Seq(Units) /\ call \in Nat /\ counter \in Nat /\ lost \in Nat
      /\ tries \in Nat
  BY <1>1, HereActive, DownloadAssumption DEF WireTypes, UInv, TypeOK
<1>3. toChip = <<>> /\ fromChip = <<>> /\ (inbuf \in Replies \/ Cut)
  BY <1>1 DEF StopAndWait, OneInFlight, Idle
<1>4. u = inbuf[1] /\ Tail(inbuf) \in Seq(Units) /\ Len(Tail(inbuf)) = Len(inbuf) - 1
  BY <1>1, <1>2, TailShape
<1>5. u.type \in Tokens /\ u.n = counter
      => IF Sending THEN SendToken(u.type) ELSE ReceiveToken(u.type)
  BY DEF ReadToken
<1>6. CASE /\ Len(inbuf) = 1 /\ u.n = counter /\ u.type \in {"ACK", "NAK", "NYET"}
           /\ Sending /\ doPing => u.type # "NYET"
           /\ ~Sending => u.type = "NAK"
  <2>1. inbuf' = <<>>
    BY <1>1, <1>4, <1>6
  <2>2. Idle'
    BY <1>1, <1>3, <2>1 DEF Idle
  <2>3. u.type \in Tokens
    BY <1>6 DEF Tokens
  <2>4. CASE Sending
    <3>1. SendToken(u.type) /\ (doPing => u.type # "NYET")
      BY <1>5, <1>6, <2>3, <2>4
    <3>2. /\ pc' \in {"write", "ready", "done"}
          /\ pc' = "write" => tries' = 0
      BY <1>6, <3>1 DEF SendToken, NewPacket, Return
    <3>. QED  BY <1>1, <1>2, <2>2, <3>2 DEF StopAndWait
  <2>5. CASE ~Sending
    <3>1. ReceiveToken("NAK")
      BY <1>5, <1>6, <2>3, <2>5
    <3>2. pc' = "write" /\ tries' = 0
      BY <3>1 DEF ReceiveToken
    <3>. QED  BY <1>1, <1>2, <2>2, <3>2 DEF StopAndWait
  <2>. QED  BY <2>4, <2>5
<1>7. CASE /\ ~Sending /\ u = Unit("DATA_TOKEN", counter)
           /\ Len(inbuf) <= 4 /\ (Tail(inbuf) = Payload(call) \/ lost > 0)
  <2>1. u.type = "DATA_TOKEN" /\ u.n = counter /\ u.type \in Tokens
    BY <1>7 DEF Unit, Tokens, Requests
  <2>2. ReceiveToken("DATA_TOKEN")
    BY <1>5, <1>7, <2>1
  <2>3. pc' = "payload" /\ call' = call
    BY <2>2 DEF ReceiveToken
  <2>4. Len(inbuf') <= 3
    BY <1>1, <1>2, <1>4, <1>7
  <2>5. Payload(call)' = Payload(call)
    BY <2>3
  <2>. QED  BY <1>1, <1>3, <1>7, <2>3, <2>4, <2>5 DEF StopAndWait
<1>8. CASE Cut
  <2>1. ~Sending /\ lost > 0 /\ Len(inbuf) <= 4 /\ inbuf[1] = Unit("DATA_TOKEN", counter)
    <3>1. Len(inbuf) \in 1..4
      BY <1>8 DEF Cut
    <3>2. Len(inbuf) <= 4
      BY <3>1
    <3>. QED  BY <1>8, <3>2 DEF Cut
  <2>. QED  BY <1>4, <1>7, <2>1
<1>9. CASE inbuf \in Replies
  <2>1. CASE ~Sending /\ inbuf = <<Unit("DATA_TOKEN", counter)>> \o Payload(call)
    <3> DEFINE b == Payload(call)
               t == Unit("DATA_TOKEN", counter)
    <3>1. b \in Seq(Units) /\ Len(b) = 3 /\ t \in Units
      BY <1>2 DEF Payload, Unit, Units, Tokens, Requests
    <3> HIDE DEF b, t
    <3>2. Tail(<<t>> \o b) = b /\ Len(<<t>> \o b) = 4 /\ (<<t>> \o b)[1] = t
      <4>1. Tail(<<t>> \o b) = b /\ Len(<<t>> \o b) = Len(b) + 1 /\ (<<t>> \o b)[1] = t
        BY <3>1, TailOfReply
      <4>. QED  BY <3>1, <4>1
    <3>3. Tail(inbuf) = Payload(call) /\ Len(inbuf) = 4 /\ inbuf[1] = Unit("DATA_TOKEN", counter)
      BY <2>1, <3>2 DEF b, t
    <3>. QED  BY <1>4, <1>7, <2>1, <3>3
  <2>2. CASE ~(~Sending /\ inbuf = <<Unit("DATA_TOKEN", counter)>> \o Payload(call))
    BY <1>2, <1>4, <1>6, <1>9, <2>2, RepliesAre
  <2>. QED  BY <2>1, <2>2
<1>. QED  BY <1>3, <1>8, <1>9

LEMMA PayloadAlone ==
  ASSUME UInv, StopAndWait, late = 0, late' = 0, ReadPayload
  PROVE  StopAndWait'
<1>1. /\ pc = "payload" /\ Active /\ inbuf' = Drop(inbuf, 3) /\ InPayload
      /\ UNCHANGED <<toChip, fromChip, lost>>
      /\ toChip = <<>> /\ fromChip = <<>> /\ Len(inbuf) <= 3
      /\ inbuf = Payload(call) \/ lost > 0
  BY DEF ReadPayload, Active, UInv, Proto, StopAndWait
<1>2. inbuf \in Seq(Units) /\ lost \in Nat /\ tries = 0
  BY <1>1, HereActive, DownloadAssumption DEF WireTypes, UInv, TypeOK, InPayload
<1>3. inbuf' = <<>>
  BY <1>1, <1>2, DropAll
<1>4. Idle'
  BY <1>1, <1>3 DEF Idle
<1>5. CASE Return
  <2>1. pc' \in {"ready", "done"}
    BY <1>5 DEF Return
  <2>. QED  BY <1>4, <2>1 DEF StopAndWait
<1>6. CASE Retry /\ ~(Len(inbuf) >= 3 /\ PayloadIsGood(SubSeq(inbuf, 1, 3)))
  <2>1. ASSUME inbuf = Payload(call) PROVE FALSE
    <3>1. /\ Len(Payload(call)) = 3 /\ SubSeq(Payload(call), 1, 3) = Payload(call)
          /\ Payload(call)[2].n = call
      <4> DEFINE b == Payload(call)
      <4>1. b \in Seq(Units) /\ Len(b) = 3 /\ b[2].n = call
        BY <1>1, HereActive DEF Payload, Unit, Units, Tokens, Requests
      <4> HIDE DEF b
      <4>2. SubSeq(b, 1, 3) = b
        BY <4>1, WholeOfThree
      <4>. QED  BY <4>1, <4>2 DEF b
    <3>2. PayloadIsGood(Payload(call))
      BY <3>1 DEF PayloadIsGood
    <3>3. Len(inbuf) = 3 /\ SubSeq(inbuf, 1, 3) = inbuf /\ PayloadIsGood(inbuf)
      BY <2>1, <3>1, <3>2
    <3>4. Len(inbuf) >= 3 /\ PayloadIsGood(SubSeq(inbuf, 1, 3))
      <4>1. Len(inbuf) >= 3
        BY <3>3
      <4>2. PayloadIsGood(SubSeq(inbuf, 1, 3))
        BY <3>3
      <4>. QED  BY <4>1, <4>2
    <3>. QED  BY <1>6, <3>4
  <2>2. lost > 0
    BY <1>1, <2>1
  <2>3. pc' = "write" /\ tries' = 1
    BY <1>2, <1>6 DEF Retry
  <2>. QED  BY <1>1, <1>2, <1>4, <2>2, <2>3 DEF StopAndWait
<1>. QED  BY <1>5, <1>6 DEF ReadPayload

\* The chip answers the one packet there is.
LEMMA ChipAlone ==
  ASSUME UInv, StopAndWait, late = 0, late' = 0, ChipReceive
  PROVE  StopAndWait'
<1> DEFINE p == Head(toChip)
<1>1. /\ toChip # <<>> /\ toChip' = Tail(toChip) /\ p = toChip[1]
      /\ UNCHANGED <<pc, call, num, counter, pingFirst, doPing, tries, got, error, inbuf>>
      /\ lost' = lost \/ lost' = lost + 1
      /\ lost \in Nat /\ MaxTries \in Nat /\ tries \in Nat
  <2>1. toChip # <<>> /\ toChip' = Tail(toChip) /\ toChip \in Seq(Seq(Units))
        /\ UNCHANGED <<pc, call, num, counter, pingFirst, doPing, tries, got, error, inbuf>>
    BY DEF ChipReceive, tool, UInv, TypeOK
  <2>2. p = toChip[1]
    BY <2>1, TailShape
  <2>3. lost \in Nat /\ MaxTries \in Nat /\ tries \in Nat
    BY DownloadAssumption DEF UInv, TypeOK
  <2>4. CASE ~IsRequest(p)
    BY <2>1, <2>2, <2>3, <2>4 DEF ChipReceive, IsRequest, ChipSync
  <2>5. CASE IsRequest(p) /\ p[1].n = lastCounter /\ answer # <<>>
    BY <2>1, <2>2, <2>3, <2>5 DEF ChipReceive, IsRequest, ChipPacket
  <2>6. CASE IsRequest(p) /\ ~(p[1].n = lastCounter /\ answer # <<>>)
    <3>1. ChipData(p) \/ UNCHANGED lost
      BY <2>6 DEF ChipReceive, IsRequest, Requests, ChipPacket
    <3>2. lost' = lost \/ lost' = lost + 1
      BY <3>1 DEF ChipData
    <3>. QED  BY <2>1, <2>2, <2>3, <3>2
  <2>. QED  BY <2>4, <2>5, <2>6
<1>2. CASE pc = "failed"
  BY <1>1, <1>2 DEF StopAndWait
<1>3. CASE pc = "listen"
  <2>1. /\ toChip = <<Sync("SYNC_TOKEN")>> /\ fromChip = <<>> /\ inbuf \in {<<>>, Echo}
    BY <1>1, <1>3 DEF StopAndWait, SyncInFlight
  <2>2. ~IsRequest(p)
    <3>1. p = Sync("SYNC_TOKEN")
      BY <1>1, <2>1
    <3>. QED  BY <3>1, SyncShape
  <2>3. fromChip' = Append(fromChip, Sync("SYNC_RESP"))
    BY <2>2 DEF ChipReceive, IsRequest, ChipSync
  <2>4. fromChip' = <<Sync("SYNC_RESP")>> /\ toChip' = <<>>
    BY <1>1, <2>1, <2>3
  <2>5. SyncInFlight'
    BY <1>1, <2>1, <2>4 DEF SyncInFlight
  <2>. QED  BY <1>1, <1>3, <2>5 DEF StopAndWait
<1>4. CASE pc = "await"
  <2>1. /\ lost >= tries /\ inbuf = <<>> /\ toChip = <<Packet>> /\ fromChip = <<>>
    BY <1>1, <1>4 DEF StopAndWait, OneInFlight, Idle
  <2>2. Active /\ p = Packet
    BY <1>1, <1>4, <2>1 DEF Active
  <2>3. p[1].n = counter /\ IsRequest(p) /\ counter \in Nat /\ call \in Nat
    BY <2>2, HereActive, PacketIs, PacketNow
  <2>4. \E a \in Replies : fromChip' = Append(fromChip, a)
    <3>1. CASE lastCounter = counter /\ answer # <<>>
      <4>1. fromChip' = Append(fromChip, answer)
        BY <2>3, <3>1 DEF ChipReceive, IsRequest, ChipPacket
      <4>2. answer \in Replies
        BY <2>2, <3>1, HereActive DEF Exchange, ChipSend, ChipRecv, Replies
      <4>. QED  BY <4>1, <4>2
    <3>2. CASE ~(lastCounter = counter /\ answer # <<>>)
      <4>1. CASE p[1].type = "DATA_TOKEN" /\ ChipData(p)
        <5>1. Sending /\ ~doPing
          BY <2>2, <4>1, PacketKind
        <5>2. \E t \in {"ACK", "NAK", "NYET"} : Answer(<<Unit(t, counter)>>)
          BY <2>3, <4>1 DEF ChipData, Refuse
        <5>. QED  BY <5>1, <5>2 DEF Answer, Replies
      <4>2. CASE p[1].type = "PING_TOKEN" /\ ChipPing(p)
        <5>1. Sending
          BY <2>2, <4>2, PacketKind
        <5>2. \E t \in {"ACK", "NAK"} : Answer(<<Unit(t, counter)>>)
          BY <2>3, <4>2 DEF ChipPing, Refuse
        <5>. QED  BY <5>1, <5>2 DEF Answer, Replies
      <4>3. CASE p[1].type = "DATA_REQUEST" /\ ChipRequest(p)
        <5>1. ~Sending
          BY <2>2, <4>3, PacketKind
        <5>2. NextReply = call
          BY <2>2, <3>2, <5>1, HereActive, NextIsCall DEF Exchange, ChipRecv
        <5>3. \/ fromChip' = Append(fromChip, <<Unit("DATA_TOKEN", counter)>> \o Payload(call))
              \/ fromChip' = Append(fromChip, <<Unit("NAK", counter)>>)
          BY <2>3, <4>3, <5>2 DEF ChipRequest, Answer
        <5>. QED  BY <5>1, <5>3 DEF Replies
      <4>. QED  BY <2>3, <3>2, <4>1, <4>2, <4>3
                DEF ChipReceive, IsRequest, Requests, ChipPacket
    <3>. QED  BY <3>1, <3>2
  <2>5. PICK a \in Replies : fromChip' = Append(fromChip, a)
    BY <2>4
  <2>6. fromChip' = <<a>> /\ toChip' = <<>>
    BY <1>1, <2>1, <2>5
  <2>7. Replies' = Replies
    BY <1>1 DEF Replies, Sending
  <2>8. OneInFlight'
    BY <1>1, <2>1, <2>5, <2>6, <2>7 DEF OneInFlight
  <2>. QED  BY <1>1, <1>4, <2>8 DEF StopAndWait
<1>5. CASE pc \notin {"failed", "listen", "await"}
  BY <1>1, <1>5 DEF StopAndWait, Idle, UInv, TypeOK
<1>. QED  BY <1>2, <1>3, <1>4, <1>5

\* The pieces of an answer.
LEMMA Pieces ==
  ASSUME NEW p \in Seq(Units), NEW q \in Arrivals(p)
  PROVE  /\ Len(p) = 1 => q = <<>>
         /\ Len(p) = 4 => q = <<>> \/ (Len(q) \in 1..4 /\ q[1] = p[1])
<1>1. CASE \E n \in 0..(Len(p) - 1) : q = SubSeq(p, 1, n)
  <2>1. PICK n \in 0..(Len(p) - 1) : q = SubSeq(p, 1, n)
    BY <1>1
  <2>2. q \in Seq(Units) /\ Len(q) = n /\ (n > 0 => q[1] = p[1])
    BY <2>1
  <2>. QED  BY <2>1, <2>2
<1>2. CASE Len(p) = 4 /\ q = [p EXCEPT ![3] = Unit("body", 0)]
  <2> DEFINE spoilt == Unit("body", 0)
  <2> HIDE DEF spoilt
  <2>1. q = [p EXCEPT ![3] = spoilt] /\ Len(p) = 4
    BY <1>2 DEF spoilt
  <2>2. Len(q) = 4 /\ q[1] = p[1]
    BY <2>1
  <2>. QED  BY <1>2, <2>2
<1>. QED  BY <1>1, <1>2 DEF Arrivals

LEMMA DeliverAlone ==
  ASSUME UInv, StopAndWait, late = 0, late' = 0, Deliver
  PROVE  StopAndWait'
<1>1. /\ UNCHANGED <<pc, call, num, counter, pingFirst, doPing, tries, got, error, toChip>>
      /\ fromChip # <<>> /\ fromChip' = Tail(fromChip)
      /\ lost \in Nat /\ MaxTries \in Nat /\ tries \in Nat
  BY DownloadAssumption DEF Deliver, tool, UInv, TypeOK
<1>2. PICK q : /\ inbuf' = inbuf \o q
               /\ \/ q = Head(fromChip) /\ lost' = lost
                  \/ q \in Arrivals(Head(fromChip)) /\ lost' = lost + 1
  BY DEF Deliver
<1>3. CASE pc = "failed"
  BY <1>1, <1>2, <1>3 DEF StopAndWait
<1>4. CASE pc = "listen"
  <2>1. inbuf \in {<<>>, Echo} /\ toChip = <<>> /\ fromChip = <<Sync("SYNC_RESP")>>
    BY <1>1, <1>4 DEF StopAndWait, SyncInFlight
  <2>2. Head(fromChip) = Sync("SYNC_RESP") /\ fromChip' = <<>>
    BY <1>1, <2>1
  <2>3. q \in SyncHeard
    <3> DEFINE r == Sync("SYNC_RESP")
               u == Unit("SYNC_RESP", 1)
    <3>1. r \in Seq(Units) /\ Len(r) = 2 /\ r[1] = u /\ u \in Units
      BY DEF Sync, Unit, Units
    <3> HIDE DEF r, u
    <3>2. ASSUME q \in Arrivals(r) PROVE q = <<>> \/ q = <<u>>
      <4>1. PICK n \in 0..1 : q = SubSeq(r, 1, n)
        BY <3>1, <3>2 DEF Arrivals
      <4>2. q \in Seq(Units) /\ Len(q) = n /\ (n = 1 => q[1] = u)
        BY <3>1, <4>1
      <4>3. CASE n = 0
        BY <4>2, <4>3
      <4>4. CASE n = 1
        <5>1. <<u>> \in Seq(Units) /\ Len(<<u>>) = 1 /\ <<u>>[1] = u
          BY <3>1
        <5>2. \A j \in 1..1 : j = 1
          OBVIOUS
        <5>3. q = <<u>>
          BY <4>2, <4>4, <5>1, <5>2, SeqEqual
        <5>. QED  BY <5>3
      <4>. QED  BY <4>1, <4>3, <4>4
    <3>. QED  BY <1>2, <2>2, <3>2 DEF SyncHeard, r, u
  <2>4. inbuf' = q \/ inbuf' = Echo \o q
    BY <1>2, <2>1, <2>3, EchoRead, EmptyConcat
  <2>5. SyncInFlight'
    BY <1>1, <2>1, <2>2, <2>3, <2>4 DEF SyncInFlight
  <2>. QED  BY <1>1, <1>4, <2>5 DEF StopAndWait
<1>5. CASE pc = "await"
  <2>1. /\ lost >= tries /\ inbuf = <<>> /\ toChip = <<>>
        /\ \E p \in Replies : fromChip = <<p>>
    BY <1>1, <1>5 DEF StopAndWait, OneInFlight, Idle
  <2>2. PICK p \in Replies : fromChip = <<p>>
    BY <2>1
  <2>3. Head(fromChip) = p /\ fromChip' = <<>>
    BY <1>1, <2>2
  <2>4. counter \in Nat /\ call \in Nat
    BY <1>5, HereActive DEF Active
  <2>5. p \in Seq(Units) /\ q \in Seq(Units)
    BY <1>2, <2>3, <2>4, RepliesAre, PieceKeeps
  <2>6. inbuf' = q
    BY <1>2, <2>1, <2>5, EmptyConcat
  <2>7. Replies' = Replies /\ Sending' = Sending
    BY <1>1 DEF Replies, Sending
  <2>8. CASE q = p /\ lost' = lost
    <3>1. OneInFlight'
      BY <1>1, <2>1, <2>2, <2>3, <2>6, <2>7, <2>8 DEF OneInFlight
    <3>. QED  BY <1>1, <1>5, <3>1 DEF StopAndWait
  <2>9. CASE q \in Arrivals(p) /\ lost' = lost + 1
    <3>1. q = <<>> \/ (~Sending /\ Len(q) \in 1..4 /\ q[1] = Unit("DATA_TOKEN", counter))
      BY <2>4, <2>5, <2>9, RepliesAre, Pieces
    <3>2. OneInFlight'
      BY <1>1, <2>1, <2>3, <2>6, <2>7, <2>9, <3>1 DEF OneInFlight, Idle, Cut
    <3>. QED  BY <1>1, <1>5, <3>2 DEF StopAndWait
  <2>. QED  BY <1>2, <2>3, <2>8, <2>9
<1>6. CASE pc \notin {"failed", "listen", "await"}
  BY <1>1, <1>6 DEF StopAndWait, Idle, UInv, TypeOK
<1>. QED  BY <1>3, <1>4, <1>5, <1>6

LEMMA OtherAlone ==
  ASSUME UInv, StopAndWait, late = 0, ChipProcess \/ UNCHANGED vars
  PROVE  StopAndWait'
<1>1. UNCHANGED <<pc, call, counter, doPing, tries, error, inbuf, toChip, fromChip, lost, late>>
  BY DEF ChipProcess, vars, tool, wire
<1>2. /\ Packet' = Packet /\ Replies' = Replies /\ Sending' = Sending
      /\ Payload(call)' = Payload(call)
  BY <1>1 DEF Packet, Replies, Sending
<1>. QED  BY <1>1, <1>2 DEF StopAndWait, OneInFlight, SyncInFlight, Idle, Cut

\* An upload that meets no late answer gives up only when packets were lost
\* once more than the retries of one packet make up for.
THEOREM GivesUpForCause == Spec => []FailsForCause
<1>1. Init => StopAndWait
  BY DEF Init, StopAndWait, Idle
<1>2. UInv /\ StopAndWait /\ [Next]_vars => StopAndWait'
  <2> SUFFICES ASSUME UInv, StopAndWait, [Next]_vars, late' = 0 PROVE StopAndWait'
    BY DEF StopAndWait
  <2>1. CASE Next
    <3>1. late = 0 /\ (TimedOut => toChip = <<>> /\ fromChip = <<>>)
      BY <2>1, Lates
    <3>2. (AwaitTimeout \/ ListenTimeout) => TimedOut
      BY DEF AwaitTimeout, ListenTimeout
    <3>. QED  BY <2>1, <3>1, <3>2, SyncAlone, PacketAlone, ReadAlone, PayloadAlone, ChipAlone,
                 DeliverAlone, OtherAlone DEF Next, ToolStep
  <2>2. CASE UNCHANGED vars
    <3>1. late = 0
      BY <2>2 DEF vars
    <3>. QED  BY <2>2, <3>1, OtherAlone
  <2>. QED  BY <2>1, <2>2
<1>3. UInv /\ StopAndWait => FailsForCause
  BY DownloadAssumption DEF StopAndWait, FailsForCause, UInv, TypeOK
<1>. QED  BY <1>1, <1>2, <1>3, Invariance, PTL DEF Spec
=============================================================================
