----------------------------- MODULE ShellProofs -----------------------------
(***************************************************************************)
(* The shell, for every set of typed bytes, number of registers, limit of  *)
(* polls, and size of a word, a row and the address space.                 *)
(*                                                                         *)
(* First what the console swallows and what a register dump prints, from   *)
(* Inv.  Then the raw dump, from RawInv: the byte to come lies in the      *)
(* cached word or is the first of a new one (RowInv), so that each word is *)
(* read once in each of the two loops over its row (ReadsInv).             *)
(***************************************************************************)
EXTENDS Shell, FiniteSetTheorems, SequenceTheorems, TLAPS

(* The commands: which states belong to a running one.                     *)
Running == \/ state \in {"start", "service", "wait", "data", "reset"}
           \/ state = "write" /\ next \in {"service", "reset"}
Waiting == \/ state \in {"read", "exec", "reset"}
           \/ state = "write" /\ next \in {"read", "exec", "reset"}

CmdInv ==
  /\ \/ cmd = "none" /\ Waiting
     \/ cmd \in {"radio", "xxd"} /\ Running
  /\ state \in {"wait", "data"} => cmd = "radio"
  /\ cdcChosen => state = "write"

(* The byte remembered for the echo: it is due, or the route moved.  A CDC *)
(* write does not forget it, but then the route has moved since the poll.  *)
EchoInv ==
  /\ inchar # None => echoDue \/ moved
  /\ configured \/ cdcChosen => inchar = None \/ moved

(* The dump: a line per register so far.                                   *)
Lines == [reg : Nat, from : Register]

LinesInv ==
  /\ lines \in Seq(Lines)
  /\ processIndex \in Nat /\ late \in BOOLEAN /\ dat \in Register
  /\ busy \subseteq Register
  /\ DumpIsOpen => processIndex = Len(lines) /\ processIndex <= Registers
  /\ state \in {"wait", "data"} => processIndex < Registers

(* The bus: until a transfer times out it carries one at a time.           *)
BusInv ==
  ~late => /\ state # "wait" => busy = {}
           /\ state = "wait" => \/ busy = {processIndex} /\ ~done
                                \/ busy = {} /\ done /\ dat = processIndex
           /\ state = "data" => dat = processIndex

Inv == CmdInv /\ EchoInv /\ LinesInv /\ BusInv

LEMMA InvInit == Init => Inv
<1> SUFFICES ASSUME Init PROVE Inv
    OBVIOUS
<1>1. CmdInv BY DEF Init, IoInit, RadioInit, CmdInv, Waiting
<1>2. EchoInv BY DEF Init, IoInit, EchoInv
<1>3. LinesInv
  <2>1. lines = <<>> BY DEF Init, RadioInit
  <2>2. lines \in Seq(Lines) BY <2>1
  <2>3. cmd = "none" /\ state = "write" /\ processIndex = 0 /\ late = FALSE /\ busy = {}
        BY DEF Init, IoInit, RadioInit
  <2>4. dat \in Register BY DEF Init, RadioInit
  <2>5. QED BY <2>2, <2>3, <2>4 DEF LinesInv, DumpIsOpen
<1>4. BusInv BY DEF Init, IoInit, RadioInit, BusInv
<1>5. QED BY <1>1, <1>2, <1>3, <1>4 DEF Inv

-----------------------------------------------------------------------------
(* The steps, one by one, with what each leaves to MicroShell's Read and   *)
(* Write unchanged.                                                        *)
LEMMA Steps ==
  ASSUME [Next]_vars
  PROVE  \/ Read /\ UNCHANGED <<cmd, radioVars, rawVars>>
         \/ WriteUart /\ UNCHANGED <<cmd, radioVars, rawVars>>
         \/ ChooseCdc /\ UNCHANGED <<cmd, radioVars, rawVars>>
         \/ WriteCdc /\ UNCHANGED <<cmd, radioVars, rawVars>>
         \/ ResetPrompt
         \/ RadioExec
         \/ RadioStart
         \/ RadioBegin
         \/ RadioWait
         \/ RadioData
         \/ RadioComplete
         \/ RawExec
         \/ RawStart
         \/ RawOffset
         \/ RawByte
         \/ RawRow
         \/ OtherExec
         \/ Configure /\ UNCHANGED <<cmd, radioVars, rawVars>>
         \/ BusReset /\ UNCHANGED <<cmd, radioVars, rawVars>>
         \/ \E r \in Register : Finish(r)
         \/ UNCHANGED vars
BY DEF Next, Main, Console, Write, Radio, RadioNext, Raw, Hardware, Environment

LEMMA CmdStep == CmdInv /\ [Next]_vars => CmdInv'
<1> SUFFICES ASSUME CmdInv, [Next]_vars PROVE CmdInv'
    OBVIOUS
<1> USE DEF CmdInv, Running, Waiting, Say, shell, ioVars
<1>1. CASE Read /\ UNCHANGED <<cmd, radioVars, rawVars>>
      BY <1>1 DEF Read
<1>2. CASE (WriteUart \/ ChooseCdc \/ WriteCdc) /\ UNCHANGED <<cmd, radioVars, rawVars>>
  <2>1. /\ UNCHANGED <<cmd, next>>
        /\ state' = state \/ state' = next
        /\ state = "write"
        /\ cdcChosen' => state' = "write"
        BY <1>2 DEF WriteUart, ChooseCdc, WriteCdc, Written, Accepted
  <2>2. QED BY <2>1
<1>3. CASE ResetPrompt
      BY <1>3 DEF ResetPrompt
<1>4. CASE RadioExec \/ RawExec \/ OtherExec
      BY <1>4 DEF RadioExec, RawExec, OtherExec
<1>5. CASE RadioStart \/ RadioBegin \/ RadioWait \/ RadioData \/ RadioComplete
      BY <1>5 DEF RadioStart, RadioBegin, RadioWait, RadioData, RadioComplete
<1>6. CASE RawStart \/ RawOffset \/ RawByte \/ RawRow
      BY <1>6 DEF RawStart, RawOffset, RawByte, RawRow, InRow
<1>7. CASE (Configure \/ BusReset) /\ UNCHANGED <<cmd, radioVars, rawVars>>
      BY <1>7 DEF Configure, BusReset
<1>8. CASE \E r \in Register : Finish(r)
      BY <1>8 DEF Finish
<1>9. CASE UNCHANGED vars
      BY <1>9 DEF vars
<1>10. QED BY <1>1, <1>2, <1>3, <1>4, <1>5, <1>6, <1>7, <1>8, <1>9, Steps

LEMMA EchoStep == CmdInv /\ EchoInv /\ [Next]_vars => EchoInv'
<1> SUFFICES ASSUME CmdInv, EchoInv, [Next]_vars PROVE EchoInv'
    OBVIOUS
<1> USE DEF EchoInv, Say, echo, shell, ioVars
<1>1. CASE Read /\ UNCHANGED <<cmd, radioVars, rawVars>>
  <2>1. PICK c \in Typed \cup {None} : Poll(c)
        BY <1>1 DEF Read
  <2>2. state = "read" /\ ~cdcChosen /\ UNCHANGED <<configured, cdcChosen>>
        BY <1>1 DEF Read, CmdInv
  <2>3. CASE PollUart(c)
        BY <2>2, <2>3 DEF PollUart
  <2>4. CASE PollCdc(c)
        BY <2>2, <2>4 DEF PollCdc
  <2>5. QED BY <2>1, <2>3, <2>4 DEF Poll
<1>2. CASE WriteUart
      BY <1>2 DEF WriteUart, Written, AfterWrite
<1>3. CASE ChooseCdc
      BY <1>3 DEF ChooseCdc
<1>4. CASE WriteCdc
      BY <1>4 DEF WriteCdc, Written
<1>5. CASE ResetPrompt \/ RadioExec \/ RawExec \/ OtherExec
      BY <1>5 DEF ResetPrompt, RadioExec, RawExec, OtherExec
<1>6. CASE RadioStart \/ RadioBegin \/ RadioWait \/ RadioData \/ RadioComplete
      BY <1>6 DEF RadioStart, RadioBegin, RadioWait, RadioData, RadioComplete
<1>7. CASE RawStart \/ RawOffset \/ RawByte \/ RawRow
      BY <1>7 DEF RawStart, RawOffset, RawByte, RawRow, InRow
<1>8. CASE Configure \/ BusReset
      BY <1>8 DEF Configure, BusReset
<1>9. CASE \E r \in Register : Finish(r)
      BY <1>9 DEF Finish
<1>10. CASE UNCHANGED vars
      BY <1>10 DEF vars
<1>11. QED BY <1>1, <1>2, <1>3, <1>4, <1>5, <1>6, <1>7, <1>8, <1>9, <1>10, Steps

LEMMA LinesStep == CmdInv /\ LinesInv /\ [Next]_vars => LinesInv'
<1> SUFFICES ASSUME CmdInv, LinesInv, [Next]_vars PROVE LinesInv'
    OBVIOUS
<1> USE DEF LinesInv, DumpIsOpen, Say, shell, ioVars, bus, radioVars
<1>1. CASE (Read \/ WriteUart \/ ChooseCdc \/ WriteCdc) /\ UNCHANGED <<cmd, radioVars, rawVars>>
  <2>1. DumpIsOpen' => DumpIsOpen
    <3>1. CASE Read
          BY <1>1, <3>1 DEF Read, CmdInv, Running
    <3>2. CASE WriteUart \/ ChooseCdc \/ WriteCdc
          BY <1>1, <3>2 DEF WriteUart, ChooseCdc, WriteCdc, Written, Accepted, CmdInv, Running
    <3>3. QED BY <1>1, <3>1, <3>2
  <2>2. state' \notin {"wait", "data"}
    <3>1. CASE Read
          BY <3>1 DEF Read
    <3>2. CASE WriteUart \/ ChooseCdc \/ WriteCdc
          BY <1>1, <3>2 DEF WriteUart, ChooseCdc, WriteCdc, Written, Accepted,
                            CmdInv, Running, Waiting
    <3>3. QED BY <1>1, <3>1, <3>2
  <2>3. QED BY <1>1, <2>1, <2>2
<1>2. CASE ResetPrompt
      BY <1>2 DEF ResetPrompt
<1>3. CASE RadioExec
  <2> <<>> \in Seq(Lines)
      OBVIOUS
  <2>1. lines' \in Seq(Lines)
        BY <1>3 DEF RadioExec
  <2>2. DumpIsOpen' => lines' = <<>> /\ processIndex' = 0
        BY <1>3 DEF RadioExec, FirstIndex, CmdInv, Running
  <2>3. processIndex' \in Nat
        BY <1>3 DEF RadioExec, FirstIndex
  <2>4. state' \notin {"wait", "data"} /\ UNCHANGED <<late, dat, busy>>
        BY <1>3 DEF RadioExec
  <2>5. QED BY <2>1, <2>2, <2>3, <2>4, RadioAssumption
<1>4. CASE RawExec \/ OtherExec
      BY <1>4 DEF RawExec, OtherExec, CmdInv, Running
<1>5. CASE RadioStart \/ RadioBegin \/ RadioWait \/ RadioComplete
  <2>1. CASE RadioStart \/ RadioComplete
        BY <2>1 DEF RadioStart, RadioComplete
  <2>2. CASE RadioBegin
    <3>1. processIndex \in Register
          BY <2>2, RadioAssumption DEF RadioBegin, MoreToDump, Register
    <3>2. QED BY <2>2, <3>1 DEF RadioBegin, MoreToDump
  <2>3. CASE RadioWait
        BY <2>3 DEF RadioWait
  <2>4. QED BY <1>5, <2>1, <2>2, <2>3
<1>6. CASE RadioData
  <2>1. DumpIsOpen /\ processIndex < Registers
        BY <1>6 DEF RadioData
  <2>2. [reg |-> processIndex, from |-> dat] \in Lines
        BY DEF Lines
  <2>3. lines' \in Seq(Lines) /\ Len(lines') = Len(lines) + 1
        BY <1>6, <2>2 DEF RadioData
  <2>4. QED BY <1>6, <2>1, <2>3, RadioAssumption DEF RadioData
<1>7. CASE RawStart \/ RawOffset \/ RawByte \/ RawRow
      BY <1>7 DEF RawStart, RawOffset, RawByte, RawRow, InRow
<1>8. CASE (Configure \/ BusReset) /\ UNCHANGED <<cmd, radioVars, rawVars>>
      BY <1>8 DEF Configure, BusReset
<1>9. CASE \E r \in Register : Finish(r)
      BY <1>9 DEF Finish
<1>10. CASE UNCHANGED vars
      BY <1>10 DEF vars
<1>11. QED BY <1>1, <1>2, <1>3, <1>4, <1>5, <1>6, <1>7, <1>8, <1>9, <1>10, Steps

LEMMA BusStep == CmdInv /\ BusInv /\ [Next]_vars => BusInv'
<1> SUFFICES ASSUME CmdInv, BusInv, [Next]_vars, ~late' PROVE BusInv'
    BY DEF BusInv
<1> USE DEF BusInv, Say, shell, ioVars, bus, radioVars
<1>1. CASE (Read \/ WriteUart \/ ChooseCdc \/ WriteCdc) /\ UNCHANGED <<cmd, radioVars, rawVars>>
  <2>1. state \notin {"wait", "data"} /\ state' \notin {"wait", "data"}
    <3>1. CASE Read
          BY <3>1 DEF Read
    <3>2. CASE WriteUart \/ ChooseCdc \/ WriteCdc
          BY <1>1, <3>2 DEF WriteUart, ChooseCdc, WriteCdc, Written, Accepted,
                            CmdInv, Running, Waiting
    <3>3. QED BY <1>1, <3>1, <3>2
  <2>2. QED BY <1>1, <2>1
<1>2. CASE ResetPrompt \/ RadioExec \/ RawExec \/ OtherExec
      BY <1>2 DEF ResetPrompt, RadioExec, RawExec, OtherExec
<1>3. CASE RadioStart \/ RadioData \/ RadioComplete
      BY <1>3 DEF RadioStart, RadioData, RadioComplete
<1>4. CASE RadioBegin
      BY <1>4 DEF RadioBegin
<1>5. CASE RadioWait
      BY <1>5 DEF RadioWait
<1>6. CASE RawStart \/ RawOffset \/ RawByte \/ RawRow
      BY <1>6 DEF RawStart, RawOffset, RawByte, RawRow, InRow, CmdInv
<1>7. CASE (Configure \/ BusReset) /\ UNCHANGED <<cmd, radioVars, rawVars>>
      BY <1>7 DEF Configure, BusReset
<1>8. CASE \E r \in Register : Finish(r)
      BY <1>8 DEF Finish
<1>9. CASE UNCHANGED vars
      BY <1>9 DEF vars
<1>10. QED BY <1>1, <1>2, <1>3, <1>4, <1>5, <1>6, <1>7, <1>8, <1>9, Steps

LEMMA InvHolds == Spec => []Inv
<1>1. Inv /\ [Next]_vars => Inv'
      BY CmdStep, EchoStep, LinesStep, BusStep DEF Inv
<1>2. QED BY <1>1, InvInit, PTL DEF Spec

-----------------------------------------------------------------------------
(* The console swallows nothing but echoes, 0xFF, and what a moved route   *)
(* left behind.                                                            *)
THEOREM OnlyEchoes == Spec => OnlyEchoIsSuppressed
<1>1. Inv => (WriteUart /\ IsEcho(Head(text)) => echoDue \/ moved \/ Head(text) = "ff")
      BY DEF Inv, EchoInv, IsEcho
<1>2. QED BY <1>1, InvHolds, PTL DEF OnlyEchoIsSuppressed

(* A register dump is the one RegisterDump describes.                      *)
THEOREM DumpIsImplemented == Spec => ImplementsDump
<1>1. Init => Dump!Init
      BY DEF Init, IoInit, RadioInit, Dump!Init, DumpIsOpen
<1>2. Inv /\ [Next]_vars => [Dump!Next]_Dump!vars
  <2> SUFFICES ASSUME Inv, [Next]_vars
               PROVE  Dump!Next \/ UNCHANGED Dump!vars
      OBVIOUS
  <2> USE DEF Dump!vars, DumpIsOpen, Say, shell, ioVars, bus, radioVars, Inv, LinesInv
  <2>1. CASE (Read \/ WriteUart \/ ChooseCdc \/ WriteCdc) /\ UNCHANGED <<cmd, radioVars, rawVars>>
    <3>1. DumpIsOpen' = DumpIsOpen
      <4>1. CASE Read
            BY <2>1, <4>1 DEF Read, CmdInv, Running
      <4>2. CASE WriteUart \/ ChooseCdc \/ WriteCdc
            BY <2>1, <4>2 DEF WriteUart, ChooseCdc, WriteCdc, Written, Accepted, CmdInv, Running
      <4>3. QED BY <2>1, <4>1, <4>2
    <3>2. QED BY <2>1, <3>1
  <2>2. CASE ResetPrompt
        BY <2>2 DEF ResetPrompt
  <2>3. CASE RadioExec
    <3>1. ~DumpIsOpen
          BY <2>3 DEF RadioExec, CmdInv, Running
    <3>2. CASE UNCHANGED <<cmd, processIndex, lines>> /\ Say(Line, "reset")
          BY <2>3, <3>1, <3>2 DEF RadioExec
    <3>3. CASE cmd' = "radio" /\ state' = "start" /\ lines' = <<>>
          BY <2>3, <3>1, <3>3 DEF RadioExec, Dump!Next, Dump!Begin
    <3>4. QED BY <2>3, <3>2, <3>3 DEF RadioExec
  <2>4. CASE RawExec \/ OtherExec
        BY <2>4 DEF RawExec, OtherExec, CmdInv, Running
  <2>5. CASE RadioStart \/ RadioBegin
        BY <2>5 DEF RadioStart, RadioBegin
  <2>6. CASE RadioWait
    <3>1. DumpIsOpen /\ Len(lines) < Registers
          BY <2>6 DEF RadioWait
    <3>2. CASE state' = "data" \/ UNCHANGED shell
          BY <2>6, <3>2 DEF RadioWait
    <3>3. CASE Say(Line, "reset") /\ late' = TRUE
          BY <3>1, <3>3 DEF Dump!Next, Dump!TimeOut
    <3>4. QED BY <2>6, <3>2, <3>3 DEF RadioWait
  <2>7. CASE RadioData
    <3>1. DumpIsOpen /\ DumpIsOpen' /\ processIndex = Len(lines) /\ Len(lines) < Registers
          BY <2>7 DEF RadioData
    <3>2. dat # Len(lines) => late
          BY <2>7, <3>1 DEF RadioData, BusInv
    <3>3. lines' = Append(lines, [reg |-> Len(lines), from |-> dat])
          BY <2>7, <3>1 DEF RadioData
    <3>4. UNCHANGED late
          BY <2>7 DEF RadioData
    <3>5. dat \in 0..(Registers - 1)
          BY DEF Register
    <3>6. Dump!Line
          BY <3>1, <3>2, <3>3, <3>4, <3>5 DEF Dump!Line
    <3>7. QED BY <3>6 DEF Dump!Next
  <2>8. CASE RadioComplete
    <3>1. DumpIsOpen /\ ~DumpIsOpen' /\ UNCHANGED late
          BY <2>8 DEF RadioComplete
    <3>2. Len(lines) = Registers
          BY <2>8, <3>1, RadioAssumption DEF RadioComplete, MoreToDump
    <3>3. QED BY <3>1, <3>2 DEF Dump!Next, Dump!Complete
  <2>9. CASE RawStart \/ RawOffset \/ RawByte \/ RawRow
        BY <2>9 DEF RawStart, RawOffset, RawByte, RawRow, InRow
  <2>10. CASE (Configure \/ BusReset) /\ UNCHANGED <<cmd, radioVars, rawVars>>
        BY <2>10 DEF Configure, BusReset
  <2>11. CASE \E r \in Register : Finish(r)
        BY <2>11 DEF Finish
  <2>12. CASE UNCHANGED vars
        BY <2>12 DEF vars
  <2>13. QED BY <2>1, <2>2, <2>3, <2>4, <2>5, <2>6, <2>7, <2>8, <2>9, <2>10, <2>11, <2>12, Steps
<1>3. QED BY <1>1, <1>2, InvHolds, PTL DEF Spec, ImplementsDump, Dump!Spec

-----------------------------------------------------------------------------
(* A raw dump: the bounds of the row, the cached word, and the reads.      *)

Index(i) == (item + i - 1) \div WordBytes

RowBounds ==
  cmd = "xxd" =>
    /\ address + size <= Space /\ size % Unit(raw32) = 0
    /\ item % WordBytes = 0
    /\ stage = "offset" => row = <<>>
    /\ stage # "offset" => item < size /\ Len(row) <= RowLength

\* The cached word is of a read in the history, unless it is about to be
\* replaced; and the last byte of the row is a byte of it.
FromRead(v, index) ==
  /\ v.address = address + index * WordBytes
  /\ v.read \in 1..Len(reads) /\ reads[v.read] = v.address

WordInv ==
  cmd = "xxd" /\ raw32 =>
    \/ row = <<>> /\ word.index # item \div WordBytes
    \/ FromRead(word.value, word.index)

RowInv ==
  cmd = "xxd" /\ raw32 =>
    \A i \in 1..Len(row) : /\ FromRead(row[i], Index(i))
                           /\ Index(i) = word.index => row[i] = word.value
                           /\ i = Len(row) => Index(i) = word.index

\* How far the two loops over the rows have come, and how often they have
\* asked for unit u.
HexEnd == item + IF stage = "hex" THEN Len(row)
                 ELSE IF stage = "chars" THEN RowLength ELSE 0
CharEnd == item + IF stage = "chars" THEN Len(row) ELSE 0

Passes(u) == (IF u * Unit(raw32) < HexEnd THEN 1 ELSE 0)
             + (IF u * Unit(raw32) < CharEnd THEN 1 ELSE 0)

Times(u) == {m \in 1..Len(reads) : reads[m] = address + u * Unit(raw32)}

ReadsInv ==
  cmd = "xxd" =>
    /\ \A k \in 1..Len(reads) : \E u \in Nat : /\ reads[k] = address + u * Unit(raw32)
                                               /\ u * Unit(raw32) + Unit(raw32) <= size
    /\ DumpHasEnd =>
         \A u \in Nat : Cardinality(Times(u)) <= Passes(u)
    /\ raw32 /\ size = WordBytes => reads = <<>> \/ (Len(reads) = 1 /\ word.index = 0)

RawInv == RowBounds /\ WordInv /\ RowInv /\ RawWordIsWhole /\ ReadsInv

-----------------------------------------------------------------------------
(* Offsets and the words they lie in.                                      *)
LEMMA WordOf ==
  ASSUME NEW w \in Nat \ {0}, NEW o \in Nat
  PROVE  /\ o \div w \in Nat
         /\ (o \div w) * w <= o
         /\ o % w = 0 => (o \div w) * w = o
  OBVIOUS

LEMMA WordsInOrder ==
  ASSUME NEW w \in Nat \ {0}, NEW o \in Nat, NEW p \in Nat, o <= p
  PROVE  o \div w <= p \div w
  OBVIOUS

LEMMA NewWord ==
  ASSUME NEW w \in Nat \ {0}, NEW o \in Nat, o % w # 0
  PROVE  (o - 1) \div w = o \div w
  OBVIOUS

LEMMA Multiple ==
  ASSUME NEW w \in Nat \ {0}, NEW n \in Nat
  PROVE  (n * w) % w = 0
  OBVIOUS

LEMMA LessFactor ==
  ASSUME NEW w \in Nat \ {0}, NEW a \in Int, NEW b \in Int, a * w < b * w
  PROVE  a < b
  OBVIOUS

LEMMA WholeWord ==
  ASSUME NEW w \in Nat \ {0}, NEW o \in Nat, NEW n \in Nat,
         o % w = 0, n % w = 0, o < n
  PROVE  o + w <= n
<1> DEFINE a == o \div w
           b == n \div w
<1>1. a \in Nat /\ b \in Nat /\ a * w = o /\ b * w = n
      BY WordOf
<1> HIDE DEF a, b
<1>2. a < b
      BY <1>1, LessFactor
<1>3. \E c \in Nat : b = a + 1 + c
      BY <1>1, <1>2
<1>4. PICK c \in Nat : b = a + 1 + c
      BY <1>3
<1>5. n = a * w + w + c * w /\ c * w \in Nat
      BY <1>1, <1>4
<1>6. QED BY <1>1, <1>5

LEMMA SumOfWords ==
  ASSUME NEW w \in Nat \ {0}, NEW o \in Nat, NEW p \in Nat,
         o % w = 0, p % w = 0
  PROVE  (o + p) % w = 0
<1> DEFINE a == o \div w
           b == p \div w
<1>1. a \in Nat /\ b \in Nat /\ a * w = o /\ b * w = p
      BY WordOf
<1> HIDE DEF a, b
<1>2. o + p = (a + b) * w /\ a + b \in Nat
      BY <1>1
<1>3. QED BY <1>2, Multiple

LEMMA ModOfWords ==
  ASSUME NEW w \in Nat \ {0}, NEW o \in Nat, NEW p \in Nat \ {0},
         o % w = 0, p % w = 0
  PROVE  (o % p) % w = 0
<1> DEFINE a == o \div w
           b == p \div w
           q == o \div p
<1>1. a \in Nat /\ b \in Nat /\ a * w = o /\ b * w = p
      BY WordOf
<1>2. q \in Nat /\ o % p = o - q * p /\ o % p \in Nat
      OBVIOUS
<1> HIDE DEF a, b, q
<1>3. q * p = (q * b) * w /\ q * b \in Nat
      BY <1>1, <1>2
<1>4. o % p = (a - q * b) * w /\ a - q * b \in Int
      BY <1>1, <1>2, <1>3
<1>5. a - q * b \in Nat
  <2>1. CASE a - q * b < 0
    <3>1. (a - q * b) * w < 0
          BY <1>4, <2>1
    <3>2. QED BY <1>2, <1>4, <3>1
  <2>2. QED BY <1>4, <2>1
<1>6. QED BY <1>4, <1>5, Multiple
-----------------------------------------------------------------------------
(* The raw dump, step by step.                                             *)
LEMMA UnitFacts ==
  ASSUME TypeOK
  PROVE  Unit(raw32) \in Nat \ {0} /\ Space % Unit(raw32) = 0
BY RawAssumption DEF TypeOK, Unit

LEMMA TimesIsFinite ==
  ASSUME NEW r, NEW a, Len(r) \in Nat
  PROVE  /\ IsFiniteSet({m \in 1..Len(r) : r[m] = a})
         /\ Cardinality({m \in 1..Len(r) : r[m] = a}) \in Nat
<1>1. IsFiniteSet(1..Len(r))
      BY FS_Interval
<1>2. IsFiniteSet({m \in 1..Len(r) : r[m] = a})
      BY <1>1, FS_Subset
<1>3. QED BY <1>2, FS_CardinalityType

\* An address is read once more, or no more often, when a read is made.
LEMMA OneMoreRead ==
  ASSUME NEW r \in Seq(Nat), NEW a \in Nat, NEW b \in Nat
  PROVE  LET before == Cardinality({m \in 1..Len(r) : r[m] = b})
             after == Cardinality({m \in 1..Len(Append(r, a)) : Append(r, a)[m] = b})
         IN  before \in Nat /\ after = IF a = b THEN before + 1 ELSE before
<1> DEFINE S == {m \in 1..Len(r) : r[m] = b}
           T == {m \in 1..Len(Append(r, a)) : Append(r, a)[m] = b}
<1>0. Len(r) \in Nat
      OBVIOUS
<1>1. IsFiniteSet(S) /\ Cardinality(S) \in Nat
      BY <1>0, TimesIsFinite
<1>2. Len(r) + 1 \notin S
      OBVIOUS
<1>3. T = IF a = b THEN S \cup {Len(r) + 1} ELSE S
      OBVIOUS
<1> HIDE DEF S, T
<1>4. Cardinality(S \cup {Len(r) + 1}) = Cardinality(S) + 1
      BY <1>1, <1>2, FS_AddElement
<1>5. Cardinality(T) = IF a = b THEN Cardinality(S) + 1 ELSE Cardinality(S)
      BY <1>3, <1>4
<1>6. QED BY <1>1, <1>5 DEF S, T

\* Of two offsets at which words begin, the lower one's word comes first.
LEMMA RowWords ==
  ASSUME NEW m \in Nat, NEW n \in Nat, m < n,
         m % WordBytes = 0, n % WordBytes = 0
  PROVE  m \div WordBytes < n \div WordBytes
<1>1. /\ m \div WordBytes \in Nat /\ n \div WordBytes \in Nat
      /\ (m \div WordBytes) * WordBytes = m /\ (n \div WordBytes) * WordBytes = n
      BY RawAssumption, WordOf
<1>2. QED BY <1>1, RawAssumption, LessFactor

LEMMA RawIdle ==
  ASSUME RawInv, cmd' = "xxd" => cmd = "xxd" /\ UNCHANGED rawVars
  PROVE  RawInv'
<1>1. CASE cmd' # "xxd"
      BY <1>1 DEF RawInv, RowBounds, WordInv, RowInv, RawWordIsWhole, ReadsInv
<1>2. CASE cmd = "xxd" /\ cmd' = "xxd" /\ UNCHANGED rawVars
  <2> USE DEF RawInv, rawVars
  <2>1. RowBounds'
        BY <1>2 DEF RowBounds, RowLength
  <2>2. WordInv'
        BY <1>2 DEF WordInv, FromRead
  <2>3. RowInv'
        BY <1>2 DEF RowInv, FromRead, Index
  <2>4. RawWordIsWhole'
        BY <1>2 DEF RawWordIsWhole
  <2>5. ReadsInv'
        BY <1>2 DEF ReadsInv, DumpHasEnd, Times, Passes, HexEnd, CharEnd, RowLength
  <2>6. QED BY <2>1, <2>2, <2>3, <2>4, <2>5
<1>3. QED BY <1>1, <1>2

LEMMA RawBegins ==
  ASSUME TypeOK, RawInv, RawExec
  PROVE  RawInv'
<1>1. PICK wide \in BOOLEAN, a \in Addresses, n \in Counts :
        \/ ~Fits(wide, a, n) /\ UNCHANGED <<cmd, rawVars>>
        \/ /\ Fits(wide, a, n)
           /\ cmd' = "xxd"
           /\ raw32' = wide /\ address' = a /\ size' = n * Unit(wide)
           /\ word' = WordAtStart
           /\ item' = 0 /\ stage' = "offset" /\ row' = <<>> /\ reads' = <<>>
      BY DEF RawExec
<1>2. CASE UNCHANGED <<cmd, rawVars>>
      BY <1>2, RawIdle
<1>3. CASE /\ Fits(wide, a, n)
           /\ cmd' = "xxd"
           /\ raw32' = wide /\ address' = a /\ size' = n * Unit(wide)
           /\ word' = WordAtStart
           /\ item' = 0 /\ stage' = "offset" /\ row' = <<>> /\ reads' = <<>>
  <2>1. a \in Nat /\ n \in Nat /\ Unit(wide) \in Nat \ {0} /\ n * Unit(wide) \in Nat
        BY RawAssumption DEF Unit
  <2>2. RowBounds'
    <3>1. address' + size' <= Space
          BY <1>3 DEF Fits, End
    <3>2. (n * Unit(wide)) % Unit(wide) = 0
          BY <2>1, Multiple
    <3>3. 0 % WordBytes = 0
          BY RawAssumption
    <3>4. Unit(raw32)' = Unit(wide)
          BY <1>3 DEF Unit
    <3>5. QED BY <1>3, <3>1, <3>2, <3>3, <3>4 DEF RowBounds
  <2>3. Len(row') = 0 /\ Len(reads') = 0
        BY <1>3
  <2>4. WordInv'
    <3>1. 0 \div WordBytes = 0 /\ Space # 0
          BY RawAssumption
    <3>2. QED BY <1>3, <3>1 DEF WordInv, WordAtStart, NoWord
  <2>5. RowInv' /\ RawWordIsWhole'
        BY <2>3 DEF RowInv, RawWordIsWhole
  <2>6. ReadsInv'
    <3>1. ASSUME NEW u \in Nat PROVE Cardinality(Times(u))' <= Passes(u)'
      <4>1. Times(u)' = {}
            BY <2>3 DEF Times
      <4>2. Cardinality(Times(u))' = 0
            BY <4>1, FS_EmptySet
      <4>3. Passes(u)' \in {0, 1, 2}
            BY DEF Passes
      <4>4. QED BY <4>2, <4>3
    <3>2. QED BY <1>3, <2>3, <3>1 DEF ReadsInv
  <2>7. QED BY <2>2, <2>4, <2>5, <2>6 DEF RawInv
<1>4. QED BY <1>1, <1>2, <1>3

\* The texts of a row: what was read stays, and the loops go on from where
\* they are, unless the index wraps.
LEMMA RawGoesOn ==
  ASSUME TypeOK, RawInv, RawOffset \/ RawRow
  PROVE  RawInv'
<1> USE DEF RawInv
<1>1. /\ cmd = "xxd" /\ UNCHANGED <<cmd, raw32, address, size, word>>
      /\ row' = <<>>
      BY DEF RawOffset, RawRow, InRow, RowBounds
<1>2. \/ UNCHANGED <<item, stage>>
      \/ stage = "offset" /\ stage' = "hex" /\ item < size /\ UNCHANGED item
      \/ /\ stage = "hex" /\ stage' = "chars" /\ UNCHANGED item
         /\ Len(row) = RowLength
      \/ /\ stage = "chars" /\ stage' = "offset" /\ item' = (item + Columns) % Space
         /\ Len(row) = RowLength
      BY DEF RawOffset, RawRow, InRow
<1>0. UNCHANGED reads \/ (reads' = <<>> /\ stage = "chars" /\ item + Columns >= Space
                            /\ item' = (item + Columns) % Space /\ Len(row) = RowLength)
  <2>1. item \in Int /\ Columns \in Int /\ Space \in Int
        BY RawAssumption DEF TypeOK
  <2>2. QED BY <2>1 DEF RawOffset, RawRow, InRow
<1>3. UNCHANGED <<item, stage>> => row = <<>> /\ stage = "offset"
      BY DEF RawOffset, RawRow, InRow, RowBounds
<1>4. item \in Nat /\ size \in Nat /\ Columns \in Nat \ {0} /\ Space \in Nat \ {0}
      BY RawAssumption DEF TypeOK
<1>5. item < size => RowLength \in 1..Columns
      BY <1>4 DEF RowLength
<1>6. stage # "offset" => item < size
      BY <1>1 DEF RowBounds
<1>7. RowBounds'
  <2>1. item' % WordBytes = 0
    <3>1. item % WordBytes = 0
          BY <1>1 DEF RowBounds
    <3>2. (item + Columns) % WordBytes = 0 /\ item + Columns \in Nat
      <4>1. WordBytes \in Nat \ {0} /\ Columns % WordBytes = 0
            BY RawAssumption
      <4>2. (item + Columns) % WordBytes = 0
            BY <1>4, <3>1, <4>1, SumOfWords
      <4>3. QED BY <1>4, <4>2
    <3>3. ((item + Columns) % Space) % WordBytes = 0
          BY <3>2, RawAssumption, ModOfWords
    <3>4. QED BY <1>2, <3>1, <3>3
  <2>2. Unit(raw32)' = Unit(raw32)
        BY <1>1 DEF Unit
  <2>3. stage' # "offset" => item' < size' /\ item' = item /\ size' = size
        BY <1>1, <1>2, <1>3, <1>6
  <2>4. stage' # "offset" => Len(row') <= RowLength'
    <3>1. Len(row') = 0
          BY <1>1
    <3>2. stage' # "offset" => RowLength' \in 1..Columns
          BY <1>4, <2>3 DEF RowLength
    <3>3. QED BY <1>4, <3>1, <3>2
  <2>5. QED BY <1>1, <2>1, <2>2, <2>3, <2>4 DEF RowBounds
<1>8. Len(row') = 0
      BY <1>1
\* The word cached when the index wraps is one of the last row.
<1>9. WordInv'
  <2> SUFFICES ASSUME raw32 PROVE WordInv'
      BY <1>1 DEF WordInv
  <2>1. CASE UNCHANGED reads /\ FromRead(word.value, word.index)
        BY <1>1, <2>1 DEF WordInv, FromRead
  <2>2. CASE UNCHANGED <<item, reads>> /\ ~FromRead(word.value, word.index)
        BY <1>1, <2>2 DEF WordInv
  <2>3. CASE ~UNCHANGED <<item, reads>>
    <3>1. /\ stage = "chars" /\ item' = (item + Columns) % Space
          /\ Len(row) = RowLength /\ RowLength \in 1..Columns
          BY <1>0, <1>2, <1>5, <1>6, <2>3
    <3>2. Len(row) \in 1..Len(row) /\ FromRead(word.value, word.index)
      <4>1. Len(row) \in 1..Len(row) /\ row # <<>>
            BY <1>4, <3>1
      <4>2. QED BY <1>1, <4>1 DEF WordInv
    <3>3. Index(Len(row)) = word.index
          BY <1>1, <3>2 DEF RowInv
    <3>4. CASE UNCHANGED reads
          BY <2>1, <3>2, <3>4
    <3>5. CASE item + Columns >= Space
      <4>1. item' < item /\ item' \in Nat /\ item' <= item + Len(row) - 1
        <5>1. item < Space /\ Columns < Space
              BY RawAssumption DEF TypeOK
        <5>2. (item + Columns) % Space = item + Columns - Space
              BY <1>4, <3>5, <5>1
        <5>3. QED BY <1>4, <3>1, <5>1, <5>2
      <4>2. item' \div WordBytes < item \div WordBytes
            BY <1>1, <1>4, <1>7, <4>1, RowWords DEF RowBounds
      <4>3. item \div WordBytes <= word.index
        <5>1. item + Len(row) - 1 \in Nat /\ item <= item + Len(row) - 1
              BY <1>4, <3>1
        <5>2. QED BY <1>4, <3>3, <5>1, WordsInOrder, RawAssumption DEF Index
      <4>4. word.index \in Int /\ item \div WordBytes \in Int /\ item' \div WordBytes \in Int
            BY <1>4, <4>1, RawAssumption DEF TypeOK
      <4>5. word.index # item' \div WordBytes
            BY <4>2, <4>3, <4>4
      <4>6. QED BY <1>1, <4>5 DEF WordInv
    <3>6. QED BY <1>0, <3>4, <3>5
  <2>4. QED BY <2>1, <2>2, <2>3
<1>10. RowInv' /\ RawWordIsWhole'
      BY <1>8 DEF RowInv, RawWordIsWhole
<1>11. ReadsInv'
  <2>1. Unit(raw32)' = Unit(raw32)
        BY <1>1 DEF Unit
  <2>2. ASSUME DumpHasEnd, NEW u \in Nat
        PROVE  Cardinality(Times(u))' <= Passes(u)'
    <3>0. size + Columns <= Space /\ UNCHANGED reads
          BY <1>0, <1>4, <1>6, <2>2 DEF DumpHasEnd
    <3>1. Cardinality(Times(u))' = Cardinality(Times(u)) /\ Cardinality(Times(u)) <= Passes(u)
          BY <1>1, <2>1, <2>2, <3>0 DEF Times, ReadsInv
    <3>2. Cardinality(Times(u)) \in Nat
      <4>1. Len(reads) \in Nat
            BY DEF TypeOK
      <4>2. QED BY <4>1, TimesIsFinite DEF Times
    <3>3. stage = "chars" => item < size /\ (item + Columns) % Space = item + Columns
      <4>1. item < size => item + Columns \in 0..(Space - 1)
            BY <1>4, <3>0
      <4>2. QED BY <1>4, <1>6, <4>1
    <3>4. /\ HexEnd \in Int /\ HexEnd' \in Int /\ HexEnd <= HexEnd'
          /\ CharEnd \in Int /\ CharEnd' \in Int /\ CharEnd <= CharEnd'
      <4>1. CASE UNCHANGED <<item, stage>>
            BY <1>3, <1>4, <4>1 DEF HexEnd, CharEnd
      <4>2. CASE stage = "offset" /\ stage' = "hex" /\ UNCHANGED item
            BY <1>4, <1>8, <4>2 DEF HexEnd, CharEnd
      <4>3. CASE /\ stage = "hex" /\ stage' = "chars" /\ UNCHANGED item
                 /\ Len(row) = RowLength
        <5>1. RowLength' = RowLength
              BY <1>1, <4>3 DEF RowLength
        <5>2. QED BY <1>4, <1>5, <1>6, <1>8, <4>3, <5>1 DEF HexEnd, CharEnd
      <4>4. CASE /\ stage = "chars" /\ stage' = "offset" /\ item' = (item + Columns) % Space
                 /\ Len(row) = RowLength
        <5>1. item' = item + Columns /\ Len(row) \in 1..Columns /\ RowLength \in 1..Columns
              BY <1>5, <3>3, <4>4
        <5>2. HexEnd = item + RowLength /\ CharEnd = item + Len(row)
              BY <4>4 DEF HexEnd, CharEnd
        <5>3. HexEnd' = item' /\ CharEnd' = item'
              BY <1>4, <4>4, <5>1 DEF HexEnd, CharEnd
        <5>4. QED BY <1>4, <5>1, <5>2, <5>3
      <4>5. QED BY <1>2, <4>1, <4>2, <4>3, <4>4
    <3>5. Passes(u) \in 0..2 /\ Passes(u)' \in 0..2 /\ Passes(u) <= Passes(u)'
      <4>1. Unit(raw32) \in Nat \ {0}
            BY UnitFacts
      <4>2. u * Unit(raw32) \in Nat
            BY <4>1
      <4>3. QED BY <2>1, <3>4, <4>2 DEF Passes
    <3>6. QED BY <3>1, <3>2, <3>5
  <2>3. DumpHasEnd' = DumpHasEnd
        BY <1>1 DEF DumpHasEnd
  <2>4. CASE UNCHANGED reads
        BY <1>1, <2>1, <2>2, <2>3, <2>4 DEF ReadsInv
  <2>5. CASE reads' = <<>>
        BY <1>1, <2>2, <2>3, <2>5 DEF ReadsInv
  <2>6. QED BY <1>0, <2>4, <2>5
<1>12. QED BY <1>7, <1>9, <1>10, <1>11

\* A byte of the row: from the cached word, or read.
LEMMA RawReads ==
  ASSUME TypeOK, RawInv, RawByte
  PROVE  RawInv'
<1> USE DEF RawInv
<1> DEFINE o == item + Len(row)
           d == o \div WordBytes
           there == address + d * WordBytes
<1>1. /\ cmd = "xxd" /\ UNCHANGED <<cmd, raw32, address, size, item, stage>>
      /\ stage \in {"hex", "chars"} /\ Len(row) < RowLength
      BY DEF RawByte, InRow
<1>2. /\ item \in Nat /\ size \in Nat /\ address \in Nat /\ Len(row) \in Nat /\ Len(reads) \in Nat
      /\ row \in Seq(ReadsOf) /\ reads \in Seq(Nat) /\ size <= Space
      /\ WordBytes \in Nat \ {0} /\ Columns \in Nat \ {0} /\ Space \in Nat \ {0}
      BY RawAssumption DEF TypeOK
<1>3. o \in Nat /\ o < size /\ o < item + Columns
      BY <1>1, <1>2 DEF RowLength
<1>4. d \in Nat /\ d * WordBytes <= o /\ there \in Nat
  <2>1. d \in Nat /\ d * WordBytes <= o
        BY <1>2, <1>3, WordOf
  <2>2. d * WordBytes \in Nat
        BY <1>2, <2>1
  <2>3. QED BY <1>2, <2>1, <2>2
<1>5. d < Space
  <2>1. d * 1 <= d * WordBytes
        BY <1>2, <1>4
  <2>2. QED BY <1>2, <1>3, <1>4, <2>1
<1>6. \/ /\ raw32 /\ word.index = d /\ UNCHANGED <<word, reads>>
         /\ row' = Append(row, word.value)
      \/ /\ raw32 /\ word.index # d /\ reads' = Append(reads, there)
         /\ word' = [index |-> d, value |-> ReadOf(there, Len(reads'))]
         /\ row' = Append(row, ReadOf(there, Len(reads')))
      \/ /\ ~raw32 /\ UNCHANGED word /\ reads' = Append(reads, address + o)
         /\ row' = Append(row, ReadOf(address + o, Len(reads')))
      BY DEF RawByte, GetByte, ReadByte, ReadWord, Cached
<1>7. \A i \in 1..Len(row) : Index(i)' = Index(i)
      BY <1>1 DEF Index
<1>8. ASSUME NEW i, i = Len(row) + 1 PROVE Index(i) = d /\ Index(i)' = d
  <2>1. item + i - 1 = o
        BY <1>2, <1>8
  <2>2. QED BY <1>1, <2>1 DEF Index
<1>9. raw32 /\ Len(row) # 0 => word.index = (o - 1) \div WordBytes
  <2> SUFFICES ASSUME raw32, Len(row) # 0 PROVE word.index = (o - 1) \div WordBytes
      OBVIOUS
  <2>1. Len(row) \in 1..Len(row)
        BY <1>2
  <2>2. Index(Len(row)) = word.index
        BY <1>1, <2>1 DEF RowInv
  <2>3. item + Len(row) - 1 = o - 1
        BY <1>2
  <2>4. QED BY <2>2, <2>3 DEF Index
<1>10. raw32 /\ word.index # d => o % WordBytes = 0 /\ d * WordBytes = o
  <2> SUFFICES ASSUME raw32, word.index # d PROVE o % WordBytes = 0
      BY <1>2, <1>3, WordOf
  <2>1. CASE Len(row) = 0
        BY <1>1, <1>2, <2>1 DEF RowBounds
  <2>2. CASE Len(row) # 0
        BY <1>2, <1>3, <1>9, <2>2, NewWord
  <2>3. QED BY <2>1, <2>2
\* The words of the earlier bytes come before a word that is read anew.
<1>11. raw32 /\ word.index # d => \A i \in 1..Len(row) : Index(i) # d
  <2> SUFFICES ASSUME raw32, word.index # d, NEW i \in 1..Len(row) PROVE Index(i) # d
      OBVIOUS
  <2>1. /\ item + i - 1 \in Nat /\ o - 1 \in Nat /\ item + i - 1 <= o - 1 /\ o - 1 <= o
        /\ Len(row) # 0
    <3>1. i \in Nat /\ i >= 1 /\ i <= Len(row)
          BY <1>2
    <3>2. QED BY <1>2, <3>1
  <2>2. Index(i) <= (o - 1) \div WordBytes
        BY <1>2, <2>1, WordsInOrder DEF Index
  <2>3. (o - 1) \div WordBytes <= d /\ (o - 1) \div WordBytes # d
        BY <1>2, <1>3, <1>9, <2>1, WordsInOrder
  <2>4. Index(i) \in Nat /\ (o - 1) \div WordBytes \in Nat
        BY <1>2, <2>1, WordOf DEF Index
  <2>5. QED BY <1>4, <2>2, <2>3, <2>4
<1>23. row = <<>> => d = item \div WordBytes
  <2>1. row = <<>> => o = item
        BY <1>2
  <2>2. QED BY <2>1
<1> HIDE DEF o, d, there
<1>12. RowBounds'
  <2>1. Unit(raw32)' = Unit(raw32) /\ RowLength' = RowLength
        BY <1>1 DEF Unit, RowLength
  <2>2. Len(row') = Len(row) + 1
        BY <1>2, <1>6
  <2>3. Len(row') <= RowLength
    <3>1. RowLength \in Int
          BY <1>2 DEF RowLength
    <3>2. QED BY <1>1, <1>2, <2>2, <3>1
  <2>4. QED BY <1>1, <2>1, <2>3 DEF RowBounds
\* What a read once made is still in the history, and so is the new one.
<1> DEFINE Held(v, index) == /\ v.address = address + index * WordBytes
                             /\ v.read \in 1..Len(reads') /\ reads'[v.read] = v.address
<1>13. ASSUME NEW v, NEW index, FromRead(v, index) PROVE Held(v, index)
  <2>1. v.read \in 1..Len(reads) /\ reads[v.read] = v.address
        BY <1>13 DEF FromRead
  <2>2. CASE UNCHANGED reads
        BY <1>13, <2>2 DEF FromRead
  <2>3. CASE reads' = Append(reads, there) \/ reads' = Append(reads, address + o)
    <3>1. v.read \in 1..Len(reads') /\ reads'[v.read] = reads[v.read]
          BY <1>2, <2>1, <2>3
    <3>2. QED BY <1>13, <2>1, <3>1 DEF FromRead
  <2>4. QED BY <1>6, <2>2, <2>3
<1>14. raw32 => Held(row'[Len(row) + 1], d) /\ row'[Len(row) + 1] = word'.value /\ word'.index = d
  <2>1. CASE raw32 /\ word.index = d /\ UNCHANGED <<word, reads>> /\ row' = Append(row, word.value)
    <3>1. FromRead(word.value, d)
          BY <1>1, <1>23, <2>1 DEF WordInv
    <3>2. row'[Len(row) + 1] = word.value
          BY <1>2, <2>1
    <3>3. QED BY <1>13, <2>1, <3>1, <3>2
  <2>2. CASE /\ raw32 /\ word.index # d /\ reads' = Append(reads, there)
             /\ word' = [index |-> d, value |-> ReadOf(there, Len(reads'))]
             /\ row' = Append(row, ReadOf(there, Len(reads')))
    <3>1. row'[Len(row) + 1] = ReadOf(there, Len(reads'))
          BY <1>2, <2>2
    <3>2. Len(reads') = Len(reads) + 1 /\ reads'[Len(reads) + 1] = there
          BY <1>2, <1>4, <2>2
    <3>3. Len(reads') \in 1..Len(reads') /\ reads'[Len(reads')] = there
          BY <1>2, <3>2
    <3>4. QED BY <2>2, <3>1, <3>3 DEF ReadOf, there
  <2>3. QED BY <1>6, <2>1, <2>2
<1>15. Len(row') = Len(row) + 1 /\ \A i \in 1..Len(row) : row'[i] = row[i]
      BY <1>2, <1>6
<1>16. raw32 => \A i \in 1..Len(row) : Held(row[i], Index(i)) /\ (Index(i) = d => row[i] = word'.value)
  <2> SUFFICES ASSUME raw32, NEW i \in 1..Len(row)
               PROVE  Held(row[i], Index(i)) /\ (Index(i) = d => row[i] = word'.value)
      OBVIOUS
  <2>1. FromRead(row[i], Index(i)) /\ (Index(i) = word.index => row[i] = word.value)
        BY <1>1 DEF RowInv
  <2>2. Held(row[i], Index(i))
        BY <1>13, <2>1
  <2>3. Index(i) = d => row[i] = word'.value
        BY <1>6, <1>11, <2>1
  <2>4. QED BY <2>2, <2>3
<1>17. ASSUME NEW v, NEW index PROVE FromRead(v, index)' = Held(v', index')
      BY <1>1 DEF FromRead
<1>18. WordInv'
  <2>1. raw32 => Held(word'.value, word'.index)
        BY <1>14
  <2>2. raw32 => FromRead(word.value, word.index)'
        BY <1>1, <2>1 DEF FromRead
  <2>3. QED BY <1>1, <2>2 DEF WordInv
<1>19. RowInv'
  <2> SUFFICES ASSUME raw32, NEW i \in 1..(Len(row) + 1)
               PROVE  /\ FromRead(row[i], Index(i))'
                      /\ Index(i)' = word'.index => row'[i] = word'.value
                      /\ i = Len(row) + 1 => Index(i)' = word'.index
      BY <1>1, <1>15 DEF RowInv
  <2>1. CASE i = Len(row) + 1
    <3>1. Held(row'[i], Index(i)')
          BY <1>8, <1>14, <2>1
    <3>2. FromRead(row[i], Index(i))'
          BY <1>1, <3>1 DEF FromRead
    <3>3. QED BY <1>8, <1>14, <2>1, <3>2
  <2>2. CASE i \in 1..Len(row)
    <3>1. Held(row'[i], Index(i)')
          BY <1>7, <1>15, <1>16, <2>2
    <3>2. FromRead(row[i], Index(i))'
          BY <1>1, <3>1 DEF FromRead
    <3>3. i # Len(row) + 1
          BY <1>2, <2>2
    <3>4. QED BY <1>7, <1>14, <1>15, <1>16, <2>2, <3>2, <3>3
  <2>3. QED BY <1>2, <2>1, <2>2
<1>20. RawWordIsWhole'
  <2> SUFFICES ASSUME raw32, NEW i \in 1..(Len(row) + 1), NEW j \in 1..(Len(row) + 1)
               PROVE  /\ Held(row'[i], Index(i)')
                      /\ Index(i)' = Index(j)' => row'[i] = row'[j]
    <3>1. Len(row) + 1 \in Nat
          BY <1>2
    <3>2. QED BY <1>1, <1>15, <3>1 DEF RawWordIsWhole, Index
  <2>1. ASSUME NEW k \in 1..(Len(row) + 1)
        PROVE  /\ Held(row'[k], Index(k)') /\ (Index(k)' = d => row'[k] = word'.value)
               /\ k \notin 1..Len(row) => row'[k] = word'.value /\ Index(k)' = d
    <3>1. CASE k = Len(row) + 1
          BY <1>8, <1>14, <3>1
    <3>2. CASE k \in 1..Len(row)
          BY <1>7, <1>15, <1>16, <3>2
    <3>3. QED BY <1>2, <3>1, <3>2
  <2>2. Index(i)' = Index(j)' => row'[i] = row'[j]
    <3>1. CASE i \in 1..Len(row) /\ j \in 1..Len(row)
      <4>1. Index(i)' = Index(i) /\ Index(j)' = Index(j) /\ row'[i] = row[i] /\ row'[j] = row[j]
            BY <1>7, <1>15, <3>1
      <4>2. Index(i) = Index(j) => row[i] = row[j]
            BY <1>1, <3>1 DEF RawWordIsWhole, Index
      <4>3. QED BY <4>1, <4>2
    <3>2. CASE i \notin 1..Len(row) \/ j \notin 1..Len(row)
          BY <2>1, <3>2
    <3>3. QED BY <3>1, <3>2
  <2>3. QED BY <2>1, <2>2
\* A location is read anew only when the loop reaches its first byte.
<1>21. ReadsInv'
  <2>1. Unit(raw32)' = Unit(raw32) /\ Unit(raw32) \in Nat \ {0} /\ RowLength' = RowLength
        BY <1>1, UnitFacts DEF Unit, RowLength
  <2>2. \/ UNCHANGED <<word, reads>>
        \/ /\ reads' = Append(reads, address + o) /\ o % Unit(raw32) = 0
           /\ raw32 => word.index # d /\ word'.index = d
    <3>1. CASE raw32 /\ word.index # d /\ reads' = Append(reads, there)
      <4>1. there = address + o /\ o % Unit(raw32) = 0
            BY <1>10, <3>1 DEF there, Unit
      <4>2. QED BY <1>14, <3>1, <4>1
    <3>2. CASE ~raw32 /\ reads' = Append(reads, address + o)
          BY <1>3, <3>2 DEF Unit
    <3>3. QED BY <1>6, <3>1, <3>2
  <2>3. \A k \in 1..Len(reads') : \E u \in Nat : /\ reads'[k] = address + u * Unit(raw32)
                                                /\ u * Unit(raw32) + Unit(raw32) <= size
    <3>1. CASE UNCHANGED reads
          BY <1>1, <3>1 DEF ReadsInv
    <3>2. CASE reads' = Append(reads, address + o) /\ o % Unit(raw32) = 0
      <4>1. o + Unit(raw32) <= size
        <5>1. size % Unit(raw32) = 0
              BY <1>1 DEF RowBounds
        <5>2. QED BY <1>2, <1>3, <2>1, <3>2, <5>1, WholeWord
      <4>2. \E u \in Nat : u * Unit(raw32) = o
            BY <1>3, <2>1, <3>2, WordOf
      <4>3. \A k \in 1..Len(reads') : (k \in 1..Len(reads) /\ reads'[k] = reads[k])
                                      \/ reads'[k] = address + o
            BY <1>2, <1>3, <3>2
      <4>4. QED BY <1>1, <4>1, <4>2, <4>3 DEF ReadsInv
    <3>3. QED BY <2>2, <3>1, <3>2
  <2>4. ASSUME DumpHasEnd, NEW u \in Nat
        PROVE  Cardinality(Times(u))' <= Passes(u)'
    <3> DEFINE b == u * Unit(raw32)
    <3>1. b \in Nat
          BY <2>1
    <3> HIDE DEF b
    <3>2. Cardinality(Times(u)) <= Passes(u) /\ Cardinality(Times(u)) \in Nat
      <4>1. Cardinality(Times(u)) \in Nat
            BY <1>2, TimesIsFinite DEF Times
      <4>2. QED BY <1>1, <2>4, <4>1 DEF ReadsInv
    <3>3. /\ HexEnd \in Int /\ HexEnd' \in Int /\ CharEnd \in Int /\ CharEnd' \in Int
          /\ stage = "hex" => /\ HexEnd = o /\ HexEnd' = o + 1
                              /\ CharEnd = item /\ CharEnd' = item
          /\ stage = "chars" => /\ CharEnd = o /\ CharEnd' = o + 1
                                /\ HexEnd = HexEnd'
      <4>1. o = item + Len(row) /\ o + 1 = item + Len(row')
            BY <1>2, <1>15 DEF o
      <4>2. RowLength \in Int
            BY <1>2 DEF RowLength
      <4>3. QED BY <1>1, <1>2, <2>1, <4>1, <4>2 DEF HexEnd, CharEnd
    <3>4. /\ Passes(u) = (IF b < HexEnd THEN 1 ELSE 0) + (IF b < CharEnd THEN 1 ELSE 0)
          /\ Passes(u)' = (IF b < HexEnd' THEN 1 ELSE 0) + (IF b < CharEnd' THEN 1 ELSE 0)
          BY <2>1 DEF Passes, b
    <3>5. Passes(u) \in Nat /\ Passes(u)' \in Nat /\ Passes(u) <= Passes(u)'
          /\ (b = o => Passes(u)' = Passes(u) + 1)
          BY <1>1, <1>3, <3>1, <3>3, <3>4
    <3>6. Times(u) = {m \in 1..Len(reads) : reads[m] = address + b}
          BY DEF Times, b
    <3>7. Times(u)' = {m \in 1..Len(reads') : reads'[m] = address + b}
          BY <1>1, <2>1 DEF Times, b
    <3>8. CASE UNCHANGED reads
          BY <3>2, <3>5, <3>6, <3>7, <3>8
    <3>9. CASE reads' = Append(reads, address + o)
      <4>1. address + o \in Nat /\ address + b \in Nat /\ (address + o = address + b <=> b = o)
            BY <1>2, <1>3, <3>1
      <4>2. Cardinality(Times(u))' = IF b = o THEN Cardinality(Times(u)) + 1
                                     ELSE Cardinality(Times(u))
        <5>1. LET before == Cardinality({m \in 1..Len(reads) : reads[m] = address + b})
                  after == Cardinality({m \in 1..Len(Append(reads, address + o)) :
                                          Append(reads, address + o)[m] = address + b})
              IN  after = IF address + o = address + b THEN before + 1 ELSE before
              BY <1>2, <4>1, OneMoreRead
        <5>2. Times(u)' = {m \in 1..Len(Append(reads, address + o)) :
                             Append(reads, address + o)[m] = address + b}
              BY <3>7, <3>9
        <5>3. QED BY <3>6, <4>1, <5>1, <5>2
      <4>3. QED BY <3>2, <3>5, <4>2
    <3>10. QED BY <2>2, <3>8, <3>9
  <2>5. ASSUME raw32, size = WordBytes
        PROVE  reads' = <<>> \/ (Len(reads') = 1 /\ word'.index = 0)
    <3>1. d = 0
      <4>1. d * WordBytes < 1 * WordBytes
            BY <1>2, <1>3, <1>4, <2>5
      <4>2. d < 1
            BY <1>2, <1>4, <4>1, LessFactor
      <4>3. QED BY <1>4, <4>2
    <3>2. reads = <<>> \/ (Len(reads) = 1 /\ word.index = 0)
          BY <1>1, <2>5 DEF ReadsInv
    <3>3. CASE UNCHANGED <<word, reads>>
          BY <3>2, <3>3
    <3>4. CASE reads' = Append(reads, address + o) /\ word.index # d /\ word'.index = d
      <4>1. reads = <<>>
            BY <3>1, <3>2, <3>4
      <4>2. Len(reads') = 1
            BY <3>4, <4>1
      <4>3. QED BY <3>1, <3>4, <4>2
    <3>5. QED BY <2>2, <2>5, <3>3, <3>4
  <2>6. DumpHasEnd' = DumpHasEnd
        BY <1>1 DEF DumpHasEnd
  <2>7. QED BY <1>1, <2>1, <2>3, <2>4, <2>5, <2>6 DEF ReadsInv
<1>22. QED BY <1>12, <1>18, <1>19, <1>20, <1>21

-----------------------------------------------------------------------------
(* The types.                                                              *)
LEMMA Texts ==
  /\ Greeting \in Seq(Chars) /\ Prompt \in Seq(Chars) /\ Newline \in Seq(Chars)
  /\ Line \in Seq(Chars) /\ <<"x">> \in Seq(Chars)
  /\ \A c \in Typed : <<c>> \in Seq(Chars) /\ <<c>> # <<>>
  /\ Greeting # <<>> /\ Prompt # <<>> /\ Newline # <<>> /\ Line # <<>> /\ <<"x">> # <<>>
BY DEF Greeting, Prompt, Newline, Line, Chars

LEMMA IoTypeStep == CmdInv /\ IoTypeOK /\ [Next]_vars => IoTypeOK'
<1> SUFFICES ASSUME CmdInv, IoTypeOK, [Next]_vars PROVE IoTypeOK'
    OBVIOUS
<1> USE DEF IoTypeOK, ShellStates, Say, echo, shell, ioVars
<1>1. CASE Read
  <2>1. PICK c \in Typed \cup {None} :
          /\ Poll(c)
          /\ \/ c \in {None} \cup (Typed \ {"cr"}) /\ UNCHANGED shell
             \/ c \in Typed \ {"cr"} /\ Say(<<c>>, "read")
             \/ c = "cr" /\ Say(Newline, "exec")
        BY <1>1 DEF Read
  <2>2. /\ inchar' \in Typed \cup {None} /\ echoDue' \in BOOLEAN /\ moved' \in BOOLEAN
        BY <2>1 DEF Poll, PollUart, PollCdc
  <2>3. /\ state' \in ShellStates /\ next' \in ShellStates
        /\ text' \in Seq(Chars) /\ (state' = "write" <=> text' # <<>>)
        BY <2>1, Texts
  <2>4. UNCHANGED <<configured, cdcChosen>>
        BY <1>1 DEF Read
  <2>5. QED BY <2>2, <2>3, <2>4
<1>2. CASE WriteUart \/ ChooseCdc \/ WriteCdc
  <2>1. state = "write" /\ next # "write"
        BY <1>2 DEF WriteUart, ChooseCdc, WriteCdc, CmdInv, Running, Waiting
  <2>2. /\ configured' \in BOOLEAN /\ cdcChosen' \in BOOLEAN /\ echoDue' \in BOOLEAN
        /\ moved' \in BOOLEAN /\ inchar' \in Typed \cup {None}
        BY <1>2 DEF WriteUart, ChooseCdc, WriteCdc, Written, AfterWrite
  <2>3. \/ UNCHANGED shell
        \/ /\ text' = Tail(text) /\ UNCHANGED next
           /\ state' = IF Len(text) = 1 THEN next ELSE "write"
        BY <1>2 DEF WriteUart, ChooseCdc, WriteCdc, Written, Accepted
  <2>4. text \in Seq(Chars) /\ text # <<>>
        BY <2>1
  <2>5. /\ Tail(text) \in Seq(Chars) /\ Len(Tail(text)) = Len(text) - 1 /\ Len(text) \in Nat
        BY <2>4
  <2>6. Len(Tail(text)) = 0 <=> Tail(text) = <<>>
        BY <2>5, EmptySeq
  <2>7. Len(text) = 1 <=> Tail(text) = <<>>
        BY <2>5, <2>6
  <2>8. QED BY <2>1, <2>2, <2>3, <2>5, <2>7
<1>3. CASE ResetPrompt \/ RadioExec \/ RawExec \/ OtherExec
  <2>1. UNCHANGED <<configured, cdcChosen, echo>>
        BY <1>3 DEF ResetPrompt, RadioExec, RawExec, OtherExec
  <2>2. CASE ResetPrompt
        BY <2>1, <2>2, Texts DEF ResetPrompt
  <2>3. CASE RadioExec
        BY <2>1, <2>3, Texts DEF RadioExec
  <2>4. CASE RawExec
    <3>1. \/ Say(Line, "reset")
          \/ state = "exec" /\ state' = "start" /\ UNCHANGED <<text, next>>
          BY <2>4 DEF RawExec
    <3>2. QED BY <2>1, <3>1, Texts
  <2>5. CASE OtherExec
    <3>1. \E t \in {Line} \cup {<<c>> : c \in Typed} : Say(t, "reset")
          BY <2>5 DEF OtherExec
    <3>2. \A t \in {Line} \cup {<<c>> : c \in Typed} : t \in Seq(Chars) /\ t # <<>>
          BY Texts
    <3>3. QED BY <2>1, <3>1, <3>2
  <2>6. QED BY <1>3, <2>2, <2>3, <2>4, <2>5
<1>4. CASE RadioStart \/ RadioBegin \/ RadioWait \/ RadioData \/ RadioComplete
      BY <1>4, Texts DEF RadioStart, RadioBegin, RadioWait, RadioData, RadioComplete
<1>5. CASE RawStart \/ RawOffset \/ RawByte \/ RawRow
      BY <1>5, Texts DEF RawStart, RawOffset, RawByte, RawRow, InRow
<1>6. CASE Configure \/ BusReset
      BY <1>6 DEF Configure, BusReset
<1>7. CASE \E r \in Register : Finish(r)
      BY <1>7 DEF Finish
<1>8. CASE UNCHANGED vars
      BY <1>8 DEF vars
<1>9. QED BY <1>1, <1>2, <1>3, <1>4, <1>5, <1>6, <1>7, <1>8, Steps

LEMMA RadioTypeStep == LinesInv /\ RadioTypeOK /\ [Next]_vars => RadioTypeOK'
<1> SUFFICES ASSUME LinesInv, RadioTypeOK, [Next]_vars PROVE RadioTypeOK'
    OBVIOUS
<1> USE DEF RadioTypeOK, bus, radioVars
<1> USE RadioAssumption
<1>1. CASE UNCHANGED radioVars
      BY <1>1
<1>2. CASE ResetPrompt
  <2>1. <<>> \in Seq([reg : Register, from : Register])
        OBVIOUS
  <2>2. QED BY <1>2, <2>1 DEF ResetPrompt
<1>3. CASE RadioExec
  <2>1. <<>> \in Seq([reg : Register, from : Register])
        OBVIOUS
  <2>2. processIndex' \in 0..Registers /\ lines' \in Seq([reg : Register, from : Register])
    <3>1. \/ UNCHANGED <<processIndex, lines>>
          \/ processIndex' = 0 /\ lines' = <<>>
          BY <1>3 DEF RadioExec, FirstIndex
    <3>2. 0 \in 0..Registers
          OBVIOUS
    <3>3. QED BY <2>1, <3>1, <3>2
  <2>3. UNCHANGED <<timeout, busy, done, dat, late>>
        BY <1>3 DEF RadioExec
  <2>4. QED BY <2>2, <2>3
<1>4. CASE RadioBegin
  <2>1. processIndex \in Register
        BY <1>4 DEF RadioBegin, MoreToDump, Register
  <2>2. SpiTimeout \in 0..SpiTimeout
        OBVIOUS
  <2>3. timeout' = SpiTimeout /\ busy' = busy \cup {processIndex} /\ done' = FALSE
        /\ UNCHANGED <<processIndex, dat, lines, late>>
        BY <1>4 DEF RadioBegin
  <2>4. QED BY <2>1, <2>2, <2>3
<1>5. CASE RadioWait
  <2>1. \A n \in 0..SpiTimeout : n > 0 => n - 1 \in 0..SpiTimeout
        OBVIOUS
  <2>2. timeout' \in 0..SpiTimeout
        BY <1>5, <2>1 DEF RadioWait
  <2>3. late' \in BOOLEAN /\ UNCHANGED <<processIndex, busy, done, dat, lines>>
        BY <1>5 DEF RadioWait
  <2>4. QED BY <2>2, <2>3
<1>6. CASE RadioData
  <2>1. processIndex \in Register /\ processIndex + 1 \in 0..Registers
        BY <1>6 DEF RadioData, LinesInv, Register
  <2>2. [reg |-> processIndex, from |-> dat] \in [reg : Register, from : Register]
        BY <2>1
  <2>3. lines' \in Seq([reg : Register, from : Register])
        BY <1>6, <2>2 DEF RadioData
  <2>4. QED BY <1>6, <2>1, <2>3 DEF RadioData
<1>7. CASE \E r \in Register : Finish(r)
      BY <1>7 DEF Finish
<1>8. \/ UNCHANGED radioVars \/ ResetPrompt \/ RadioExec \/ RadioBegin \/ RadioWait
      \/ RadioData \/ \E r \in Register : Finish(r)
      BY Steps DEF RadioStart, RadioComplete, RawExec, RawStart, RawOffset, RawByte, RawRow,
                   OtherExec, vars
<1>9. QED BY <1>1, <1>2, <1>3, <1>4, <1>5, <1>6, <1>7, <1>8

RawTypeOK ==
  /\ cmd \in {"none", "radio", "xxd"}
  /\ raw32 \in BOOLEAN /\ address \in 0..Space /\ size \in 0..Space
  /\ item \in 0..(Space - 1) /\ stage \in {"offset", "hex", "chars"}
  /\ word.index \in 0..Space /\ word.value \in ReadsOf
  /\ row \in Seq(ReadsOf) /\ Len(row) <= Columns
  /\ reads \in Seq(Nat)

LEMMA RawTypeStep == RowBounds /\ TypeOK /\ [Next]_vars => RawTypeOK'
<1> SUFFICES ASSUME RowBounds, TypeOK, [Next]_vars PROVE RawTypeOK'
    OBVIOUS
<1>1. RawTypeOK
      BY DEF RawTypeOK, TypeOK
<1> USE DEF RawTypeOK, rawVars
<1>2. CASE UNCHANGED rawVars /\ (cmd' = cmd \/ cmd' = "radio")
      BY <1>1, <1>2
<1>3. CASE ResetPrompt /\ UNCHANGED <<raw32, address, size, item, stage, word>>
           /\ row' = <<>> /\ reads' = <<>>
  <2>1. /\ <<>> \in Seq(ReadsOf) /\ <<>> \in Seq(Nat) /\ Len(<<>>) <= Columns
        BY RawAssumption
  <2>2. QED BY <1>1, <1>3, <2>1 DEF ResetPrompt
<1>4. CASE RawExec
  <2>1. PICK wide \in BOOLEAN, a \in Addresses, n \in Counts :
          \/ ~Fits(wide, a, n) /\ UNCHANGED <<cmd, rawVars>>
          \/ /\ Fits(wide, a, n)
             /\ cmd' = "xxd"
             /\ raw32' = wide /\ address' = a /\ size' = n * Unit(wide)
             /\ word' = WordAtStart
             /\ item' = 0 /\ stage' = "offset" /\ row' = <<>> /\ reads' = <<>>
        BY <1>4 DEF RawExec
  <2>2. CASE UNCHANGED <<cmd, rawVars>>
        BY <1>1, <2>2
  <2>3. CASE /\ Fits(wide, a, n)
             /\ cmd' = "xxd"
             /\ raw32' = wide /\ address' = a /\ size' = n * Unit(wide)
             /\ word' = WordAtStart
             /\ item' = 0 /\ stage' = "offset" /\ row' = <<>> /\ reads' = <<>>
    <3>1. <<>> \in Seq(ReadsOf) /\ <<>> \in Seq(Nat) /\ Len(<<>>) <= Columns
          BY RawAssumption
    <3>2. a \in 0..(Space - 1) /\ n \in Nat /\ Unit(wide) \in Nat \ {0}
          BY RawAssumption DEF Unit
    <3>3. n * Unit(wide) \in Nat
          BY <3>2
    <3>4. a \in 0..Space /\ n * Unit(wide) \in 0..Space /\ 0 \in 0..(Space - 1)
          BY <2>3, <3>2, <3>3, RawAssumption DEF Fits, End
    <3>5. NoWord.index \in 0..Space /\ NoWord.value \in ReadsOf
          BY RawAssumption DEF NoWord, ReadOf, ReadsOf
    <3>6. QED BY <2>3, <3>1, <3>4, <3>5 DEF WordAtStart
  <2>4. QED BY <2>1, <2>2, <2>3
<1>5. CASE RawOffset
      BY <1>1, <1>5 DEF RawOffset
<1>6. CASE RawRow
  <2>1. <<>> \in Seq(ReadsOf) /\ Len(<<>>) <= Columns
        BY RawAssumption
  <2>2. item' \in 0..(Space - 1)
    <3>1. (item + Columns) % Space \in 0..(Space - 1)
          BY <1>1, RawAssumption
    <3>2. QED BY <1>1, <1>6, <3>1 DEF RawRow
  <2>3. stage' \in {"offset", "hex", "chars"} /\ row' = <<>>
        /\ UNCHANGED <<cmd, raw32, address, size, word>> /\ reads' \in {reads, <<>>}
        BY <1>6 DEF RawRow
  <2>4. reads' \in Seq(Nat)
    <3>1. <<>> \in Seq(Nat)
          OBVIOUS
    <3>2. QED BY <1>1, <2>3, <3>1
  <2>5. QED BY <1>1, <2>1, <2>2, <2>3, <2>4
<1>7. CASE RawByte
  <2> DEFINE o == item + Len(row)
  <2>1. /\ UNCHANGED <<cmd, raw32, address, size, item, stage>> /\ GetByte(o)
        /\ Len(row) < RowLength /\ item < size
        BY <1>7 DEF RawByte, InRow, RowBounds
  <2>2. o \in Nat /\ o < size /\ Len(row) < Columns /\ Len(row) \in Nat
        BY <1>1, <2>1, RawAssumption DEF RowLength
  <2> HIDE DEF o
  <2>3. o \div WordBytes \in Nat /\ (o \div WordBytes) * WordBytes <= o
        BY <2>2, RawAssumption, WordOf
  <2>4. ASSUME NEW a \in 0..(2 * Space), reads' = Append(reads, a)
        PROVE  reads' \in Seq(Nat) /\ ReadOf(a, Len(reads')) \in ReadsOf
    <3>1. a \in Nat
          BY RawAssumption
    <3>2. reads' \in Seq(Nat) /\ Len(reads') \in Nat
          BY <1>1, <2>4, <3>1
    <3>3. QED BY <3>2 DEF ReadOf, ReadsOf
  <2>5. /\ address + o \in 0..(2 * Space)
        /\ address + (o \div WordBytes) * WordBytes \in 0..(2 * Space)
    <3>1. (o \div WordBytes) * WordBytes \in Nat
          BY <2>3, RawAssumption
    <3>2. QED BY <1>1, <2>2, <2>3, <3>1, RawAssumption
  <2>6. o \div WordBytes \in 0..Space
    <3>1. (o \div WordBytes) * 1 <= (o \div WordBytes) * WordBytes
          BY <2>3, RawAssumption
    <3>2. QED BY <1>1, <2>2, <2>3, <3>1, RawAssumption
  <2>7. reads' \in Seq(Nat) /\ word'.index \in 0..Space /\ word'.value \in ReadsOf
        /\ \E v \in ReadsOf : row' = Append(row, v)
    <3>1. CASE ~raw32
      <4>1. reads' = Append(reads, address + o) /\ UNCHANGED word
            /\ row' = Append(row, ReadOf(address + o, Len(reads')))
            BY <2>1, <3>1 DEF GetByte, ReadByte
      <4>2. QED BY <1>1, <2>4, <2>5, <4>1
    <3>2. CASE raw32 /\ Cached(o \div WordBytes)
      <4>1. UNCHANGED <<word, reads>> /\ row' = Append(row, word.value)
            BY <2>1, <3>2 DEF GetByte
      <4>2. QED BY <1>1, <4>1
    <3>3. CASE raw32 /\ ~Cached(o \div WordBytes)
      <4> DEFINE a == address + (o \div WordBytes) * WordBytes
      <4>1. reads' = Append(reads, a) /\ row' = Append(row, ReadOf(a, Len(reads')))
            /\ word' = [index |-> o \div WordBytes, value |-> ReadOf(a, Len(reads'))]
            BY <2>1, <3>3 DEF GetByte, ReadWord
      <4>2. QED BY <2>4, <2>5, <2>6, <4>1
    <3>4. QED BY <3>1, <3>2, <3>3
  <2>8. row' \in Seq(ReadsOf) /\ Len(row') <= Columns
    <3>1. PICK v \in ReadsOf : row' = Append(row, v)
          BY <2>7
    <3>2. row' \in Seq(ReadsOf) /\ Len(row') = Len(row) + 1
          BY <1>1, <3>1
    <3>3. QED BY <2>2, <3>2, RawAssumption
  <2>9. QED BY <1>1, <2>1, <2>7, <2>8
<1>8. \/ UNCHANGED rawVars /\ (cmd' = cmd \/ cmd' = "radio")
      \/ /\ ResetPrompt /\ UNCHANGED <<raw32, address, size, item, stage, word>>
         /\ row' = <<>> /\ reads' = <<>>
      \/ RawExec \/ RawOffset \/ RawByte \/ RawRow
      BY DEF Next, Main, Console, Radio, RadioNext, Raw, Hardware, Environment, vars, Finish,
             RadioExec, RadioStart, RadioBegin, RadioWait, RadioData, RadioComplete, RawStart,
             OtherExec
<1>9. QED BY <1>2, <1>3, <1>4, <1>5, <1>6, <1>7, <1>8

-----------------------------------------------------------------------------
LEMMA RawInvInit == Init => TypeOK /\ RawInv
<1> SUFFICES ASSUME Init PROVE TypeOK /\ RawInv
    OBVIOUS
<1>1. IoTypeOK
      BY Texts DEF Init, IoInit, IoTypeOK, ShellStates
<1>2. RadioTypeOK
  <2>1. 0 \in 0..Registers /\ 0 \in 0..SpiTimeout
        BY RadioAssumption
  <2>2. <<>> \in Seq([reg : Register, from : Register])
        OBVIOUS
  <2>3. QED BY <2>1, <2>2 DEF Init, RadioInit, RadioTypeOK
<1>3. RawTypeOK /\ cmd = "none"
  <2>1. <<>> \in Seq(ReadsOf) /\ <<>> \in Seq(Nat) /\ Len(<<>>) <= Columns
        BY RawAssumption
  <2>2. 0 \in 0..Space /\ 0 \in 0..(Space - 1)
        BY RawAssumption
  <2>3. NoWord.index \in 0..Space /\ NoWord.value \in ReadsOf
        BY RawAssumption DEF NoWord, ReadOf, ReadsOf
  <2>4. QED BY <2>1, <2>2, <2>3 DEF Init, RawInit, RadioInit, RawTypeOK
<1>4. RawInv
      BY <1>3 DEF RawInv, RowBounds, WordInv, RowInv, RawWordIsWhole, ReadsInv
<1>5. QED BY <1>1, <1>2, <1>3, <1>4 DEF TypeOK, RawTypeOK

LEMMA RawStep == Inv /\ TypeOK /\ RawInv /\ [Next]_vars => TypeOK' /\ RawInv'
<1> SUFFICES ASSUME Inv, TypeOK, RawInv, [Next]_vars PROVE TypeOK' /\ RawInv'
    OBVIOUS
<1>1. TypeOK'
  <2>1. IoTypeOK'
        BY IoTypeStep DEF Inv, TypeOK
  <2>2. RadioTypeOK'
        BY RadioTypeStep DEF Inv, TypeOK
  <2>3. RawTypeOK'
        BY RawTypeStep DEF RawInv
  <2>4. QED BY <2>1, <2>2, <2>3 DEF TypeOK, RawTypeOK
<1>2. RawInv'
  <2>1. CASE cmd' = "xxd" => cmd = "xxd" /\ UNCHANGED rawVars
        BY <2>1, RawIdle
  <2>2. CASE RawExec
        BY <2>2, RawBegins
  <2>3. CASE RawOffset \/ RawRow
        BY <2>3, RawGoesOn
  <2>4. CASE RawByte
        BY <2>4, RawReads
  <2>5. \/ cmd' = "xxd" => cmd = "xxd" /\ UNCHANGED rawVars
        \/ RawExec \/ RawOffset \/ RawRow \/ RawByte
        BY DEF Next, Main, Console, Radio, RadioNext, Raw, Hardware, Environment, vars, Finish,
               ResetPrompt, RadioExec, RadioStart, RadioBegin, RadioWait, RadioData,
               RadioComplete, RawStart, OtherExec
  <2>6. QED BY <2>1, <2>2, <2>3, <2>4, <2>5
<1>3. QED BY <1>1, <1>2

LEMMA RawHolds == Spec => [](TypeOK /\ RawInv)
<1>1. QED BY RawInvInit, RawStep, InvHolds, PTL DEF Spec

(* Every variable of the shell keeps its type; among them the row, which   *)
(* never outgrows the columns, and the register index, which never passes  *)
(* the last register.                                                      *)
THEOREM ShellTypeCorrect == Spec => []TypeOK
<1>1. QED BY RawHolds, PTL

(* What a pass over a row prints of one word is one read of it, made by    *)
(* this dump: the cache is neither torn nor left over.                     *)
THEOREM WordIsWhole == Spec => []RawWordIsWhole
<1>1. TypeOK /\ RawInv => RawWordIsWhole
      BY DEF RawInv
<1>2. QED BY <1>1, RawHolds, PTL

(* A raw dump reads nothing past what was asked for, nothing more than     *)
(* twice unless its index wraps, and a single word once.                   *)
THEOREM ReadsWhatWasAsked == Spec => []RawReadsWhatWasAsked
<1>1. TypeOK /\ RawInv => RawReadsWhatWasAsked
  <2> SUFFICES ASSUME TypeOK, RawInv, cmd = "xxd"
               PROVE  /\ \A k \in 1..Len(reads) :
                           /\ reads[k] \in address..(address + size - Unit(raw32))
                           /\ reads[k] + Unit(raw32) <= Space
                           /\ DumpHasEnd =>
                                Cardinality({m \in 1..Len(reads) : reads[m] = reads[k]}) <= 2
                      /\ raw32 /\ size = WordBytes => Len(reads) <= 1
      BY DEF RawReadsWhatWasAsked
  <2>1. ReadsInv /\ RowBounds
        BY DEF RawInv
  <2>2. ASSUME NEW k \in 1..Len(reads)
        PROVE  /\ reads[k] \in address..(address + size - Unit(raw32))
               /\ reads[k] + Unit(raw32) <= Space
               /\ DumpHasEnd =>
                    Cardinality({m \in 1..Len(reads) : reads[m] = reads[k]}) <= 2
    <3>1. PICK u \in Nat : /\ reads[k] = address + u * Unit(raw32)
                           /\ u * Unit(raw32) + Unit(raw32) <= size
          BY <2>1, <2>2 DEF ReadsInv
    <3> DEFINE b == u * Unit(raw32)
               n == Unit(raw32)
    <3>2. b \in Nat /\ n \in Nat
          BY UnitFacts
    <3>3. reads[k] = address + b /\ b + n <= size /\ address + size <= Space
          /\ address \in Nat /\ size \in Nat /\ Space \in Nat
          BY <2>1, <3>1, RawAssumption DEF RowBounds, TypeOK
    <3> HIDE DEF b, n
    <3>4. reads[k] \in address..(address + size - n) /\ reads[k] + n <= Space
          BY <3>2, <3>3
    <3>5. ASSUME DumpHasEnd
          PROVE  Cardinality({m \in 1..Len(reads) : reads[m] = reads[k]}) <= 2
      <4>1. {m \in 1..Len(reads) : reads[m] = reads[k]} = Times(u)
            BY <3>1 DEF Times
      <4>2. Cardinality(Times(u)) <= Passes(u)
            BY <2>1, <3>5 DEF ReadsInv
      <4>3. Passes(u) \in 0..2
            BY DEF Passes
      <4>4. Cardinality(Times(u)) \in Nat
        <5>1. Len(reads) \in Nat
              BY DEF TypeOK
        <5>2. QED BY <5>1, TimesIsFinite DEF Times
      <4>5. \A c \in Nat : \A p \in 0..2 : c <= p => c <= 2
            OBVIOUS
      <4>6. Cardinality(Times(u)) <= 2
            BY <4>2, <4>3, <4>4, <4>5
      <4>7. QED BY <4>1, <4>6
    <3>6. QED BY <3>4, <3>5 DEF n
  <2>3. raw32 /\ size = WordBytes => Len(reads) <= 1
    <3>1. reads = <<>> => Len(reads) <= 1
          OBVIOUS
    <3>2. raw32 /\ size = WordBytes => reads = <<>> \/ Len(reads) = 1
          BY <2>1 DEF ReadsInv
    <3>3. Len(reads) = 1 => Len(reads) <= 1
          OBVIOUS
    <3>4. QED BY <3>1, <3>2, <3>3
  <2>4. QED BY <2>2, <2>3
<1>2. QED BY <1>1, RawHolds, PTL
=============================================================================
