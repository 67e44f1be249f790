---------------------------- MODULE XipBootProofs ----------------------------
(***************************************************************************)
(* The images of XipBoot use the cache as XipCache lets a program use it,  *)
(* so that what is proved of the cache holds of them; and the invariants   *)
(* of their own.  For every cache geometry, program and number of rounds;  *)
(* what the verifier finds, for every cache of more than five lines.       *)
(***************************************************************************)
EXTENDS XipBoot, XipCacheProofs

\* Until the set-up the cache is as at power-on.
Untouched == pc \in {"poll", "clear", "delay", "returned", "setup"} =>
  /\ tags = [i \in Lines |-> NoPage] /\ owner = "cpu" /\ icindex = 0
  /\ icadrms = NoPage /\ callback = "off" /\ instr = [x \in Contexts |-> None]

Typed == /\ step \in Nat /\ uart \in {"none", "magic", "other"} /\ held \in {"none", "magic", "other"}
             /\ pc \in {"poll", "clear", "delay", "returned", "setup", "script", "main", "halt"}

-----------------------------------------------------------------------------
(* Every read of a script is an instruction of the window.                 *)

LEMMA PagingTestReads ==
  ASSUME NEW k \in 1..Len(PagingTest), PagingTest[k].do \in {"load", "check"}
  PROVE  /\ PagingTest[k].code = NoPage
         /\ PagingTest[k].page \in {0, 1, 2, 4, 5, NumLines}
<1>1. Len(PagingTest) = 20
  BY DEF PagingTest
<1>2. CASE k \in 1..7
  BY <1>2 DEF PagingTest, Read, Load, Check, Say, EvictionTarget
<1>3. CASE k \in 8..13
  BY <1>3 DEF PagingTest, Read, Load, Check, Say, EvictionTarget
<1>4. CASE k \in 14..20
  BY <1>4 DEF PagingTest, Read, Load, Check, Say, EvictionTarget
<1>. QED  BY <1>1, <1>2, <1>3, <1>4

LEMMA CopyDataReads ==
  ASSUME NEW k \in 1..Len(CopyData)
  PROVE  CopyData[k].code = 0 /\ CopyData[k].page \in DataFirst..DataLast
<1>1. DataFirst \in Nat /\ DataLast \in Nat /\ DataFirst <= DataLast
  BY BootAssumption, XipAssumption
<1>2. DataLast - DataFirst + 1 \in Nat
  BY <1>1
<1>3. Len(CopyData) = DataLast - DataFirst + 1
  BY <1>2 DEF CopyData
<1>. QED  BY <1>1, <1>3 DEF CopyData, Load

LEMMA ReadIsInstruction ==
  ASSUME Typed, ScriptRead
  PROVE  \E i \in Instructions : Issue(i)
<1>1. /\ step + 1 \in 1..Len(Script)
      /\ Now.do \in {"load", "check"} /\ Issue([code |-> Now.code, data |-> Now.page])
  BY DEF ScriptRead, InScript, Typed
<1>2. Now.code \in Pages \cup {NoPage} /\ Now.page \in Pages
  <2>1. CASE image = "test"
    BY <1>1, <2>1, PagingTestReads, BootAssumption DEF Now, Script
  <2>2. CASE image = "dump"
    BY <1>1, <2>2, BootAssumption DEF Now, Script, Read, Load
  <2>3. CASE image \notin {"test", "dump"}
    BY <1>1, <2>3, CopyDataReads, BootAssumption DEF Now, Script
  <2>. QED  BY <2>1, <2>2, <2>3
<1>. QED  BY <1>1, <1>2 DEF Instructions

-----------------------------------------------------------------------------
LEMMA StartUntouched == BootInit => Untouched /\ Typed
  BY DEF BootInit, Init, Untouched, Typed

\* A core at rest with nothing to execute neither retires nor misses.
LEMMA NothingRuns ==
  ASSUME callback = "off", instr = [x \in Contexts |-> None]
  PROVE  ~Retire /\ ~Miss /\ ~Callback
  BY DEF Retire, Miss, Callback, Unlock, Fill, Select, Validate, Running, Contexts, None, Hit

LEMMA UntouchedStep ==
  ASSUME Untouched, Typed, [BootNext]_bootVars
  PROVE  Untouched' /\ Typed'
<1> USE DEF Untouched, Typed
<1>1. CASE Poll \/ Clear \/ Delay \/ \E c \in {"magic", "other"} : Arrive(c)
  <2>1. UNCHANGED vars /\ step' = step /\ pc \in {"poll", "clear", "delay"}
    BY <1>1 DEF Poll, Clear, Delay, Arrive
  <2>2. pc' \in {"poll", "clear", "delay", "returned", "setup"} /\ uart' \in {"none", "magic", "other"} /\ held' \in {"none", "magic", "other"}
    BY <1>1 DEF Poll, Clear, Delay, Arrive
  <2>. QED  BY <2>1, <2>2 DEF vars, cache
<1>2. CASE Setup
  BY <1>2 DEF Setup, stage
<1>3. CASE ScriptRead
  BY <1>3 DEF ScriptRead, InScript, boot, stage
<1>4. CASE Verdict \/ ScriptEnd
  BY <1>4 DEF Verdict, ScriptEnd, InScript, stage
<1>5. CASE Core
  <2>1. pc \notin {"poll", "clear", "delay", "returned", "setup"}
    BY <1>5, NothingRuns DEF Core, BootRetire, BootMiss, BootCallback
  <2>. QED  BY <1>5, <2>1 DEF Core, BootRetire, BootMiss, BootCallback, boot, stage
<1>6. CASE MainStep \/ (\E i \in Instructions : Program(i))
             \/ (\E p \in ProgramPages : UsbInterrupt(p))
  BY <1>6 DEF MainStep, Program, UsbInterrupt, DoneByMain, MainOrder, boot, stage
<1>7. CASE UNCHANGED bootVars
  BY <1>7 DEF bootVars, boot, stage, vars, cache
<1>. QED  BY <1>1, <1>2, <1>3, <1>4, <1>5, <1>6, <1>7 DEF BootNext, Listening, Scripted

\* A step of an image is a step of the cache, or leaves it alone.
LEMMA StepUsesCache ==
  ASSUME Untouched, Typed, [BootNext]_bootVars
  PROVE  [Next]_vars
<1>1. CASE Poll \/ Clear \/ Delay \/ Verdict \/ ScriptEnd \/ MainStep
             \/ \E c \in {"magic", "other"} : Arrive(c)
  BY <1>1 DEF Poll, Clear, Delay, Verdict, ScriptEnd, MainStep, Arrive
<1>2. CASE Setup
  <2>1. /\ pc = "setup" /\ tags' = [tags EXCEPT ![icindex] = NoPage]
        /\ owner' = "cpu" /\ icindex' = 0 /\ icadrms' = NoPage
        /\ UNCHANGED <<sram, callback, instr, last, interrupts>>
    BY <1>2 DEF Setup
  <2>2. /\ tags = [i \in Lines |-> NoPage] /\ owner = "cpu" /\ icindex = 0
        /\ icadrms = NoPage
    BY <2>1 DEF Untouched
  <2>3. tags' = tags
    BY <2>1, <2>2
  <2>. QED  BY <2>1, <2>2, <2>3 DEF vars, cache
<1>3. CASE ScriptRead
  BY <1>3, ReadIsInstruction DEF Next
<1>4. CASE Core
  BY <1>4 DEF Core, BootRetire, BootMiss, BootCallback, Next, Step
<1>5. CASE (\E i \in Instructions : Program(i)) \/ (\E p \in ProgramPages : UsbInterrupt(p))
  BY <1>5, BootAssumption DEF Program, UsbInterrupt, Next
<1>6. CASE UNCHANGED bootVars
  BY <1>6 DEF bootVars
<1>. QED  BY <1>1, <1>2, <1>3, <1>4, <1>5, <1>6 DEF BootNext, Listening, Scripted

(* What the images do to the cache is what XipCache lets a program do: most *)
(* of their steps are its actions, and the set-up of stage1 or of the       *)
(* verifier changes nothing, the cache being as at power-on.                *)
LEMMA BootUsesCache == BootSpec => Spec
<1>1. BootInit => Init
  BY DEF BootInit
<1>. QED  BY <1>1, StartUntouched, UntouchedStep, StepUsesCache, PTL
          DEF BootSpec, Spec

(* So their accesses read the flash, if it can be read.                    *)
THEOREM BootIsTransparent == ASSUME ~DmaFails PROVE BootSpec => ImplementsWindow
  BY BootUsesCache, Transparent, PTL

-----------------------------------------------------------------------------
(* A magic byte heard before the last delay is never followed by a boot.   *)
THEOREM MagicStops == BootSpec => []MagicStopsBoot
<1> DEFINE Heard == /\ round \in Nat
                    /\ heard => pc \in {"poll", "clear", "delay", "returned"}
                    /\ heard /\ pc \in {"poll", "delay"} => uart = "magic"
                    /\ heard /\ pc = "clear" => held = "magic"
                    /\ heard /\ pc = "delay" => round + 1 < Rounds
<1>1. BootInit => Heard
  BY DEF BootInit
<1>2. ASSUME Heard, [BootNext]_bootVars PROVE Heard'
  <2>1. CASE \E c \in {"magic", "other"} : Arrive(c)
    <3>1. CASE pc = "clear"
      <4>1. UNCHANGED <<pc, round, held, heard>>
        BY <2>1, <3>1 DEF Arrive
      <4>. QED  BY <1>2, <3>1, <4>1
    <3>2. /\ pc \in {"poll", "clear", "delay"} /\ UNCHANGED <<pc, round, held>>
          /\ pc # "clear" /\ heard' =>
               uart' = "magic" /\ (heard \/ pc = "poll" \/ round + 1 < Rounds)
      BY <2>1 DEF Arrive
    <3>3. CASE pc # "clear"
      BY <1>2, <3>2, <3>3
    <3>. QED  BY <3>1, <3>3
  <2>2. CASE Poll
    BY <1>2, <2>2 DEF Poll
  <2>3. CASE Delay
    BY <1>2, <2>3, BootAssumption DEF Delay, NextRound, LastRound
  <2>7. CASE Clear
    BY <1>2, <2>7 DEF Clear
  <2>4. CASE Scripted \/ MainStep
    BY <1>2, <2>4 DEF Scripted, Setup, ScriptRead, Verdict, ScriptEnd, MainStep, InScript,
                      boot, stage
  <2>5. CASE Core \/ (\E i \in Instructions : Program(i))
               \/ (\E p \in ProgramPages : UsbInterrupt(p))
    BY <1>2, <2>5 DEF Core, BootRetire, BootMiss, BootCallback, Program, UsbInterrupt,
                      boot, stage
  <2>6. CASE UNCHANGED bootVars
    BY <1>2, <2>6 DEF bootVars, boot, stage
  <2>. QED  BY <1>2, <2>1, <2>2, <2>3, <2>4, <2>5, <2>6, <2>7 DEF BootNext, Listening
<1>3. Heard => MagicStopsBoot
  BY DEF MagicStopsBoot
<1>. QED  BY <1>1, <1>2, <1>3, PTL DEF BootSpec

-----------------------------------------------------------------------------
(* The cache's registers and the images' variables keep their types; the   *)
(* rounds do not overrun.                                                  *)
THEOREM BootTypeCorrect == BootSpec => []BootTypeOK
<1> DEFINE Flags == heard \in BOOLEAN /\ copied \in BOOLEAN /\ passed \in BOOLEAN
           Rest == /\ image \in Images
                   /\ pc \in {"poll", "clear", "delay", "returned", "setup", "script", "main", "halt"}
                   /\ uart \in {"none", "magic", "other"} /\ held \in {"none", "magic", "other"}
                   /\ round \in Nat /\ round <= Rounds
                   /\ pc \in {"poll", "clear", "delay"} => round < Rounds
                   /\ step \in Nat /\ errors \in Nat
<1>1. BootInit => Flags
  BY DEF BootInit
<1>2. BootInit => Rest
  <2> SUFFICES ASSUME BootInit PROVE Rest
    OBVIOUS
  <2>1. round = 0 /\ step = 0 /\ errors = 0 /\ uart = "none" /\ held = "none" /\ image \in Images
    BY DEF BootInit
  <2>2. pc \in {"poll", "setup"}
    BY DEF BootInit
  <2>. QED  BY <2>1, <2>2, BootAssumption
<1>3. ASSUME Flags, [BootNext]_bootVars PROVE Flags'
  <2>1. heard' \in BOOLEAN
    BY <1>3 DEF BootNext, Listening, Scripted, Core, Arrive, Poll, Clear, Delay, Setup, ScriptRead,
                Verdict, ScriptEnd, BootRetire, BootMiss, BootCallback, MainStep, Program,
                UsbInterrupt, bootVars, boot, stage
  <2>2. copied' \in BOOLEAN
    BY <1>3 DEF BootNext, Listening, Scripted, Core, Arrive, Poll, Clear, Delay, Setup, ScriptRead,
                Verdict, ScriptEnd, BootRetire, BootMiss, BootCallback, MainStep, Program,
                UsbInterrupt, bootVars, boot
  <2>3. passed' \in BOOLEAN
    BY <1>3 DEF BootNext, Listening, Scripted, Core, Arrive, Poll, Clear, Delay, Setup, ScriptRead,
                Verdict, ScriptEnd, BootRetire, BootMiss, BootCallback, MainStep, Program,
                UsbInterrupt, bootVars, boot, verifier
  <2>. QED  BY <2>1, <2>2, <2>3
<1>4. ASSUME Rest, [BootNext]_bootVars PROVE Rest'
  <2>1. CASE \E c \in {"magic", "other"} : Arrive(c)
    BY <1>4, <2>1 DEF Arrive, verifier
  <2>2. CASE Poll \/ Clear
    BY <1>4, <2>2 DEF Poll, Clear, verifier
  <2>3. CASE Delay
    BY <1>4, <2>3, BootAssumption DEF Delay, NextRound, LastRound, verifier
  <2>4. CASE Setup \/ Verdict \/ ScriptEnd \/ MainStep
    BY <1>4, <2>4 DEF Setup, Verdict, ScriptEnd, MainStep, InScript, stage, verifier
  <2>5. CASE BootRetire
    BY <1>4, <2>5 DEF BootRetire, stage
  <2>6. CASE ScriptRead \/ BootMiss \/ BootCallback \/ (\E i \in Instructions : Program(i))
               \/ (\E p \in ProgramPages : UsbInterrupt(p))
    BY <1>4, <2>6 DEF ScriptRead, BootMiss, BootCallback, Program, UsbInterrupt,
                      boot, stage, verifier
  <2>7. CASE UNCHANGED bootVars
    BY <1>4, <2>7 DEF bootVars, boot, stage, verifier
  <2>. QED  BY <1>4, <2>1, <2>2, <2>3, <2>4, <2>5, <2>6, <2>7
            DEF BootNext, Listening, Scripted, Core
<1>5. BootSpec => []TypeOK
  BY BootUsesCache, TypeCorrect, PTL
<1>6. TypeOK /\ Flags /\ Rest => BootTypeOK
  BY BootAssumption DEF BootTypeOK
<1>. QED  BY <1>1, <1>2, <1>3, <1>4, <1>5, <1>6, PTL DEF BootSpec

-----------------------------------------------------------------------------
(* The handler runs only in a main() that has done all three steps.        *)
Handling == /\ instr["isr"] # None => pc = "main" /\ step = 3
            /\ pc = "main" => copied /\ step \in 0..3

LEMMA HandlingStep ==
  ASSUME TypeOK, Typed, Handling, [BootNext]_bootVars
  PROVE  Handling'
<1> USE DEF Handling
<1>1. CASE Listening \/ \E c \in {"magic", "other"} : Arrive(c)
  <2>1. instr' = instr /\ pc \in {"poll", "clear", "delay"} /\ pc' # "main"
    BY <1>1 DEF Listening, Poll, Clear, Delay, Arrive, vars, Typed
  <2>. QED  BY <2>1
<1>2. CASE Scripted
  <2>1. CASE ScriptRead
    BY <2>1 DEF ScriptRead, InScript, Issue, boot, TypeOK, Contexts
  <2>2. CASE Setup \/ Verdict
    BY <2>2 DEF Setup, Verdict, InScript, vars
  <2>3. CASE ScriptEnd
    <3>1. instr' = instr /\ pc = "script" /\ step' = 0 /\ (pc' = "main" => copied')
      BY <2>3 DEF ScriptEnd, vars
    <3>. QED  BY <3>1
  <2>. QED  BY <1>2, <2>1, <2>2, <2>3 DEF Scripted
<1>3. CASE Core
  <2>1. CASE BootRetire
    <3>1. instr'["isr"] # None => instr["isr"] # None
      BY <2>1 DEF BootRetire, Retire, Running, TypeOK, Contexts
    <3>2. pc' = pc /\ copied' = copied /\ (pc # "script" => step' = step)
      BY <2>1 DEF BootRetire, stage
    <3>. QED  BY <3>1, <3>2
  <2>2. CASE BootMiss \/ BootCallback
    BY <2>2 DEF BootMiss, BootCallback, Miss, Callback, Unlock, Fill, Select, Validate,
                boot, stage
  <2>. QED  BY <1>3, <2>1, <2>2 DEF Core
<1>4. CASE MainStep
  <2>1. instr' = instr /\ instr["isr"] = None /\ pc' = pc /\ copied' = copied
    BY <1>4 DEF MainStep, vars
  <2>2. step < 3 /\ step' = step + 1 /\ pc = "main"
    BY <1>4 DEF MainStep, MainOrder
  <2>. QED  BY <2>1, <2>2
<1>5. CASE \E i \in Instructions : Program(i)
  BY <1>5 DEF Program, Issue, boot, TypeOK, Contexts
<1>6. CASE \E p \in ProgramPages : UsbInterrupt(p)
  <2>1. "enable" \in DoneByMain => pc = "main" /\ step = 3
    BY DEF DoneByMain, MainOrder
  <2>. QED  BY <1>6, <2>1 DEF UsbInterrupt, Interrupt, boot, TypeOK, Contexts
<1>7. CASE UNCHANGED bootVars
  BY <1>7 DEF bootVars, boot, vars
<1>. QED  BY <1>1, <1>2, <1>3, <1>4, <1>5, <1>6, <1>7 DEF BootNext

(* The USB handler finds its code in RAM and its vector in place, however  *)
(* early the first interrupt comes.                                        *)
THEOREM HandlerIsReady == BootSpec => []HandlerIsThere
<1>1. BootInit => Handling
  BY DEF BootInit, Init, Handling, Contexts
<1>2. BootSpec => []TypeOK
  BY BootUsesCache, TypeCorrect, PTL
<1>3. Handling => HandlerIsThere
  BY DEF Handling, HandlerIsThere, DoneByMain, MainOrder
<1>. QED  BY <1>1, <1>2, <1>3, HandlingStep, StartUntouched, UntouchedStep, PTL DEF BootSpec

-----------------------------------------------------------------------------
(* The verifier, on a cache where pages 0 to 5 have a line each.           *)

\* After k steps of PagingTest: the page each line holds, and the pages
\* missed since the last verdict.
HeldIn(k, i) ==
  CASE i = 1 /\ k >= 1            -> 1
    [] i = 2 /\ k >= 9            -> 2
    [] i = 4 /\ k >= 11           -> 4
    [] i = 5 /\ k >= 12           -> 5
    [] i = 0 /\ k \in {16, 17}    -> EvictionTarget
    [] i = 0 /\ k \in (5..15) \cup (18..20) -> 0
    [] OTHER                      -> NoPage
Held(k) == [i \in Lines |-> HeldIn(k, i)]

Misses(k) == CASE k \in {1, 2}   -> <<1>>
               [] k \in {5, 6}   -> <<0>>
               [] k = 9          -> <<2>>
               [] k = 11         -> <<4>>
               [] k = 12         -> <<4, 5>>
               [] k \in {16, 17} -> <<EvictionTarget>>
               [] k = 18         -> <<EvictionTarget, 0>>
               [] OTHER          -> << >>

\* The tests that have had their verdict.
Given(k) == CASE k < 3        -> 0
              [] k \in 3..6   -> 1
              [] k \in 7..9   -> 2
              [] k \in 10..12 -> 3
              [] k \in 13..18 -> 4
              [] OTHER        -> 5
Verdicts(k) == {[test |-> t, missed |-> Named[t], fail |-> FALSE] : t \in 1..Given(k)}

Reading(k) == k < 20 /\ PagingTest[k + 1].do \in {"load", "check"}
PageOf(k) == PagingTest[k + 1].page

\* Before the step's access, or without one; while its page is fetched;
\* with the page there, before the instruction is through.
Before(k) == /\ callback = "off" /\ owner = "cpu" /\ tags = Held(k) /\ missed = Misses(k)
             /\ instr["main"] # None => Reading(k)
Fetching(k) == /\ callback # "off" /\ missed = Misses(k + 1)
               /\ Reading(k) /\ instr["main"] # None
               /\ icadrms = PageOf(k)
               /\ \A i \in Lines \ {LineOf(PageOf(k))} : tags[i] = Held(k)[i]
Fetched(k) == /\ callback = "off" /\ owner = "cpu"
              /\ tags = Held(k + 1) /\ missed = Misses(k + 1)
              /\ Reading(k) /\ instr["main"] # None

AtStep == /\ step \in 0..20
          /\ results = Verdicts(step)
          /\ passed <=> step = 20
          /\ instr["main"] # None => instr["main"] = [code |-> NoPage, data |-> PageOf(step)]
          /\ Before(step) \/ Fetching(step) \/ Fetched(step)

\* What the verifier has seen, at each place of its run.
Verifying == image = "test" =>
  /\ pc \in {"setup", "script", "halt"}
  /\ pc # "halt" => errors = 0
  /\ pc = "setup" => step = 0 /\ missed = << >> /\ results = {} /\ ~passed
  /\ pc = "script" => AtStep
  /\ pc = "halt" => passed /\ results = Verdicts(20)

\* The lines of the verifier's pages.
LEMMA LinesOfTest ==
  ASSUME NumLines > 5
  PROVE  /\ \A p \in 0..5 : LineOf(p) = p /\ p \in Lines
         /\ LineOf(EvictionTarget) = 0
         /\ {0, 1, 2, 4, 5, EvictionTarget} \subseteq Pages
<1>1. NumLines \in Nat
  BY XipAssumption
<1>2. \A p \in 0..5 : p % NumLines = p
  BY <1>1
<1>3. NumLines % NumLines = 0
  BY <1>1
<1>. QED  BY <1>1, <1>2, <1>3, BootAssumption DEF LineOf, Lines, EvictionTarget

\* The accesses of PagingTest.
LEMMA ReadsOfTest ==
  ASSUME NEW k \in 0..19, Reading(k)
  PROVE  \/ k \in {0, 1, 5, 7} /\ PageOf(k) = 1
         \/ k \in {4, 14, 17} /\ PageOf(k) = 0
         \/ k = 8 /\ PageOf(k) = 2
         \/ k = 10 /\ PageOf(k) = 4
         \/ k = 11 /\ PageOf(k) = 5
         \/ k \in {15, 16} /\ PageOf(k) = EvictionTarget
<1> USE DEF Reading, PageOf, PagingTest, Read, Load, Check, Say
<1>1. CASE k \in 0..6
  BY <1>1
<1>2. CASE k \in 7..12
  BY <1>2
<1>3. CASE k \in 13..19
  BY <1>3
<1>. QED  BY <1>1, <1>2, <1>3

\* The lines of PagingTest that read nothing.
LEMMA LinesOfText ==
  ASSUME NEW k \in 0..19, ~Reading(k)
  PROVE  LET n == PagingTest[k + 1] IN
         \/ k \in {2, 6, 18} /\ n.do = "verdict" /\ n.page = Given(k) + 1
         \/ k \in {9, 12} /\ n.do = "done" /\ n.page = Given(k) + 1
         \/ k \in {3, 13} /\ n.do = "clear"
         \/ k = 19 /\ n.do = "all"
<1> USE DEF Reading, PagingTest, Read, Load, Check, Say, Given
<1>1. CASE k \in 0..6
  BY <1>1
<1>2. CASE k \in 7..12
  BY <1>2
<1>3. CASE k \in 13..19
  BY <1>3
<1>. QED  BY <1>1, <1>2, <1>3

\* An access leaves its page in its line, and the other lines alone; it
\* misses if the page was not there.
LEMMA AccessAdvances ==
  ASSUME NumLines > 5, NEW k \in 0..19, Reading(k)
  PROVE  /\ PageOf(k) \in Pages /\ LineOf(PageOf(k)) \in Lines
         /\ Held(k + 1) = [Held(k) EXCEPT ![LineOf(PageOf(k))] = PageOf(k)]
         /\ Misses(k + 1) = IF Held(k)[LineOf(PageOf(k))] = PageOf(k) THEN Misses(k)
                            ELSE Append(Misses(k), PageOf(k))
         /\ Given(k + 1) = Given(k)
<1> DEFINE p == PageOf(k)
           l == LineOf(p)
<1>1. /\ p \in Pages /\ l \in Lines /\ l = (IF p = EvictionTarget THEN 0 ELSE p)
      /\ l \in {0, 1, 2, 4, 5}
  BY ReadsOfTest, LinesOfTest DEF EvictionTarget
<1>2. \A i \in Lines : Held(k + 1)[i] = IF i = l THEN p ELSE Held(k)[i]
  BY ReadsOfTest, <1>1 DEF Held, HeldIn, EvictionTarget
<1>3. Held(k + 1) = [Held(k) EXCEPT ![l] = p]
  <2>1. /\ Held(k) = [i \in Lines |-> Held(k)[i]]
        /\ Held(k + 1) = [i \in Lines |-> Held(k + 1)[i]]
    BY DEF Held
  <2>. QED  BY <1>1, <1>2, <2>1
<1>4. NoPage # p /\ 0 # EvictionTarget
  BY <1>1, XipAssumption DEF EvictionTarget
<1>5. Held(k)[l] = p <=> k \in {1, 5, 7, 14, 16}
  <2>1. CASE k \in {0, 1, 5, 7}
    BY <2>1, ReadsOfTest, <1>1, <1>4 DEF Held, HeldIn, EvictionTarget
  <2>2. CASE k \in {4, 14, 17}
    BY <2>2, ReadsOfTest, <1>1, <1>4 DEF Held, HeldIn, EvictionTarget
  <2>3. CASE k \in {8, 10, 11}
    BY <2>3, ReadsOfTest, <1>1, <1>4 DEF Held, HeldIn, EvictionTarget
  <2>4. CASE k \in {15, 16}
    BY <2>4, ReadsOfTest, <1>1, <1>4 DEF Held, HeldIn, EvictionTarget
  <2>. QED  BY <2>1, <2>2, <2>3, <2>4, ReadsOfTest
<1>6. Given(k + 1) = Given(k)
  BY ReadsOfTest DEF Given
<1>7. CASE k \in {1, 5, 7, 14, 16}
  <2>1. Misses(k + 1) = Misses(k)
    BY <1>7, ReadsOfTest DEF Misses
  <2>. QED  BY <1>1, <1>3, <1>5, <1>6, <1>7, <2>1
<1>8. CASE k \notin {1, 5, 7, 14, 16}
  <2>1. Misses(k + 1) = Append(Misses(k), p)
    <3>1. CASE k \in {0, 4, 8, 10}
      <4>1. Misses(k) = << >> /\ Misses(k + 1) = <<p>>
        BY <3>1, ReadsOfTest DEF Misses
      <4>. QED  BY <4>1
    <3>2. CASE k = 11
      <4>1. Misses(k) = <<4>> /\ Misses(k + 1) = <<4, 5>> /\ p = 5
        BY <3>2, ReadsOfTest DEF Misses
      <4>. QED  BY <4>1
    <3>3. CASE k = 15
      <4>1. Misses(k) = << >> /\ Misses(k + 1) = <<p>>
        BY <3>3, ReadsOfTest DEF Misses
      <4>. QED  BY <4>1
    <3>4. CASE k = 17
      <4>1. Misses(k) = <<EvictionTarget>> /\ Misses(k + 1) = <<EvictionTarget, 0>> /\ p = 0
        BY <3>4, ReadsOfTest DEF Misses
      <4>. QED  BY <4>1
    <3>. QED  BY <1>8, <3>1, <3>2, <3>3, <3>4, ReadsOfTest
  <2>. QED  BY <1>1, <1>3, <1>5, <1>6, <1>8, <2>1
<1>. QED  BY <1>7, <1>8

\* A line of text leaves the cache alone; a verdict is that of the next test,
\* and its misses are those the test is named for.
LEMMA TextAdvances ==
  ASSUME NEW k \in 0..19, ~Reading(k)
  PROVE  LET n == PagingTest[k + 1] IN
         /\ Held(k + 1) = Held(k)
         /\ n.do \in {"verdict", "done"} =>
              /\ Misses(k + 1) = << >> /\ Misses(k) = Named[n.page]
              /\ Given(k + 1) = n.page /\ n.page = Given(k) + 1
         /\ n.do \notin {"verdict", "done"} =>
              Misses(k + 1) = Misses(k) /\ Given(k + 1) = Given(k)
         /\ n.do = "all" <=> k = 19
<1> DEFINE n == PagingTest[k + 1]
<1>1. \A i \in Lines : Held(k + 1)[i] = Held(k)[i]
  BY LinesOfText DEF Held, HeldIn
<1>2. Held(k + 1) = Held(k)
  BY <1>1 DEF Held
<1>3. CASE k \in {2, 6, 9, 12, 18}
  <2>1. /\ n.do \in {"verdict", "done"} /\ n.page = Given(k) + 1
        /\ Misses(k + 1) = << >> /\ Given(k + 1) = n.page
    BY <1>3, LinesOfText DEF Misses, Given
  <2>2. Misses(k) = Named[n.page]
    <3>1. CASE k = 2
      BY <2>1, <3>1 DEF Misses, Given, Named
    <3>2. CASE k = 6
      BY <2>1, <3>2 DEF Misses, Given, Named
    <3>3. CASE k = 9
      BY <2>1, <3>3 DEF Misses, Given, Named
    <3>4. CASE k = 12
      BY <2>1, <3>4 DEF Misses, Given, Named
    <3>5. CASE k = 18
      BY <2>1, <3>5 DEF Misses, Given, Named, EvictionTarget
    <3>. QED  BY <1>3, <3>1, <3>2, <3>3, <3>4, <3>5
  <2>. QED  BY <1>2, <1>3, <2>1, <2>2
<1>6. CASE k \in {3, 13, 19}
  <2>1. CASE k = 3
    BY <1>2, <2>1, LinesOfText DEF Misses, Given
  <2>2. CASE k = 13
    BY <1>2, <2>2, LinesOfText DEF Misses, Given
  <2>3. CASE k = 19
    BY <1>2, <2>3, LinesOfText DEF Misses, Given
  <2>. QED  BY <1>6, <2>1, <2>2, <2>3
<1>. QED  BY <1>3, <1>6, LinesOfText

-----------------------------------------------------------------------------
\* Where the verifier is, in the terms of the table.
LEMMA InTest ==
  ASSUME Verifying, Handling, image = "test", pc = "script", step < 20
  PROVE  /\ step \in 0..19 /\ Len(Script) = 20 /\ Now = PagingTest[step + 1]
         /\ Reading(step) <=> Now.do \in {"load", "check"}
         /\ Reading(step) => Now.code = NoPage /\ Now.page = PageOf(step)
         /\ instr["isr"] = None /\ Running = "main"
<1>1. step \in 0..19 /\ instr["isr"] = None
  BY DEF Verifying, AtStep, Handling
<1>2. Script = PagingTest /\ Len(PagingTest) = 20
  BY DEF Script, PagingTest
<1>3. Now = PagingTest[step + 1]
  BY <1>2 DEF Now
<1>4. Reading(step) <=> Now.do \in {"load", "check"}
  BY <1>1, <1>3 DEF Reading
<1>5. Reading(step) => Now.code = NoPage
  BY <1>1, <1>2, <1>3, <1>4, PagingTestReads
<1>. QED  BY <1>1, <1>2, <1>3, <1>4, <1>5 DEF PageOf, Running

\* The set-up enters the script with an empty cache.
LEMMA VerifierSetup ==
  ASSUME Verifying, Untouched, image = "test", Setup
  PROVE  Verifying'
<1>1. /\ pc = "setup" /\ step = 0 /\ missed = << >> /\ results = {} /\ ~passed
      /\ errors = 0
  BY DEF Verifying, Setup
<1>2. /\ pc' = "script" /\ owner' = "cpu"
      /\ UNCHANGED <<image, callback, instr, step, errors, passed, missed, results>>
  BY DEF Setup, verifier
<1>3. callback = "off" /\ instr["main"] = None /\ tags = [i \in Lines |-> NoPage]
  BY <1>1 DEF Untouched, Contexts
<1>4. tags' = Held(0)
  <2>1. tags' = [i \in Lines |-> NoPage]
    BY <1>3 DEF Setup
  <2>2. \A i \in Lines : HeldIn(0, i) = NoPage
    BY DEF HeldIn
  <2>. QED  BY <2>1, <2>2 DEF Held
<1>5. Misses(0) = << >> /\ Verdicts(0) = {}
  BY DEF Misses, Verdicts, Given
<1>6. AtStep'
  <2>1. Before(step)'
    BY <1>1, <1>2, <1>3, <1>4, <1>5 DEF Before
  <2>. QED  BY <1>1, <1>2, <1>3, <1>5, <2>1 DEF AtStep
<1>. QED  BY <1>1, <1>2, <1>6 DEF Verifying

\* The next access of the script begins.
LEMMA VerifierRead ==
  ASSUME Verifying, Handling, TypeOK, image = "test", ScriptRead
  PROVE  Verifying'
<1>1. /\ pc = "script" /\ step < 20 /\ errors = 0 /\ AtStep
      /\ Now.do \in {"load", "check"}
  BY DEF ScriptRead, InScript, Script, PagingTest, Verifying, AtStep
<1>2. Reading(step) /\ Now.code = NoPage /\ Now.page = PageOf(step)
  BY <1>1, InTest
<1>3. /\ callback = "off" /\ instr["main"] = None
      /\ UNCHANGED <<tags, owner, callback, image, pc, step, errors, passed, missed, results>>
  BY DEF ScriptRead, Issue, cache, boot, verifier
<1>4. instr'["main"] = [code |-> NoPage, data |-> PageOf(step)]
  BY <1>2 DEF ScriptRead, Issue, TypeOK, Contexts
<1>5. Before(step)
  BY <1>1, <1>3 DEF AtStep, Fetching, Fetched
<1>6. Before(step)'
  BY <1>2, <1>3, <1>5 DEF Before
<1>. QED  BY <1>1, <1>3, <1>4, <1>6 DEF Verifying, AtStep

\* A line of text: a verdict is entered under its test.
LEMMA VerifierText ==
  ASSUME Verifying, Handling, TypeOK, image = "test", Verdict
  PROVE  Verifying'
<1> DEFINE n == PagingTest[step + 1]
<1>1. pc = "script" /\ step < 20 /\ errors = 0 /\ AtStep
  BY DEF Verdict, InScript, Script, PagingTest, Verifying, AtStep
<1>2. Now = n /\ ~Reading(step) /\ step \in 0..19
  BY <1>1, InTest DEF Verdict
<1>3. Before(step) /\ instr["main"] = None
  BY <1>1, <1>2 DEF AtStep, Before, Fetching, Fetched
<1>4. /\ step' = step + 1 /\ errors' = 0
      /\ UNCHANGED <<tags, owner, callback, instr, image, pc>>
  BY <1>1 DEF Verdict, vars, cache
<1>5. passed' <=> step' = 20
  <2>1. passed' <=> n.do = "all" /\ errors = 0
    BY <1>2 DEF Verdict
  <2>2. n.do = "all" <=> step = 19
    BY <1>2, TextAdvances
  <2>. QED  BY <1>1, <1>2, <1>4, <2>1, <2>2
<1>6. missed' = Misses(step') /\ results' = Verdicts(step')
  <2>1. CASE n.do \in {"verdict", "done"}
    <3>1. /\ results' = results \cup {[test |-> n.page, missed |-> missed, fail |-> FALSE]}
          /\ missed' = << >>
      <4>1. (n.do = "verdict" /\ errors > 0) = FALSE
        BY <1>1
      <4>2. /\ results' = results \cup {[test |-> n.page, missed |-> missed,
                                         fail |-> n.do = "verdict" /\ errors > 0]}
            /\ missed' = << >>
        BY <1>2, <2>1 DEF Verdict
      <4>. QED  BY <4>1, <4>2
    <3>2. /\ Misses(step + 1) = << >> /\ missed = Named[n.page]
          /\ Given(step + 1) = n.page /\ n.page = Given(step) + 1
      BY <1>2, <1>3, <2>1, TextAdvances DEF Before
    <3>3. Given(step) \in Nat
      BY <1>2 DEF Given
    <3>4. 1..Given(step + 1) = (1..Given(step)) \cup {n.page}
      BY <3>2, <3>3
    <3>5. results = Verdicts(step)
      BY <1>1 DEF AtStep
    <3>. QED  BY <1>4, <3>1, <3>2, <3>4, <3>5 DEF Verdicts
  <2>2. CASE n.do \notin {"verdict", "done"}
    <3>1. UNCHANGED <<results, missed>>
      BY <1>2, <2>2 DEF Verdict
    <3>2. Misses(step + 1) = Misses(step) /\ Given(step + 1) = Given(step)
      BY <1>2, <2>2, TextAdvances
    <3>. QED  BY <1>1, <1>3, <1>4, <3>1, <3>2 DEF AtStep, Before, Verdicts
  <2>. QED  BY <2>1, <2>2
<1>7. Before(step)'
  BY <1>2, <1>3, <1>4, <1>6, TextAdvances DEF Before
<1>. QED  BY <1>1, <1>2, <1>3, <1>4, <1>5, <1>6, <1>7 DEF Verifying, AtStep

\* An access completes: its page was there, or has been fetched.
LEMMA VerifierRetire ==
  ASSUME NumLines > 5, Verifying, Handling, TypeOK, TagsAreHonest, image = "test",
         pc = "script", BootRetire
  PROVE  Verifying'
<1> DEFINE p == PageOf(step)
           l == LineOf(p)
<1>1. /\ step \in 0..20 /\ errors = 0 /\ AtStep
      /\ callback = "off" /\ instr[Running] # None
  BY DEF Verifying, AtStep, BootRetire, Retire
<1>2. /\ instr["main"] = [code |-> NoPage, data |-> p] /\ Reading(step) /\ Running = "main"
      /\ step \in 0..19
  <2>1. Running = "main"
    BY DEF Running, Handling
  <2>2. instr["main"] = [code |-> NoPage, data |-> p] /\ Reading(step)
    BY <1>1, <2>1 DEF AtStep, Before, Fetching, Fetched
  <2>. QED  BY <1>1, <2>1, <2>2 DEF Reading
<1>3. p \in Pages /\ p # NoPage /\ l \in Lines
  BY <1>2, AccessAdvances, XipAssumption
<1>4. tags[l] = p /\ sram[l] = p
  <2>1. Hit(p)
    BY <1>2 DEF BootRetire, Retire
  <2>. QED  BY <1>3, <2>1 DEF Hit, TagsAreHonest
<1>5. last' = [page |-> p, read |-> p]
  BY <1>2, <1>4 DEF BootRetire, Retire
<1>6. /\ step' = step + 1 /\ errors' = 0 /\ instr'["main"] = None
      /\ UNCHANGED <<tags, owner, callback, image, pc, passed, missed, results>>
  BY <1>1, <1>2, <1>5 DEF BootRetire, Retire, cache, TypeOK, Contexts
<1>7. tags = Held(step + 1) /\ missed = Misses(step + 1) /\ owner = "cpu"
  <2>1. CASE Before(step)
    <3>1. Held(step)[l] = p
      BY <1>4, <2>1 DEF Before
    <3>2. Held(step + 1) = Held(step) /\ Misses(step + 1) = Misses(step)
      BY <1>2, <3>1, AccessAdvances DEF Held
    <3>. QED  BY <2>1, <3>2 DEF Before
  <2>2. CASE Fetched(step)
    BY <2>2 DEF Fetched
  <2>. QED  BY <1>1, <2>1, <2>2 DEF AtStep, Fetching
<1>8. Before(step)'
  BY <1>1, <1>6, <1>7 DEF Before
<1>9. ~passed /\ step + 1 # 20
  BY <1>1, <1>2, ReadsOfTest DEF AtStep
<1>10. results = Verdicts(step + 1)
  BY <1>1, <1>2, AccessAdvances DEF AtStep, Verdicts
<1>. QED  BY <1>2, <1>6, <1>8, <1>9, <1>10 DEF Verifying, AtStep

\* An access misses: its page was not there, and has not been fetched.
LEMMA VerifierMiss ==
  ASSUME NumLines > 5, Verifying, Handling, TypeOK, image = "test",
         pc = "script", BootMiss
  PROVE  Verifying'
<1> DEFINE p == PageOf(step)
           l == LineOf(p)
<1>1. step \in 0..20 /\ errors = 0 /\ AtStep /\ callback = "off" /\ Running = "main"
  BY DEF Verifying, AtStep, BootMiss, Miss, Running, Handling
<1>2. instr["main"] # None
  BY <1>1 DEF BootMiss, Miss, Hit, None
<1>3. /\ instr["main"] = [code |-> NoPage, data |-> p] /\ Reading(step) /\ step \in 0..19
      /\ owner = "cpu"
  BY <1>1, <1>2 DEF AtStep, Before, Fetching, Fetched, Reading
<1>4. p \in Pages /\ l \in Lines
  BY <1>3, AccessAdvances
<1>5. tags[l] # p /\ icadrms' = p
  BY <1>1, <1>3 DEF BootMiss, Miss, Hit
<1>6. Before(step)
  <2>1. Held(step + 1)[l] = p
    BY <1>3, <1>4, AccessAdvances DEF Held
  <2>. QED  BY <1>1, <1>5, <2>1 DEF AtStep, Fetching, Fetched
<1>7. missed' = Misses(step + 1)
  BY <1>3, <1>5, <1>6, AccessAdvances DEF BootMiss, Before
<1>8. /\ callback' = "unlock"
      /\ UNCHANGED <<tags, instr, image, pc, step, errors, passed, results>>
  BY DEF BootMiss, Miss, cache
<1>9. Fetching(step)'
  BY <1>2, <1>3, <1>5, <1>6, <1>7, <1>8 DEF Before, Fetching
<1>. QED  BY <1>1, <1>3, <1>8, <1>9 DEF Verifying, AtStep

\* The callback fetches the page.
LEMMA VerifierFetch ==
  ASSUME NumLines > 5, Verifying, Handling, TypeOK, CallbackInv, image = "test",
         pc = "script", BootCallback
  PROVE  Verifying'
<1> DEFINE p == PageOf(step)
           l == LineOf(p)
<1>1. /\ AtStep /\ callback # "off"
      /\ UNCHANGED <<instr, icadrms, image, pc, step, errors, passed, missed, results>>
  BY DEF Verifying, BootCallback, Callback, Unlock, Fill, Select, Validate, boot, verifier
<1>2. Fetching(step) /\ step \in 0..19
  BY <1>1 DEF AtStep, Before, Fetched, Fetching, Reading
<1>3. icadrms = p /\ l \in Lines /\ Reading(step)
  BY <1>2, AccessAdvances DEF Fetching
<1>4. Fetching(step)' \/ Fetched(step)'
  <2>1. CASE Unlock
    <3>1. tags' = [tags EXCEPT ![l] = NoPage] /\ callback' # "off"
      BY <1>3, <2>1 DEF Unlock
    <3>2. \A i \in Lines \ {l} : tags'[i] = Held(step)[i]
      BY <1>2, <3>1 DEF Fetching, TypeOK
    <3>. QED  BY <1>1, <1>2, <3>1, <3>2 DEF Fetching
  <2>2. CASE Fill \/ Select
    <3>1. tags' = tags /\ callback' # "off"
      BY <2>2 DEF Fill, Select
    <3>. QED  BY <1>1, <1>2, <3>1 DEF Fetching
  <2>3. CASE Validate
    <3>1. tags' = [tags EXCEPT ![l] = p] /\ callback' = "off" /\ owner' = "cpu"
      BY <1>3, <2>3 DEF Validate, MarkValid, CallbackInv
    <3>2. tags' = Held(step + 1)
      <4>1. Held(step + 1) = [Held(step) EXCEPT ![l] = p]
        BY <1>2, <1>3, AccessAdvances
      <4>2. \A i \in Lines \ {l} : tags[i] = Held(step)[i]
        BY <1>2 DEF Fetching
      <4>3. tags = [i \in Lines |-> tags[i]] /\ Held(step) = [i \in Lines |-> Held(step)[i]]
        BY DEF TypeOK, Held
      <4>. QED  BY <1>3, <3>1, <4>1, <4>2, <4>3
    <3>. QED  BY <1>1, <1>2, <3>1, <3>2 DEF Fetching, Fetched
  <2>. QED  BY <2>1, <2>2, <2>3 DEF BootCallback, Callback
<1>. QED  BY <1>1, <1>4 DEF Verifying, AtStep

\* The listening, main() and the interrupt are not the verifier's; what is,
\* goes from one row of the table to the next.
LEMMA VerifyingStep ==
  ASSUME NumLines > 5, Untouched, Typed, Handling, TypeOK, CallbackInv, TagsAreHonest,
         Verifying, [BootNext]_bootVars
  PROVE  Verifying'
<1>1. image' = image
  BY DEF BootNext, Listening, Scripted, Core, Arrive, Poll, Clear, Delay, Setup, ScriptRead,
         Verdict, ScriptEnd, BootRetire, BootMiss, BootCallback, MainStep, Program,
         UsbInterrupt, bootVars, boot
<1>. SUFFICES ASSUME image = "test" PROVE Verifying'
  BY <1>1 DEF Verifying
<1>2. pc \in {"setup", "script", "halt"}
  BY DEF Verifying
<1>3. ~Listening /\ ~MainStep /\ (\A c \in {"magic", "other"} : ~Arrive(c))
      /\ (\A i \in Instructions : ~Program(i))
  BY <1>2 DEF Listening, Poll, Clear, Delay, Arrive, MainStep, Program
<1>4. \A p \in ProgramPages : ~UsbInterrupt(p)
  <2>1. DoneByMain = {}
    BY <1>2 DEF DoneByMain
  <2>. QED  BY <2>1 DEF UsbInterrupt
<1>5. CASE ScriptEnd
  <2>1. pc = "script" /\ step = 20
    BY <1>5 DEF ScriptEnd, Script, PagingTest
  <2>2. pc' = "halt" /\ UNCHANGED <<errors, passed, missed, results>>
    BY <1>5 DEF ScriptEnd, verifier
  <2>. QED  BY <2>1, <2>2 DEF Verifying, AtStep, Verdicts, Given
<1>6. CASE Core /\ pc # "script"
  <2>1. pc = "halt"
    BY <1>2, <1>6, NothingRuns DEF Untouched, Core, BootRetire, BootMiss, BootCallback
  <2>2. UNCHANGED <<pc, passed, results>>
    BY <1>6 DEF Core, BootRetire, BootMiss, BootCallback, boot, verifier
  <2>. QED  BY <2>1, <2>2 DEF Verifying, Verdicts, Given
<1>7. CASE UNCHANGED bootVars
  BY <1>7 DEF Verifying, AtStep, Before, Fetching, Fetched, bootVars, boot, verifier, vars, cache
<1>. QED  BY <1>3, <1>4, <1>5, <1>6, <1>7, VerifierSetup, VerifierRead, VerifierText,
             VerifierRetire, VerifierMiss, VerifierFetch DEF BootNext, Scripted, Core

(* Of a flash that can be read, with a cache where pages 0 to 5 have a     *)
(* line each, every test of inram/main.c misses on the pages it is named   *)
(* for, and the verifier ends with its line of success.                    *)
THEOREM VerifierIsRight ==
  ASSUME ~DmaFails, NumLines > 5
  PROVE  BootSpec => []VerifierTests
<1>1. BootInit => Handling /\ Verifying
  BY DEF BootInit, Init, Handling, Contexts, Verifying
<1>2. BootSpec => [](Inv /\ Contents)
  BY BootUsesCache, InvHolds, ContentsHold, PTL
<1>3. Inv /\ Contents => TypeOK /\ CallbackInv /\ TagsAreHonest
  BY DEF Inv, Contents
<1>4. Verifying => VerifierTests
  BY DEF Verifying, VerifierTests, Verdicts, Given
<1>. QED  BY <1>1, <1>2, <1>3, <1>4, HandlingStep, VerifyingStep, StartUntouched,
             UntouchedStep, PTL DEF BootSpec
=============================================================================
