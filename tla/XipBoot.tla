------------------------------- MODULE XipBoot -------------------------------
(***************************************************************************)
(* The images that set the XIP window up and run from it, on the cache of  *)
(* XipCache:                                                               *)
(*   "main"  stage1 of boot.c, which listens for the flashing tool, then   *)
(*           starts main.bin: start-up copies .data, main() arms the USB   *)
(*           interrupt, and the program goes on                            *)
(*   "jump"  inram/main.c with XIP_JUMP, which starts main.bin at once     *)
(*   "test"  inram/main.c with XIP_PAGING_TEST, the cache verifier         *)
(*   "dump"  inram/main.c otherwise, which prints the first two pages      *)
(* From power-on: no line is valid.  A test compares a page with what the  *)
(* flash holds; the bytes it reads of one page count as one access.        *)
(***************************************************************************)
EXTENDS XipCache, Sequences

CONSTANTS Images,             \* the images built
          Rounds,             \* polls of stage1, 10 in the code
          ProgramPages,       \* pages of main.bin that its instructions use
          DataFirst, DataLast \* pages that hold the initial .data

ASSUME BootAssumption ==
  /\ Images \subseteq {"main", "jump", "test", "dump"}
  /\ Rounds \in Nat \ {0}
  /\ ProgramPages \subseteq Pages
  /\ DataFirst \in Pages /\ DataLast \in Pages /\ DataFirst <= DataLast
  /\ {0, 1, 2, 4, 5, NumLines} \cup (DataFirst..DataLast) \subseteq Pages

VARIABLES
  image, pc,
  uart, round,    \* UART0DATA behind its pending bit, stage1's i
  held,           \* the byte uart0_poll has read, its pending bit not yet cleared
  heard,          \* history: a magic byte came that stage1 was still to read
  step,           \* steps done of the script, or of main()
  copied,         \* .data is in RAM, the interrupt handler with it
  errors, passed, \* the verifier's errors, and its last line
  missed,         \* history: pages missed since the last verdict
  results         \* history: the verdicts, each with the pages missed

stage == <<uart, round, held, heard>>
verifier == <<errors, passed, missed, results>>
boot == <<image, pc, stage, step, copied, verifier>>
bootVars == <<vars, boot>>

-----------------------------------------------------------------------------
(* What an image reads before its program runs, or instead of one.  The    *)
(* verifier and the dump execute from RAM.                                 *)

Load(code, p) == [do |-> "load", code |-> code, page |-> p]
Read(p) == Load(NoPage, p)
Check(p) == [do |-> "check", code |-> NoPage, page |-> p]
Say(d, t) == [do |-> d, code |-> NoPage, page |-> t]

EvictionTarget_Near == NumLines \div 2                        \* mutant
EvictionTarget == NumLines     \* page 64: offset 0x8000

\* startup_main.S, loop 1: code in page 0 reads .data.
CopyData == [k \in 1..(DataLast - DataFirst + 1) |-> Load(0, DataFirst + k - 1)]

\* 0x234, 0x200..0x23F; 0x1F8..0x207; 0x3F8..0x407; 0x9F8..0xA07; 0, 0x8000.
PagingTest ==
  << Read(1), Check(1), Say("verdict", 1),
     Say("clear", 0), Check(0), Check(1), Say("verdict", 2),
     Read(1), Read(2), Say("done", 3),
     Read(4), Read(5), Say("done", 4),
     Say("clear", 0), Read(0), Read(EvictionTarget), Check(EvictionTarget), Check(0),
     Say("verdict", 5), Say("all", 0) >>

Script == CASE image = "test" -> PagingTest
            [] image = "dump" -> << Read(0), Read(1) >>
            [] OTHER          -> CopyData

\* main(), up to the interrupt: the vector, PICADR, and bt_usb_init, which
\* ends with PICEN.  Whether PICCON was on before is the ROM's business.
MainOrder_EnableFirst == <<"enable", "vector", "picadr">>      \* mutant
MainOrder == <<"vector", "picadr", "enable">>
DoneByMain == {MainOrder[k] : k \in 1..(IF pc = "main" THEN step ELSE 0)}

-----------------------------------------------------------------------------
BootInit ==
  /\ Init
  /\ image \in Images /\ pc = IF image = "main" THEN "poll" ELSE "setup"
  /\ uart = "none" /\ round = 0 /\ held = "none" /\ heard = FALSE
  /\ step = 0 /\ copied = FALSE
  /\ errors = 0 /\ passed = FALSE /\ missed = <<>> /\ results = {}

(* stage1 and entry.                                                       *)

\* A byte reaches the UART; it may be lost to one that was not read, or
\* the other way round.  One that comes before the pending bit of the byte
\* just read is cleared is never read.
Arrive(c) ==
  /\ pc \in {"poll", "clear", "delay"}
  /\ uart' \in IF uart = "none" THEN {c} ELSE {c, uart}
  /\ heard' = IF pc = "clear" THEN heard
              ELSE uart' = "magic" /\ (heard \/ pc = "poll" \/ round + 1 < Rounds)
  /\ UNCHANGED <<vars, image, pc, round, held, step, copied, verifier>>

\* uart0_poll's test of the pending bit, and its read of UART0DATA.
Poll ==
  /\ pc = "poll"
  /\ pc' = IF uart = "none" THEN "delay" ELSE "clear"
  /\ held' = uart
  /\ UNCHANGED <<vars, image, uart, round, heard, step, copied, verifier>>

\* It clears the bit, whatever is behind it by now; the inner loop of stage1
\* returns to the ROM or polls on.
Clear ==
  /\ pc = "clear"
  /\ pc' = IF held = "magic" THEN "returned" ELSE "poll"
  /\ uart' = "none" /\ held' = "none"
  /\ UNCHANGED <<vars, image, round, heard, step, copied, verifier>>

NextRound_Stuck == round                                      \* mutant
NextRound == round + 1

LastRound_Short == round + 2 >= Rounds                        \* mutant
LastRound_Late == round = Rounds                              \* mutant
LastRound == round + 1 = Rounds

\* ROM_DELAY, and the next round.
Delay ==
  /\ pc = "delay"
  /\ round' = NextRound
  /\ pc' = IF LastRound THEN "setup" ELSE "poll"
  /\ UNCHANGED <<vars, image, uart, held, heard, step, copied, verifier>>

\* ICTAG = 0 clears the tag of whichever line ICINDEX names; ICINDEX = 0,
\* CACHCON1 = 0.
Setup ==
  /\ pc = "setup"
  /\ tags' = [tags EXCEPT ![icindex] = NoPage]
  /\ owner' = "cpu" /\ icindex' = 0 /\ icadrms' = NoPage
  /\ pc' = "script"
  /\ UNCHANGED <<sram, callback, instr, last, interrupts, image, stage, step, copied,
                 verifier>>

-----------------------------------------------------------------------------
(* The script: reads through the window, and the verifier's lines.         *)

Now == Script[step + 1]
InScript == pc = "script" /\ step < Len(Script)

ScriptRead ==
  /\ InScript /\ Now.do \in {"load", "check"}
  /\ Issue([code |-> Now.code, data |-> Now.page])
  /\ UNCHANGED boot

Verdict ==
  /\ InScript /\ Now.do \notin {"load", "check"}
  /\ errors' = IF Now.do = "clear" THEN 0 ELSE errors
  /\ passed' = (Now.do = "all" /\ errors = 0)
  /\ IF Now.do \in {"verdict", "done"}
     THEN /\ results' = results \cup {[test |-> Now.page, missed |-> missed,
                                       fail |-> Now.do = "verdict" /\ errors > 0]}
          /\ missed' = <<>>
     ELSE UNCHANGED <<results, missed>>
  /\ step' = step + 1
  /\ UNCHANGED <<vars, image, pc, stage, copied>>

\* An access completes; the script goes on, a check compares.
BootRetire ==
  /\ Retire
  /\ IF pc = "script"
     THEN /\ step' = step + 1
          /\ errors' = IF Now.do = "check" /\ last'.read # last'.page
                       THEN errors + 1 ELSE errors
     ELSE UNCHANGED <<step, errors>>
  /\ UNCHANGED <<image, pc, stage, copied, passed, missed, results>>

BootMiss ==
  /\ Miss
  /\ missed' = IF image = "test" THEN Append(missed, icadrms') ELSE missed
  /\ UNCHANGED <<image, pc, stage, step, copied, errors, passed, results>>

\* The callback of the image, boot.c's or inram/main.c's.
BootCallback == Callback /\ UNCHANGED boot

\* main.bin enters main() with .data in RAM; the others halt.
ScriptEnd ==
  /\ pc = "script" /\ step = Len(Script)
  /\ pc' = IF image \in {"main", "jump"} THEN "main" ELSE "halt"
  /\ copied' = (pc' = "main")
  /\ step' = 0
  /\ UNCHANGED <<vars, image, stage, verifier>>

-----------------------------------------------------------------------------
(* main().                                                                 *)

MainStep ==
  /\ pc = "main" /\ callback = "off" /\ instr["main"] = None /\ instr["isr"] = None
  /\ step < Len(MainOrder)
  /\ step' = step + 1
  /\ UNCHANGED <<vars, image, pc, stage, copied, verifier>>

Program(i) ==
  /\ pc = "main"
  /\ i.code \in ProgramPages /\ i.data \in ProgramPages \cup {NoPage}
  /\ Issue(i)
  /\ UNCHANGED boot

UsbInterrupt(p) ==
  /\ "enable" \in DoneByMain
  /\ Interrupt(p)
  /\ UNCHANGED boot

-----------------------------------------------------------------------------
Listening == Poll \/ Clear \/ Delay
Scripted == Setup \/ ScriptRead \/ Verdict \/ ScriptEnd
Core == BootRetire \/ BootMiss \/ BootCallback

BootNext == \/ Listening \/ Scripted \/ Core \/ MainStep
            \/ \E c \in {"magic", "other"} : Arrive(c)
            \/ \E i \in Instructions : Program(i)
            \/ \E p \in ProgramPages : UsbInterrupt(p)

BootSpec == BootInit /\ [][BootNext]_bootVars

\* The core goes on; nothing makes a host send, or an interrupt come.
FairBootSpec == BootSpec /\ WF_bootVars(Listening) /\ WF_bootVars(Scripted \/ Core)

-----------------------------------------------------------------------------
(* Properties.                                                             *)

BootTypeOK ==
  /\ TypeOK
  /\ image \in Images
  /\ pc \in {"poll", "clear", "delay", "returned", "setup", "script", "main", "halt"}
  /\ {uart, held} \subseteq {"none", "magic", "other"} /\ round \in 0..Rounds /\ heard \in BOOLEAN
  /\ step \in Nat /\ copied \in BOOLEAN
  /\ errors \in Nat /\ passed \in BOOLEAN

(* A magic byte that arrives before the last delay keeps stage1 from       *)
(* booting, unless another byte takes its place, or it arrives between the *)
(* read of another byte and the clear of that byte's pending bit.          *)
MagicStopsBoot == heard => pc \in {"poll", "clear", "delay", "returned"}

(* stage1 comes to a decision if other bytes stop coming.                  *)
BootDecides == <>[](uart # "other") => <>(pc \notin {"poll", "clear", "delay"})

(* The USB handler runs only with its code in RAM and its vector in place. *)
HandlerIsThere ==
  instr["isr"] # None => copied /\ {"vector", "picadr"} \subseteq DoneByMain

\* The misses the titles of the verifier's tests name: unaligned in page 1;
\* page 0 next to it; page 2; a double miss; eviction and return of page 0.
Named == << <<1>>, <<0>>, <<2>>, <<4, 5>>, <<NumLines, 0>> >>

(* On a flash that can be read every test exercises the miss it is named   *)
(* for, and the verifier passes.                                           *)
VerifierTests ==
  pc = "halt" /\ image = "test" =>
    passed /\ results = {[test |-> t, missed |-> Named[t], fail |-> FALSE] : t \in 1..5}

(* "ALL XIP HARDWARE TESTS PASSED!" is printed only if no test failed.     *)
PassedMeansNoneFailed == passed => \A r \in results : ~r.fail
=============================================================================
