------------------------------ MODULE XipCache ------------------------------
(***************************************************************************)
(* Execution from the XIP window: the direct-mapped cache, the miss        *)
(* exception, and the callback that fills a line, boot.c:xip_callback.     *)
(* main.bin executes from the window and reads its constants through it;   *)
(* the USB handler executes from RAM but reads the descriptors through it. *)
(*                                                                         *)
(* The callback runs inside the miss exception, which nothing preempts;    *)
(* a USB interrupt is taken between an instruction and the next, which     *)
(* may be the retry of one that missed.  The contents of a page are known  *)
(* by its number.                                                          *)
(***************************************************************************)
EXTENDS Integers

CONSTANTS NumLines,        \* cache lines, 64 in the code
          Pages,           \* page numbers of the window
          NoPage,          \* no page: a tag without the valid bit
          AliasedOperands, \* may code and data of an instruction share a line?
          DmaFails,        \* may VENDOR_DMA fail to read a page?
          MaxInterrupts    \* bound: USB interrupts in a behaviour

ASSUME XipAssumption ==
  /\ NumLines \in Nat \ {0}
  /\ Pages \subseteq Nat
  /\ NoPage \notin Pages
  /\ AliasedOperands \in BOOLEAN /\ DmaFails \in BOOLEAN
  /\ MaxInterrupts \in Nat

VARIABLES
  tags, sram,        \* tag and contents of each line
  owner,             \* who may use the SRAM: "cpu" or "dma" (CACHCON1)
  icindex, icadrms,  \* ICINDEX, page of ICADRMS
  callback,          \* where xip_callback is
  instr,             \* the pages each context's instruction still needs
  last,              \* history: the last access and what it read
  interrupts         \* counter of the bound

cache == <<tags, sram, owner, icindex>>
vars == <<cache, icadrms, callback, instr, last, interrupts>>

Lines == 0..(NumLines - 1)
Contexts == {"main", "isr"}
LineOf(p) == p % NumLines

\* An instruction: the page it is in and the page it reads, NoPage for RAM.
None == [code |-> NoPage, data |-> NoPage]
Instructions == [code : Pages \cup {NoPage}, data : Pages \cup {NoPage}]

\* Code and data in two pages of the window that share a line.
Aliased(i) == /\ i.code # i.data /\ i.code # NoPage /\ i.data # NoPage
              /\ LineOf(i.code) = LineOf(i.data)

Hit(p) == p # NoPage => owner = "cpu" /\ tags[LineOf(p)] = p

\* The handler has the core until it is through.
Running == IF instr["isr"] # None THEN "isr" ELSE "main"

Init ==
  /\ tags = [i \in Lines |-> NoPage] /\ sram = [i \in Lines |-> NoPage]
  /\ owner = "cpu" /\ icindex = 0 /\ icadrms = NoPage
  /\ callback = "off"
  /\ instr = [x \in Contexts |-> None]
  /\ last = [page |-> NoPage, read |-> NoPage]
  /\ interrupts = 0

-----------------------------------------------------------------------------
(* The program.                                                            *)

\* The main thread's next instruction that goes through the window.
Issue(i) ==
  /\ callback = "off" /\ instr["main"] = None /\ instr["isr"] = None
  /\ i # None
  /\ AliasedOperands \/ ~Aliased(i)
  /\ instr' = [instr EXCEPT !["main"] = i]
  /\ UNCHANGED <<cache, icadrms, callback, last, interrupts>>

\* A USB interrupt whose handler reads a descriptor in page p.
Interrupt(p) ==
  /\ callback = "off" /\ instr["isr"] = None
  /\ interrupts < MaxInterrupts
  /\ interrupts' = interrupts + 1
  /\ instr' = [instr EXCEPT !["isr"] = [code |-> NoPage, data |-> p]]
  /\ UNCHANGED <<cache, icadrms, callback, last>>

\* Everything the instruction needs is there: it completes.
Retire ==
  LET i == instr[Running] IN
  /\ callback = "off" /\ i # None
  /\ Hit(i.code) /\ Hit(i.data)
  /\ \E p \in {i.code, i.data} \ {NoPage} :
       last' = [page |-> p, read |-> sram[LineOf(p)]]
  /\ instr' = [instr EXCEPT ![Running] = None]
  /\ UNCHANGED <<cache, icadrms, callback, interrupts>>

\* Something is missing, the code before the data: the exception is raised
\* with the address in ICADRMS.
Miss ==
  LET i == instr[Running] IN
  /\ callback = "off"
  /\ ~(Hit(i.code) /\ Hit(i.data))
  /\ icadrms' = IF Hit(i.code) THEN i.data ELSE i.code
  /\ callback' = "unlock"
  /\ UNCHANGED <<cache, instr, last, interrupts>>

-----------------------------------------------------------------------------
(* xip_callback; then the exception returns and the instruction is tried   *)
(* again from its fetch.                                                   *)

HandOver_Skipped == owner' = owner                            \* mutant
HandOver == owner' = "dma"

\* ICINDEX, 0x10, ICTAG = 0, 0x04: the line is invalid and the DMA's.
Unlock ==
  /\ callback = "unlock"
  /\ icindex' = LineOf(icadrms)
  /\ tags' = [tags EXCEPT ![LineOf(icadrms)] = NoPage]
  /\ HandOver
  /\ callback' = "dma"
  /\ UNCHANGED <<sram, icadrms, instr, last, interrupts>>

\* VENDOR_DMA reads the page into the line's SRAM, and uses ICINDEX itself.
\* Its result is not looked at.
Fill ==
  /\ callback = "dma"
  /\ \E ok \in {TRUE, ~DmaFails} :
       sram' = IF ok /\ owner = "dma" THEN [sram EXCEPT ![LineOf(icadrms)] = icadrms]
               ELSE sram
  /\ icindex' \in Lines
  /\ callback' = "select"
  /\ UNCHANGED <<tags, owner, icadrms, instr, last, interrupts>>

Reselect_Skipped == icindex' = icindex                        \* mutant
Reselect == icindex' = LineOf(icadrms)

\* ICINDEX again ...
Select ==
  /\ callback = "select"
  /\ Reselect
  /\ callback' = "validate"
  /\ UNCHANGED <<tags, sram, owner, icadrms, instr, last, interrupts>>

MarkValid_Skipped == tags' = tags                             \* mutant
MarkValid == tags' = [tags EXCEPT ![icindex] = icadrms]

\* ... the tag with its valid bit, and the SRAM back to the CPU.
Validate ==
  /\ callback = "validate"
  /\ MarkValid
  /\ owner' = "cpu"
  /\ callback' = "off"
  /\ UNCHANGED <<sram, icindex, icadrms, instr, last, interrupts>>

-----------------------------------------------------------------------------
Callback == Unlock \/ Fill \/ Select \/ Validate
Step == Retire \/ Miss \/ Callback

Next == \/ Step
        \/ \E i \in Instructions : Issue(i)
        \/ \E p \in Pages : Interrupt(p)

Spec == Init /\ [][Next]_vars

\* The core goes on with what it has begun.
FairSpec == Spec /\ WF_vars(Step)

-----------------------------------------------------------------------------
(* Properties.                                                             *)

TypeOK ==
  /\ tags \in [Lines -> Pages \cup {NoPage}]
  /\ sram \in [Lines -> Pages \cup {NoPage}]
  /\ owner \in {"cpu", "dma"}
  /\ icindex \in Lines /\ icadrms \in Pages \cup {NoPage}
  /\ callback \in {"off", "unlock", "dma", "select", "validate"}
  /\ instr \in [Contexts -> Instructions]
  /\ last \in [page : Pages \cup {NoPage}, read : Pages \cup {NoPage}]
  /\ interrupts \in Nat

(* A valid tag tells the truth about the line's contents, at every moment  *)
(* of a fill and whatever the DMA does to ICINDEX, as long as it succeeds. *)
TagsAreHonest ==
  \A i \in Lines : tags[i] # NoPage => LineOf(tags[i]) = i /\ sram[i] = tags[i]

(* The cache is transparent: an access reads the page it names.            *)
Window == INSTANCE XipWindow
ImplementsWindow == Window!Spec

(* An instruction that misses is filled, retried and completes, with its   *)
(* code and its data in the window and handlers evicting lines in between. *)
EveryInstructionRetires == instr["main"] # None ~> instr["main"] = None
=============================================================================
