--------------------------- MODULE XipCacheProofs ---------------------------
(***************************************************************************)
(* Theorems of XipCache, for every cache geometry, set of pages and number *)
(* of interrupts, whether or not the operands of an instruction alias;     *)
(* what concerns contents, for a flash that can be read (DmaFails).        *)
(***************************************************************************)
EXTENDS XipCache, TLAPS

\* What the callback has established at each of its steps.
CallbackInv ==
  /\ callback # "off" => icadrms \in Pages
  /\ callback \in {"dma", "select", "validate"} =>
       owner = "dma" /\ tags[LineOf(icadrms)] = NoPage
  /\ callback = "validate" => icindex = LineOf(icadrms)

\* The page is in the line once the DMA is through.
Filled == callback \in {"select", "validate"} => sram[LineOf(icadrms)] = icadrms

Inv == TypeOK /\ CallbackInv
Contents == TagsAreHonest /\ Filled

\* A page falls on a line of the cache.
LEMMA LineOfPage == ASSUME NEW p \in Pages PROVE LineOf(p) \in Lines
  BY XipAssumption DEF LineOf, Lines

\* The type invariant holds initially and is kept by every step.
LEMMA TypeInit == Init => TypeOK
  BY XipAssumption DEF Init, TypeOK, Lines, Contexts, None, Instructions

\* See TypeInit: the step.
LEMMA TypeStep == TypeOK /\ CallbackInv /\ [Next]_vars => TypeOK'
<1> SUFFICES ASSUME TypeOK, CallbackInv, [Next]_vars PROVE TypeOK'
    OBVIOUS
<1> USE DEF TypeOK, cache
<1>1. ASSUME NEW i \in Instructions, Issue(i) PROVE TypeOK'
      BY <1>1 DEF Issue, Contexts
<1>2. ASSUME NEW p \in Pages, Interrupt(p) PROVE TypeOK'
      BY <1>2 DEF Interrupt, Contexts, Instructions
<1>3. ASSUME Retire PROVE TypeOK'
  <2>1. Running \in Contexts
        BY DEF Running, Contexts
  <2>2. PICK p \in {instr[Running].code, instr[Running].data} \ {NoPage} :
          last' = [page |-> p, read |-> sram[LineOf(p)]]
        BY <1>3 DEF Retire
  <2>3. p \in Pages
        BY <2>1, <2>2 DEF Instructions
  <2>4. sram[LineOf(p)] \in Pages \cup {NoPage}
        BY <2>3, LineOfPage
  <2>5. instr' \in [Contexts -> Instructions]
        BY <1>3, <2>1 DEF Retire, None, Instructions
  <2>6. QED BY <1>3, <2>2, <2>3, <2>4, <2>5 DEF Retire
<1>4. ASSUME Miss PROVE TypeOK'
      BY <1>4 DEF Miss, Running, Contexts, Instructions
<1>5. ASSUME Unlock PROVE TypeOK'
      BY <1>5, LineOfPage DEF Unlock, HandOver, CallbackInv
<1>6. ASSUME Fill PROVE TypeOK'
      BY <1>6, LineOfPage DEF Fill, CallbackInv
<1>7. ASSUME Select PROVE TypeOK'
      BY <1>7, LineOfPage DEF Select, Reselect, CallbackInv
<1>8. ASSUME Validate PROVE TypeOK'
      BY <1>8 DEF Validate, MarkValid, CallbackInv
<1>9. CASE UNCHANGED vars
      BY <1>9 DEF vars
<1>10. QED BY <1>1, <1>2, <1>3, <1>4, <1>5, <1>6, <1>7, <1>8, <1>9
           DEF Next, Step, Callback

\* A miss is raised for a page of the window, and nothing else starts the
\* callback.
LEMMA MissNamesPage == ASSUME TypeOK, Miss PROVE icadrms' \in Pages
<1>1. Running \in Contexts
      BY DEF Running, Contexts
<1>2. instr[Running].code \in Pages \cup {NoPage} /\ instr[Running].data \in Pages \cup {NoPage}
      BY <1>1 DEF TypeOK, Instructions
<1>3. QED BY <1>2 DEF Miss, Hit

\* The callback goes through its steps in order.
LEMMA CallbackStep == TypeOK /\ CallbackInv /\ [Next]_vars => CallbackInv'
<1> SUFFICES ASSUME TypeOK, CallbackInv, [Next]_vars PROVE CallbackInv'
    OBVIOUS
<1> USE DEF CallbackInv, cache, LineOf
<1>1. CASE Miss
      BY <1>1, MissNamesPage DEF Miss
<1>2. CASE Callback
      BY <1>2, LineOfPage
      DEF Callback, Unlock, HandOver, Fill, Select, Reselect, Validate, TypeOK
<1>3. CASE UNCHANGED <<cache, icadrms, callback>>
      BY <1>3
<1>4. QED BY <1>1, <1>2, <1>3 DEF Next, Step, Issue, Interrupt, Retire, vars

\* The tags and the lines keep each other true.
LEMMA ContentsStep ==
  ~DmaFails /\ Inv /\ Contents /\ [Next]_vars => Contents'
<1> SUFFICES ASSUME ~DmaFails, Inv, Contents, [Next]_vars PROVE Contents'
    OBVIOUS
<1> USE DEF Contents, TagsAreHonest, Filled, Inv, CallbackInv, cache, LineOf
<1>1. CASE Miss
      BY <1>1 DEF Miss
<1>2. CASE Unlock
      BY <1>2, LineOfPage DEF Unlock, HandOver, TypeOK
<1>3. CASE Fill
      BY <1>3, LineOfPage DEF Fill, TypeOK
<1>4. CASE Select
      BY <1>4, LineOfPage DEF Select, Reselect, TypeOK
<1>5. CASE Validate
      BY <1>5, LineOfPage DEF Validate, MarkValid, TypeOK
<1>6. CASE UNCHANGED <<cache, icadrms, callback>>
      BY <1>6
<1>7. QED BY <1>1, <1>2, <1>3, <1>4, <1>5, <1>6
          DEF Next, Step, Callback, Issue, Interrupt, Retire, vars

\* xip_callback's line bookkeeping: Inv is inductive.
THEOREM InvHolds == Spec => []Inv
<1>1. Init => Inv
      BY TypeInit DEF Init, Inv, CallbackInv
<1>2. Inv /\ [Next]_vars => Inv'
      BY TypeStep, CallbackStep DEF Inv
<1>3. QED BY <1>1, <1>2, PTL DEF Spec

\* So is Contents, where the flash can be read.
THEOREM ContentsHold == ASSUME ~DmaFails PROVE Spec => []Contents
<1>1. Init => Contents
      BY DEF Init, Contents, TagsAreHonest, Filled
<1>2. Inv /\ Contents /\ [Next]_vars => Contents'
      BY ContentsStep
<1>3. QED BY <1>1, <1>2, InvHolds, PTL DEF Spec

\* Every variable keeps its type.
THEOREM TypeCorrect == Spec => []TypeOK
<1>1. Inv => TypeOK
      BY DEF Inv
<1>2. QED BY <1>1, InvHolds, PTL

\* A valid tag tells the truth about its line: the re-selection of ICINDEX
\* after the DMA is what makes it so.
THEOREM HonestTags == ASSUME ~DmaFails PROVE Spec => []TagsAreHonest
<1>1. Contents => TagsAreHonest
      BY DEF Contents
<1>2. QED BY <1>1, ContentsHold, PTL

\* The cache is transparent: every access through the window reads flash.
THEOREM Transparent == ASSUME ~DmaFails PROVE Spec => ImplementsWindow
<1>1. Init => Window!Init
      BY DEF Init, Window!Init
<1>2. Inv /\ Contents /\ [Next]_vars => [Window!Next]_last
  <2> SUFFICES ASSUME Inv, Contents, [Next]_vars PROVE [Window!Next]_last
      OBVIOUS
  <2>1. CASE Retire
    <3>1. Running \in Contexts
          BY DEF Running, Contexts
    <3>2. PICK p \in {instr[Running].code, instr[Running].data} \ {NoPage} :
            last' = [page |-> p, read |-> sram[LineOf(p)]]
          BY <2>1 DEF Retire
    <3>3. p \in Pages /\ tags[LineOf(p)] = p
          BY <2>1, <3>1, <3>2 DEF Retire, Hit, Inv, TypeOK, Instructions
    <3>4. sram[LineOf(p)] = p
          BY <3>3, LineOfPage, XipAssumption DEF Contents, TagsAreHonest
    <3>5. QED BY <3>2, <3>3, <3>4 DEF Window!Next, Window!Access
  <2>2. CASE UNCHANGED last
        BY <2>2
  <2>3. ASSUME ~Retire PROVE UNCHANGED last
        BY <2>3 DEF Next, Step, Callback, Issue, Interrupt, Miss, Unlock, Fill,
                    Select, Validate, vars
  <2>4. QED BY <2>1, <2>2, <2>3
<1>3. QED BY <1>1, <1>2, InvHolds, ContentsHold, PTL DEF Spec, ImplementsWindow, Window!Spec
=============================================================================
