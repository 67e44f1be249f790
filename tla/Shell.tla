-------------------------------- MODULE Shell --------------------------------
(***************************************************************************)
(* The shell of main.bin: the console of ShellIo, the radio_ctrl command   *)
(* of RadioDump, and "xxd --raw8" and "xxd --raw32", which                 *)
(* microshell_xxd_raw.patch adds.  One main loop serves them, a text or a  *)
(* byte of a row at a time.                                                *)
(*                                                                         *)
(* The words that xxd reads are device registers, so what matters is which *)
(* reads are made: a byte of a row is the read it comes from.  The service *)
(* callback of xxd is MicroShell's; the patch shows the two loops of a row,*)
(* hexadecimal then characters.                                            *)
(***************************************************************************)
EXTENDS RadioDump, FiniteSets

CONSTANTS
  Space,       \* UINTPTR_MAX + 1 and SIZE_MAX + 1
  Columns,     \* USH_CONFIG_CMD_XXD_COLUMNS, 16 in the code
  WordBytes,   \* sizeof(uint32_t)
  Addresses, Counts   \* the arguments tried, below Space

ASSUME RawAssumption ==
  /\ Space \in Nat \ {0} /\ Columns \in Nat \ {0} /\ WordBytes \in Nat \ {0}
  /\ Columns < Space /\ Space % WordBytes = 0 /\ Columns % WordBytes = 0
  /\ Addresses \cup Counts \subseteq 0..(Space - 1)

VARIABLES
  raw32, address, size,   \* process_raw32, _raw_address, process_data_size
  item, stage,            \* process_index_item, process_stage
  word,                   \* process_raw_word_index and process_raw_word
  row,                    \* the bytes of this pass over the row
  reads                   \* history: the addresses this dump read, in order,
                          \* since item wrapped last

rawVars == <<raw32, address, size, item, stage, word, row, reads>>
vars == <<ioVars, cmd, radioVars, rawVars>>

\* A read, named by its address and its place in reads.
ReadOf(a, n) == [address |-> a, read |-> n]
NoWord == [index |-> Space, value |-> ReadOf(0, 0)]   \* index (size_t)-1

RawInit ==
  /\ raw32 = FALSE /\ address = 0 /\ size = 0
  /\ item = 0 /\ stage = "offset"
  /\ word = NoWord /\ row = <<>> /\ reads = <<>>

-----------------------------------------------------------------------------
(* Arguments.  The end is computed in uintmax_t, wider than an address.    *)

End_Narrow(a, n) == (a + n) % Space                           \* mutant
End(a, n) == a + n

Unit(wide) == IF wide THEN WordBytes ELSE 1

Fits(wide, a, n) ==
  /\ wide => n <= (Space - 1) \div WordBytes
  /\ End(a, n * Unit(wide)) <= Space

WordAtStart_Kept == word                                      \* mutant
WordAtStart == NoWord

RawExec ==
  /\ state = "exec"
  /\ \E wide \in BOOLEAN, a \in Addresses, n \in Counts :
       \/ /\ ~Fits(wide, a, n)
          /\ Say(Line, "reset")
          /\ UNCHANGED <<cmd, rawVars>>
       \/ /\ Fits(wide, a, n)
          /\ cmd' = "xxd" /\ state' = "start" /\ UNCHANGED <<text, next>>
          /\ raw32' = wide /\ address' = a /\ size' = n * Unit(wide)
          /\ word' = WordAtStart
          /\ item' = 0 /\ stage' = "offset" /\ row' = <<>> /\ reads' = <<>>
  /\ UNCHANGED <<configured, cdcChosen, echo, radioVars>>

-----------------------------------------------------------------------------
(* ush_cmd_xxd_get_byte: a byte of the row, from its own read or from the  *)
(* word that was read last.                                                *)

Cached(index) == word.index = index

ReadByte(a) ==
  /\ reads' = Append(reads, a)
  /\ row' = Append(row, ReadOf(a, Len(reads')))
  /\ UNCHANGED word

ReadWord(index) ==
  LET a == address + index * WordBytes
  IN  /\ reads' = Append(reads, a)
      /\ word' = [index |-> index, value |-> ReadOf(a, Len(reads'))]

GetByte(offset) ==
  LET index == offset \div WordBytes
  IN  IF ~raw32 THEN ReadByte(address + offset)
      ELSE /\ IF Cached(index) THEN UNCHANGED <<word, reads>> ELSE ReadWord(index)
           /\ row' = Append(row, word'.value)

RowLength == IF size - item < Columns THEN size - item ELSE Columns

-----------------------------------------------------------------------------
(* The service callback, one text per call.                                *)

RawStart ==
  /\ cmd = "xxd" /\ state = "start"
  /\ state' = "service"
  /\ UNCHANGED <<configured, text, next, cdcChosen, echo, cmd, radioVars, rawVars>>

RawOffset ==
  /\ cmd = "xxd" /\ state = "service" /\ stage = "offset"
  /\ IF item < size THEN /\ stage' = "hex"
                         /\ Say(<<"x">>, "service")
                    ELSE /\ state' = "reset"
                         /\ UNCHANGED <<text, next, stage>>
  /\ UNCHANGED <<configured, cdcChosen, echo, cmd, radioVars,
                 raw32, address, size, item, word, row, reads>>

\* The loop over a row, hexadecimal and then characters, and its end.
InRow == cmd = "xxd" /\ state = "service" /\ stage \in {"hex", "chars"}

RawByte ==
  /\ InRow /\ Len(row) < RowLength
  /\ GetByte(item + Len(row))
  /\ UNCHANGED <<configured, shell, cdcChosen, echo, cmd, radioVars,
                 raw32, address, size, item, stage>>

RawRow ==
  /\ InRow /\ Len(row) = RowLength
  /\ row' = <<>>
  /\ \/ /\ stage = "hex" /\ stage' = "chars" /\ UNCHANGED <<item, reads>>
        /\ Say(<<"x">>, "service")
     \/ /\ stage = "chars" /\ stage' = "offset" /\ item' = (item + Columns) % Space
        /\ reads' = IF item + Columns < Space THEN reads ELSE <<>>
        /\ Say(Line, "service")
  /\ UNCHANGED <<configured, cdcChosen, echo, cmd, radioVars,
                 raw32, address, size, word>>

\* MicroShell's other commands answer with a text; "echo" with what was typed.
OtherExec ==
  /\ state = "exec"
  /\ \E t \in {Line} \cup {<<c>> : c \in Typed} : Say(t, "reset")
  /\ UNCHANGED <<configured, cdcChosen, echo, cmd, radioVars, rawVars>>

-----------------------------------------------------------------------------
Init == IoInit /\ RadioInit /\ RawInit

Console == \/ (Read \/ Write) /\ UNCHANGED <<cmd, radioVars, rawVars>>
           \/ /\ ResetPrompt
              /\ row' = <<>> /\ reads' = <<>>
              /\ UNCHANGED <<raw32, address, size, item, stage, word>>
Radio == (RadioExec \/ RadioNext) /\ UNCHANGED rawVars
Raw == RawExec \/ RawStart \/ RawOffset \/ RawByte \/ RawRow

\* The main loop: ush_service, again and again.
Main == Console \/ Radio \/ Raw \/ OtherExec

Hardware == \/ Environment /\ UNCHANGED <<cmd, radioVars, rawVars>>
            \/ \E r \in Register : Finish(r) /\ UNCHANGED rawVars

Next == Main \/ Hardware

\* The program runs; the host and the bus promise nothing.
Spec == Init /\ [][Next]_vars /\ WF_vars(Main)

-----------------------------------------------------------------------------
ReadsOf == [address : 0..(2 * Space), read : Nat]

TypeOK ==
  /\ IoTypeOK /\ RadioTypeOK
  /\ cmd \in {"none", "radio", "xxd"}
  /\ raw32 \in BOOLEAN /\ address \in 0..Space /\ size \in 0..Space
  /\ item \in 0..(Space - 1) /\ stage \in {"offset", "hex", "chars"}
  /\ word.index \in 0..Space /\ word.value \in ReadsOf
  /\ row \in Seq(ReadsOf) /\ Len(row) <= Columns
  /\ reads \in Seq(Nat)

(* The bytes that one pass over a row prints of one word of "xxd --raw32"  *)
(* come from one read, made by this dump at the word's address: neither    *)
(* torn, nor left in the cache by an earlier dump.  The two passes of a    *)
(* row may still differ, each having read the words again.                 *)
RawWordIsWhole ==
  cmd = "xxd" /\ raw32 =>
    \A i \in 1..Len(row) :
      LET index == (item + i - 1) \div WordBytes
      IN  /\ row[i].address = address + index * WordBytes
          /\ row[i].read \in DOMAIN reads
          /\ reads[row[i].read] = row[i].address
          /\ \A j \in 1..Len(row) :
               (item + j - 1) \div WordBytes = index => row[i] = row[j]

(* Behind its last row process_index_item is past the size, and below      *)
(* SIZE_MAX + 1; else it wraps, and the dump starts again.                 *)
DumpHasEnd == size + Columns <= Space

(* A raw dump reads only what was asked for: it never runs past the end of *)
(* the address space, reads no location more than twice, and a single word *)
(* once, so that a register that changes when it is read can be dumped.    *)
(* Twice is for a dump that ends: one that does not starts again.          *)
RawReadsWhatWasAsked ==
  cmd = "xxd" =>
    /\ \A k \in 1..Len(reads) :
         /\ reads[k] \in address..(address + size - Unit(raw32))
         /\ reads[k] + Unit(raw32) <= Space
         /\ DumpHasEnd =>
              Cardinality({m \in 1..Len(reads) : reads[m] = reads[k]}) <= 2
    /\ raw32 /\ size = WordBytes => Len(reads) <= 1

(* A register dump prints what RegisterDump says.                          *)
Dump == INSTANCE RegisterDump WITH open <- DumpIsOpen,
  lines <- IF DumpIsOpen THEN lines ELSE <<>>
ImplementsDump == Dump!Spec

(* Every command comes back to the prompt, whether or not the host reads   *)
(* the port, the radio answers, or the route moves: a character that       *)
(* cannot be written is dropped and a transfer is given up.  The exception *)
(* is a raw dump of all but the last row of the space of sizes, or more.   *)
CommandEnds == (state = "exec") ~> (state = "read" \/ (cmd = "xxd" /\ ~DumpHasEnd))
=============================================================================
