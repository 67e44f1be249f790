------------------------------ MODULE RadioDump ------------------------------
(***************************************************************************)
(* The radio_ctrl command, ush_cmd_radio.c, on the console of ShellIo: a   *)
(* dump is a text per call of the service callback, and each call but the  *)
(* first and the last makes one transfer on the RF SPI bus.                *)
(*                                                                         *)
(* The bus is known only from its use.  No code clears the done bit, so    *)
(* starting a transfer does; a transfer that was given up may still        *)
(* finish, set the bit and leave its value in RF_SPI_DAT.                  *)
(***************************************************************************)
EXTENDS ShellIo

CONSTANTS Registers,     \* 256 in the code
          SpiTimeout     \* polls of the done bit, 1000000 in the code

ASSUME RadioAssumption == Registers \in Nat \ {0} /\ SpiTimeout \in Nat

VARIABLES
  cmd,             \* the file whose process callback runs
  processIndex,    \* self->process_index
  timeout,         \* local of rf_spi_tf
  busy, done, dat, \* transfers under way, the done bit, whose value RF_SPI_DAT holds
  lines, late      \* history: what this dump printed; a transfer timed out

bus == <<busy, done, dat>>
radioVars == <<processIndex, timeout, bus, lines, late>>

Register == 0..(Registers - 1)

Line == <<"x", "cr">>      \* any text of a command: it ends in "\r\n"

RadioInit ==
  /\ cmd = "none"
  /\ processIndex = 0 /\ timeout = 0
  /\ busy = {} /\ done = FALSE /\ dat \in Register
  /\ lines = <<>> /\ late = FALSE

\* MicroShell, between commands.
ResetPrompt ==
  /\ state = "reset"
  /\ Say(Prompt, "read")
  /\ cmd' = "none" /\ lines' = <<>>
  /\ UNCHANGED <<configured, cdcChosen, echo, processIndex, timeout, bus, late>>

\* The bus: a transfer finishes.
Finish(r) ==
  /\ r \in busy
  /\ busy' = busy \ {r} /\ done' = TRUE /\ dat' = r
  /\ UNCHANGED <<ioVars, cmd, processIndex, timeout, lines, late>>

\* radio_ctrl_callback, and dump_rf_registers_start.
FirstIndex_Kept == processIndex                               \* mutant
FirstIndex == 0

RadioExec ==
  /\ state = "exec"
  /\ \/ Say(Line, "reset")           \* wrong arguments
        /\ UNCHANGED <<cmd, processIndex, lines>>
     \/ /\ cmd' = "radio" /\ state' = "start" /\ UNCHANGED <<text, next>>
        /\ processIndex' = FirstIndex
        /\ lines' = <<>>
  /\ UNCHANGED <<configured, cdcChosen, echo, timeout, bus, late>>

\* dump_rf_registers_service.
RadioStart ==
  /\ cmd = "radio" /\ state = "start"
  /\ Say(Line, "service")
  /\ UNCHANGED <<configured, cdcChosen, echo, cmd, radioVars>>

MoreToDump_OneMore == processIndex <= Registers               \* mutant
MoreToDump == processIndex < Registers

\* The service reads the next register: rf_reg_rd, rf_spi_tf.
RadioBegin ==
  /\ cmd = "radio" /\ state = "service" /\ MoreToDump
  /\ busy' = busy \cup {processIndex} /\ done' = FALSE
  /\ timeout' = SpiTimeout
  /\ state' = "wait"
  /\ UNCHANGED <<configured, text, next, cdcChosen, echo, cmd, processIndex, dat, lines, late>>

RadioWait ==
  /\ cmd = "radio" /\ state = "wait"
  /\ \/ /\ done
        /\ state' = "data" /\ UNCHANGED <<text, next, timeout, late>>
     \/ /\ ~done /\ timeout = 0
        /\ Say(Line, "reset")
        /\ late' = TRUE /\ UNCHANGED timeout
     \/ /\ ~done /\ timeout > 0
        /\ timeout' = timeout - 1
        /\ UNCHANGED <<shell, late>>
  /\ UNCHANGED <<configured, cdcChosen, echo, cmd, processIndex, bus, lines>>

RadioData ==
  /\ cmd = "radio" /\ state = "data"
  /\ lines' = Append(lines, [reg |-> processIndex, from |-> dat])
  /\ processIndex' = processIndex + 1
  /\ Say(Line, "service")
  /\ UNCHANGED <<configured, cdcChosen, echo, cmd, timeout, bus, late>>

RadioComplete ==
  /\ cmd = "radio" /\ state = "service" /\ ~MoreToDump
  /\ Say(Line, "reset")
  /\ UNCHANGED <<configured, cdcChosen, echo, cmd, radioVars>>

RadioNext == \/ RadioStart \/ RadioBegin \/ RadioWait
             \/ RadioData \/ RadioComplete

-----------------------------------------------------------------------------
RadioTypeOK ==
  /\ processIndex \in 0..Registers
  /\ timeout \in 0..SpiTimeout
  /\ busy \subseteq Register /\ done \in BOOLEAN /\ dat \in Register
  /\ lines \in Seq([reg : Register, from : Register])
  /\ late \in BOOLEAN

DumpIsOpen == /\ cmd = "radio"
              /\ state # "reset" /\ ~(state = "write" /\ next = "reset")
=============================================================================
