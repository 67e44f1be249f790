------------------------------- MODULE ShellIo -------------------------------
(***************************************************************************)
(* The shell's console, main.c: ush_read_cb and ush_write_cb take the CDC  *)
(* port while the device is configured, and else the UART, one wire that   *)
(* carries both directions.  What the host types comes back to it on that  *)
(* wire by itself, so ush_write_cb swallows the echo the shell makes of it.*)
(* The route is chosen again for every character, and the USB interrupt    *)
(* moves it between any two steps.                                         *)
(*                                                                         *)
(* MicroShell is not part of the repository: its states are those its      *)
(* callbacks name.  The rings and locks of the CDC port are those of CdcTx *)
(* and CdcRx; here a character is taken by the port or it is lost.         *)
(***************************************************************************)
EXTENDS Integers, Sequences

CONSTANTS Typed,      \* the bytes the host types; "cr" ends a command
          None        \* no byte

\* "ff" is the byte 0xFF; "x" stands for those the host never types.
Chars == Typed \cup {"cr", "ff", "x"}

ASSUME ConsoleAssumption ==
  /\ Typed \subseteq STRING /\ "x" \notin Typed
  /\ None \notin Chars

VARIABLES
  configured,     \* g_usb_configured
  inchar,         \* uart0_singlewire_inchar; -1 is None
  state,          \* self->state of MicroShell
  text, next,     \* what is still to be written, and the state after it
  cdcChosen,      \* ush_write_cb is past bt_cdc_is_connected
  echoDue,        \* history: nothing was written since the UART was polled
  moved           \* history: the route changed since

shell == <<state, text, next>>
echo == <<inchar, echoDue, moved>>
ioVars == <<configured, shell, cdcChosen, echo>>

ShellStates == {"write", "read", "exec", "reset",
                "start", "service", "wait", "data"}

Greeting == <<"x">>
Prompt == <<"x">>
Newline == <<"cr", "x">>

\* main(), when ush_printf has the greeting to write.
IoInit ==
  /\ configured = FALSE
  /\ inchar = None
  /\ state = "write" /\ text = Greeting /\ next = "reset"
  /\ cdcChosen = FALSE
  /\ echoDue = FALSE /\ moved = FALSE

-----------------------------------------------------------------------------
(* The route.                                                              *)

Configure ==
  /\ ~configured
  /\ configured' = TRUE /\ moved' = TRUE
  /\ UNCHANGED <<shell, cdcChosen, inchar, echoDue>>

BusReset ==
  /\ configured
  /\ configured' = FALSE /\ moved' = TRUE
  /\ UNCHANGED <<shell, cdcChosen, inchar, echoDue>>

Environment == Configure \/ BusReset

-----------------------------------------------------------------------------
(* ush_read_cb.  What waits in UART0DATA or in the receive ring shows only *)
(* here: it is a typed byte or none.                                       *)

\* uart0_poll; the byte, or none, is remembered.
PollUart(c) ==
  /\ ~configured
  /\ inchar' = c
  /\ echoDue' = (c # None) /\ moved' = FALSE

PollCdc(c) == configured /\ UNCHANGED echo

Poll(c) == PollUart(c) \/ PollCdc(c)

\* ush_write_pointer, and every other text of the shell.
Say(t, after) == state' = "write" /\ text' = t /\ next' = after

\* MicroShell: a character is echoed or not; the end of the line ends the
\* command.
Read ==
  /\ state = "read"
  /\ \E c \in Typed \cup {None} :
       /\ Poll(c)
       /\ \/ c \in {None} \cup (Typed \ {"cr"}) /\ UNCHANGED shell
          \/ c \in Typed \ {"cr"} /\ Say(<<c>>, "read")
          \/ c = "cr" /\ Say(Newline, "exec")
  /\ UNCHANGED <<configured, cdcChosen>>

-----------------------------------------------------------------------------
(* ush_write_cb.                                                           *)

\* It returns 1 whatever became of the character: the shell goes on.
Accepted_OnlyIfSent(f) == f # "lost"                          \* mutant
Accepted(f) == TRUE

Written(f) ==
  /\ echoDue' = FALSE
  /\ IF ~Accepted(f) THEN UNCHANGED shell
     ELSE /\ text' = Tail(text)
          /\ state' = IF Len(text) = 1 THEN next ELSE "write"
          /\ UNCHANGED next

\* The comparison is on char: -1 & 0xff is 0xFF.
IsEcho(c) == c = IF inchar = None THEN "ff" ELSE inchar

AfterWrite_Kept == inchar                                     \* mutant
AfterWrite == None

WriteUart ==
  /\ state = "write" /\ ~cdcChosen /\ ~configured
  /\ Written(IF IsEcho(Head(text)) THEN "suppressed" ELSE "uart")
  /\ inchar' = AfterWrite
  /\ UNCHANGED <<configured, cdcChosen, moved>>

ChooseCdc ==
  /\ state = "write" /\ ~cdcChosen /\ configured
  /\ cdcChosen' = TRUE
  /\ UNCHANGED <<configured, shell, echo>>

\* bt_cdc_write_char: a reset since, or a host that does not read, loses the
\* character.
WriteCdc ==
  /\ cdcChosen
  /\ cdcChosen' = FALSE
  /\ \E f \in {"cdc", "lost"} :
       /\ f = "cdc" => configured
       /\ Written(f)
  /\ UNCHANGED <<configured, inchar, moved>>

Write == WriteUart \/ ChooseCdc \/ WriteCdc

-----------------------------------------------------------------------------
IoTypeOK ==
  /\ configured \in BOOLEAN /\ cdcChosen \in BOOLEAN
  /\ echoDue \in BOOLEAN /\ moved \in BOOLEAN
  /\ inchar \in Typed \cup {None}
  /\ state \in ShellStates /\ next \in ShellStates
  /\ text \in Seq(Chars) /\ (state = "write" <=> text # <<>>)

(* A character that ush_write_cb swallows on the UART is the echo of the   *)
(* byte polled there last, with nothing written in between: no reply loses *)
(* a character.  The exceptions are 0xFF, which the idle value -1 looks    *)
(* like, and a route that moved while the byte was remembered.             *)
OnlyEchoIsSuppressed ==
  [][ WriteUart /\ IsEcho(Head(text)) => echoDue \/ moved \/ Head(text) = "ff" ]_ioVars
=============================================================================
