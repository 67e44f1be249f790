---------------------------- MODULE RegisterDump ----------------------------
(***************************************************************************)
(* What "radio_ctrl --dumpregs" promises: every register once and in order,*)
(* then the end; or as many as came before a transfer timed out.  While no *)
(* transfer has timed out since power-on, the value printed for a register *)
(* is the one that was read from it.                                       *)
(***************************************************************************)
EXTENDS Naturals, Sequences

CONSTANT Registers    \* how many there are

VARIABLES open,       \* a dump is going on
          lines,      \* what the one going on has printed: a register, and whose value
          late        \* a transfer has timed out

vars == <<open, lines, late>>

Init == open = FALSE /\ lines = <<>> /\ late = FALSE

Begin == ~open /\ open' = TRUE /\ lines' = <<>> /\ UNCHANGED late

Line == /\ open /\ Len(lines) < Registers
        /\ \E r \in 0..(Registers - 1) :
             /\ r # Len(lines) => late
             /\ lines' = Append(lines, [reg |-> Len(lines), from |-> r])
        /\ UNCHANGED <<open, late>>

Complete == /\ open /\ Len(lines) = Registers
            /\ open' = FALSE /\ lines' = <<>>
            /\ UNCHANGED late

TimeOut == /\ open /\ Len(lines) < Registers
           /\ open' = FALSE /\ lines' = <<>> /\ late' = TRUE

Next == Begin \/ Line \/ Complete \/ TimeOut

Spec == Init /\ [][Next]_vars
=============================================================================
