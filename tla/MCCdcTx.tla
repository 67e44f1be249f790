------------------------------- MODULE MCCdcTx -------------------------------
(***************************************************************************)
(* The transmit path on a ring of 4 slots with packets of 2 bytes: writes  *)
(* wrap the ring, fill it, need several packets and time out.              *)
(***************************************************************************)
EXTENDS CdcTx

(* No guard reads the bytes or the history, so states that differ only in  *)
(* them have the same future: the runs whose properties do not read them   *)
(* either take one for all.                                                *)
Control == <<head, tail, busy, configured, registers, txrdy, flags, pc,
             writeLocals, kickLocals, isrLocals, written, events>>
=============================================================================
