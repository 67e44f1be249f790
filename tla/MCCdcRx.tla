------------------------------- MODULE MCCdcRx -------------------------------
(* The receive path on a ring of 4 slots with banks of 2 bytes.             *)
EXTENDS CdcRx
=============================================================================
