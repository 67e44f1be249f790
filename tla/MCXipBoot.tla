------------------------------ MODULE MCXipBoot ------------------------------
(* Eight lines: pages 0, 8 and 16 share one, and the verifier's target is   *)
(* page 8 where the code's is page 64.                                      *)
EXTENDS XipBoot
=============================================================================
