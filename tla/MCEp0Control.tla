----------------------------- MODULE MCEp0Control -----------------------------
(* Control transfers with two addresses and two line codings.               *)
EXTENDS Ep0Control
=============================================================================
