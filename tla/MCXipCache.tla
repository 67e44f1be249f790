----------------------------- MODULE MCXipCache -----------------------------
(* Two lines and five pages: pages 0, 2, 4 share a line, and pages 1, 3.    *)
EXTENDS XipCache
=============================================================================
