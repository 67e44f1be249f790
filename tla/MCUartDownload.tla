--------------------------- MODULE MCUartDownload ---------------------------
(* An upload of two blocks to a chip that holds two.                        *)
EXTENDS UartDownload
=============================================================================
