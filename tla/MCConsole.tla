----------------------------- MODULE MCConsole -----------------------------
(* Console with two lines of boot text, enough to fill the transmit FIFO.    *)
EXTENDS Console

CONSTANTS a, lf, cr

MCText == <<a, lf, lf>>
=============================================================================
