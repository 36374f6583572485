----------------------------- MODULE MCLcdFlush -----------------------------
(* LcdFlush on a panel of one and a half buffers' height. *)
EXTENDS LcdFlush

CONSTANTS white, black, noise
=============================================================================
