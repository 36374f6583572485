------------------------------ MODULE MCAdcFft ------------------------------
(* AdcFft with memory for three workers: one or two may hang in the failed *)
(* assertion beside the one there should be.                               *)
EXTENDS AdcFft

CONSTANTS w1, w2, w3
=============================================================================
