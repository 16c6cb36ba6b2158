---------------------------- MODULE MCContinuous ----------------------------
(***************************************************************************)
(* Instances of the continuous driver for TLC: four blocks, two permits    *)
(* and one retry give a failing task, a running one and a loop that is     *)
(* anywhere between acquire and check, with blocks left to start.          *)
(***************************************************************************)
EXTENDS Continuous

MCFirstBlock == 1
MCLastBlock == 4
=============================================================================
