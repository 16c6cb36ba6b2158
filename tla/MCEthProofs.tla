---------------------------- MODULE MCEthProofs ----------------------------
(***************************************************************************)
(* Instances of the eth-proofs driver for TLC: three headers of two blocks *)
(* and a subscription that buffers one let main lag behind, and one header *)
(* announced again makes a second job of a number.  One retry and two      *)
(* faults let a report arrive twice or give up.                            *)
(***************************************************************************)
EXTENDS EthProofs

MCSettings ==
  { [interval |-> 2, prove |-> TRUE, alerting |-> TRUE],
    [interval |-> 1, prove |-> FALSE, alerting |-> FALSE],
    [interval |-> 0, prove |-> TRUE, alerting |-> FALSE] }
=============================================================================
