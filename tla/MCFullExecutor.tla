--------------------------- MODULE MCFullExecutor ---------------------------
(***************************************************************************)
(* Three runs: two with an RPC URL that may overlap or follow each other   *)
(* and one that depends on the cache; then runs with a genesis file,       *)
(* without a cache, without an RPC URL, with neither, and for OpMainnet.   *)
(* With three pieces a gap can lie between two pieces that were written.   *)
(***************************************************************************)
EXTENDS FullExecutor

CONSTANTS p1, p2, p3

MCProc == {p1, p2, p3}

\* A run with --rpc-url, with the RPC of the environment, or without.
Settings(rpc, genesis, cache, prove, opcode) ==
  [url |-> rpc = "url", chainId |-> rpc \in {"env", "none"}, env |-> rpc = "env",
   genesis |-> genesis, cache |-> cache, prove |-> prove, opcode |-> opcode]

\* The settings of p1, p2 and p3.
Runs(c1, c2, c3) ==
  [p \in MCProc |-> CASE p = p1 -> c1 [] p = p2 -> c2 [] OTHER -> c3]

Online == Settings("url", "named", TRUE, FALSE, TRUE)
OnlineProve == Settings("env", "named", TRUE, TRUE, FALSE)
OnlineCustom == Settings("url", "custom", TRUE, TRUE, FALSE)
Offline == Settings("none", "named", TRUE, FALSE, TRUE)
OfflineProve == Settings("none", "named", TRUE, TRUE, FALSE)
OfflineCustom == Settings("none", "custom", TRUE, FALSE, FALSE)
NoCache == Settings("url", "named", FALSE, TRUE, FALSE)
Optimism == Settings("none", "op", TRUE, FALSE, FALSE)
Nothing == [Settings("none", "named", FALSE, FALSE, FALSE) EXCEPT !.chainId = FALSE]

MCAssignments ==
  { Runs(Online, OnlineProve, Offline),
    Runs(Online, OnlineCustom, OfflineCustom),
    Runs(OnlineProve, OfflineProve, NoCache),
    Runs(OnlineCustom, Optimism, Nothing) }
=============================================================================
