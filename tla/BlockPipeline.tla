--------------------------- MODULE BlockPipeline ---------------------------
(***************************************************************************)
(* What the continuous driver promises, without its threads, permits,      *)
(* retries or atomics: blocks are started one by one in ascending order,   *)
(* at most MaxConcurrent of them are in flight, and once a block has been  *)
(* reported as failed at most Slack more are started, ever.                *)
(***************************************************************************)
EXTENDS Integers, FiniteSets

CONSTANTS
  FirstBlock,     \* the first block to process
  LastBlock,      \* bound of the model: the last block that is started
  MaxConcurrent,  \* blocks in flight at once
  Slack           \* blocks that may still start after a failure is reported

Blocks == FirstBlock..LastBlock

VARIABLES
  status,         \* what has become of each block
  startsLeft      \* starts that are left once a failure has been reported

vars == <<status, startsLeft>>

Status == {"pending", "running", "done", "failed", "lost"}

Running == {b \in Blocks : status[b] = "running"}

SomeFailed == \E b \in Blocks : status[b] = "failed"

Init ==
  /\ status = [b \in Blocks |-> "pending"]
  /\ startsLeft = Slack

\* The next block in order starts; after a failure each start uses one up.
Start(b) ==
  /\ status[b] = "pending"
  /\ \A a \in FirstBlock..(b - 1) : status[a] # "pending"
  /\ Cardinality(Running) < MaxConcurrent
  /\ startsLeft > 0
  /\ status' = [status EXCEPT ![b] = "running"]
  /\ startsLeft' = IF SomeFailed THEN startsLeft - 1 ELSE startsLeft

\* A block in flight ends without a failure being reported: it was processed,
\* or its task was torn down before it could say anything.
Settle(b) ==
  /\ status[b] = "running"
  /\ \E s \in {"done", "lost"} : status' = [status EXCEPT ![b] = s]
  /\ UNCHANGED startsLeft

\* A block in flight is reported as failed; the report may already rule out
\* some of the starts that were left.
Fail(b) ==
  /\ status[b] = "running"
  /\ status' = [status EXCEPT ![b] = "failed"]
  /\ startsLeft' \in 0..startsLeft

Next == \E b \in Blocks : Start(b) \/ Settle(b) \/ Fail(b)

Spec == Init /\ [][Next]_vars
=============================================================================
