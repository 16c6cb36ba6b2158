---------------------------- MODULE ProofReports ----------------------------
(***************************************************************************)
(* What the proofs API can learn from the eth-proofs driver, without its   *)
(* header stream, its chain, its errors or its detached tasks: jobs are    *)
(* taken up one after another and none twice, each goes through its phases *)
(* in order, "proved" is said only of a job that has a proof, and what is  *)
(* said of a phase arrives at any later time, in any order, several times  *)
(* or never.                                                               *)
(***************************************************************************)
EXTENDS Integers

CONSTANTS
  Job,            \* a set of integers: jobs are taken up in their order
  MaxArrivals     \* how often one report may arrive

VARIABLES
  stage,          \* the last phase each job has begun
  proven,         \* the jobs that have a proof
  arrived         \* how often each report has arrived

vars == <<stage, proven, arrived>>

Kind == {"queued", "proving", "proved"}

\* The phases whose report may have been sent in a stage.
Sent(s) ==
  CASE s = "idle" -> {}
    [] s = "queued" -> {"queued"}
    [] s = "proving" -> {"queued", "proving"}
    [] s = "proved" -> Kind

Init ==
  /\ stage = [j \in Job |-> "idle"]
  /\ proven = {}
  /\ arrived = [r \in Job \X Kind |-> 0]

\* No later job has begun.
Latest(j) == \A i \in Job : i > j => stage[i] = "idle"

Queue(j) ==
  /\ stage[j] = "idle" /\ Latest(j)
  /\ stage' = [stage EXCEPT ![j] = "queued"]
  /\ UNCHANGED <<proven, arrived>>

Prove(j) ==
  /\ stage[j] = "queued" /\ Latest(j)
  /\ stage' = [stage EXCEPT ![j] = "proving"]
  /\ UNCHANGED <<proven, arrived>>

Complete(j) ==
  /\ stage[j] = "proving" /\ Latest(j)
  /\ stage' = [stage EXCEPT ![j] = "proved"]
  /\ proven' = proven \union {j}
  /\ UNCHANGED arrived

Arrive(j, k) ==
  /\ k \in Sent(stage[j])
  /\ arrived[<<j, k>>] < MaxArrivals
  /\ arrived' = [arrived EXCEPT ![<<j, k>>] = @ + 1]
  /\ UNCHANGED <<stage, proven>>

Next ==
  \E j \in Job :
    \/ Queue(j) \/ Prove(j) \/ Complete(j)
    \/ \E k \in Kind : Arrive(j, k)

Spec == Init /\ [][Next]_vars
=============================================================================
