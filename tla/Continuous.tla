----------------------------- MODULE Continuous -----------------------------
(***************************************************************************)
(* The continuous driver, bin/continuous/src/main.rs: one loop takes a     *)
(* permit per block and spawns a task that waits for the block, executes   *)
(* it with retries, alerts on failure, raises a shared flag and returns    *)
(* the permit.  The loop reads the flag after each spawn and panics when   *)
(* it is raised.                                                           *)
(*                                                                         *)
(* The flag is written and read with Ordering::Relaxed: the loop is        *)
(* certain to see a store only when it has taken a permit after the        *)
(* storing task returned its own (the semaphore orders the two).           *)
(*                                                                         *)
(* The workspace ignores the profile of a member package, so a panic in a  *)
(* task unwinds: the permit is dropped with the task's future and nothing  *)
(* else happens.                                                           *)
(***************************************************************************)
EXTENDS Integers, FiniteSets

CONSTANTS
  FirstBlock,     \* args.block_number
  LastBlock,      \* bound of the model: the loop of the code has no end
  MaxConcurrent,  \* args.max_concurrent_executions, 0 is not refused
  Retries,        \* args.execution_retries
  Alerting        \* whether a PagerDuty key is configured

ASSUME ConstantsAssumption ==
  /\ FirstBlock \in Nat
  /\ LastBlock \in Nat
  /\ MaxConcurrent \in Nat
  /\ Retries \in Nat
  /\ Alerting \in BOOLEAN

Blocks == FirstBlock..LastBlock

VARIABLES
  driver,    \* where the loop of main stands
  block,     \* block_number
  permits,   \* permits available in the semaphore
  failed,    \* the flag as the tasks have stored it
  synced,    \* a permit was taken after a storing task returned its own
  head,      \* the latest block the RPC provider serves
  task,      \* where the task of each block stands
  retries,   \* retry_count of the task's current loop
  result,    \* how processing the block ended
  alerted    \* blocks whose alert was attempted

driverVars == <<driver, block, synced>>
taskVars == <<task, retries, result>>
vars == <<driver, block, permits, failed, synced, head,
          task, retries, result, alerted>>

\* A task of one of these states exists and owns a permit.
LiveStates == {"wait", "execute", "alert", "flag", "drop"}

Live(b) == task[b] \in LiveStates

TypeOK ==
  /\ driver \in {"acquire", "spawn", "check", "panicked"}
  /\ block \in Nat
  /\ permits \in Nat
  /\ failed \in BOOLEAN
  /\ synced \in BOOLEAN
  /\ head \in Int
  /\ task \in [Blocks -> LiveStates \union {"none", "ended"}]
  /\ retries \in [Blocks -> 0..(Retries + 1)]
  /\ result \in [Blocks -> {"none", "ok", "err", "panic", "cancelled"}]
  /\ alerted \in SUBSET Blocks

-----------------------------------------------------------------------------

Init ==
  /\ driver = "acquire"
  /\ block = FirstBlock
  /\ permits = MaxConcurrent
  /\ failed = FALSE
  /\ synced = FALSE
  /\ head \in (FirstBlock - 1)..LastBlock
  /\ task = [b \in Blocks |-> "none"]
  /\ retries = [b \in Blocks |-> 0]
  /\ result = [b \in Blocks |-> "none"]
  /\ alerted = {}

\* A failed block's task has stored the flag and returned its permit.
FailureReported == \E b \in Blocks : task[b] = "ended" /\ result[b] = "err"

-----------------------------------------------------------------------------
(* The loop of main *)

\* acquire_owned().await
Acquire ==
  /\ driver = "acquire"
  /\ block \in Blocks
  /\ permits > 0
  /\ permits' = permits - 1
  /\ driver' = "spawn"
  /\ synced' = FailureReported
  /\ UNCHANGED <<block, failed, head, task, retries, result, alerted>>

\* task::spawn(process_block(block_number, ..))
Spawn ==
  /\ driver = "spawn"
  /\ task' = [task EXCEPT ![block] = "wait"]
  /\ driver' = "check"
  /\ UNCHANGED <<block, permits, failed, synced, head, retries, result, alerted>>

\* The load of the flag returns true: panic in main.
CheckPanic ==
  /\ driver = "check"
  /\ failed
  /\ driver' = "panicked"
  /\ UNCHANGED <<block, permits, failed, synced, head, task, retries, result, alerted>>

\* The mutant spawns on whatever the flag says.
MutCheckPass ==
  /\ driver = "check"
  /\ driver' = "acquire"
  /\ block' = block + 1
  /\ UNCHANGED <<permits, failed, synced, head, task, retries, result, alerted>>

\* The load returns false: no store yet, or a relaxed load missed it.
CheckPass ==
  /\ driver = "check"
  /\ failed => ~synced
  /\ driver' = "acquire"
  /\ block' = block + 1
  /\ UNCHANGED <<permits, failed, synced, head, task, retries, result, alerted>>

-----------------------------------------------------------------------------
(* The task of a block: process_block, and what main does with its result *)

\* The mutant compares retry_count after incrementing it.
MutRetryOneMore(b) ==
  \/ /\ retries[b] <= Retries + 1
     /\ retries' = [retries EXCEPT ![b] = @ + 1]
     /\ UNCHANGED <<task, result>>
  \/ /\ retries[b] > Retries + 1
     /\ task' = [task EXCEPT ![b] = IF Alerting THEN "alert" ELSE "flag"]
     /\ result' = [result EXCEPT ![b] = "err"]
     /\ UNCHANGED retries

\* The mutant raises the flag before the alert was attempted.
MutRetryNoAlert(b) ==
  \/ /\ retries[b] <= Retries
     /\ retries' = [retries EXCEPT ![b] = @ + 1]
     /\ UNCHANGED <<task, result>>
  \/ /\ retries[b] > Retries
     /\ task' = [task EXCEPT ![b] = "flag"]
     /\ result' = [result EXCEPT ![b] = "err"]
     /\ UNCHANGED retries

\* The Err arm of both loops: retry, or return the error to main, which
\* alerts first if a client is configured.
RetryOrFail(b) ==
  \/ /\ retries[b] <= Retries
     /\ retries' = [retries EXCEPT ![b] = @ + 1]
     /\ UNCHANGED <<task, result>>
  \/ /\ retries[b] > Retries
     /\ task' = [task EXCEPT ![b] = IF Alerting THEN "alert" ELSE "flag"]
     /\ result' = [result EXCEPT ![b] = "err"]
     /\ UNCHANGED retries

\* wait_for_block returns Ok: get_block_by_number answered Some.  While it
\* answers None the task sleeps and asks again, which changes nothing.
WaitOk(b) ==
  /\ task[b] = "wait"
  /\ b <= head
  /\ task' = [task EXCEPT ![b] = "execute"]
  /\ retries' = [retries EXCEPT ![b] = 0]
  /\ UNCHANGED <<driverVars, permits, failed, head, result, alerted>>

\* wait_for_block returns Err: the RPC call failed.
WaitErr(b) ==
  /\ task[b] = "wait"
  /\ RetryOrFail(b)
  /\ UNCHANGED <<driverVars, permits, failed, head, alerted>>

ExecOk(b) ==
  /\ task[b] = "execute"
  /\ task' = [task EXCEPT ![b] = "drop"]
  /\ result' = [result EXCEPT ![b] = "ok"]
  /\ UNCHANGED <<driverVars, permits, failed, head, retries, alerted>>

ExecErr(b) ==
  /\ task[b] = "execute"
  /\ RetryOrFail(b)
  /\ UNCHANGED <<driverVars, permits, failed, head, alerted>>

\* The mutant leaks the permit of a task that unwinds.
MutExecPanic(b) ==
  /\ task[b] = "execute"
  /\ task' = [task EXCEPT ![b] = "ended"]
  /\ result' = [result EXCEPT ![b] = "panic"]
  /\ UNCHANGED <<driverVars, permits, failed, head, retries, alerted>>

\* execute panics (an unwrap or expect on its way): the task unwinds, its
\* permit is dropped, neither the alert nor the flag is reached.
ExecPanic(b) ==
  /\ task[b] = "execute"
  /\ task' = [task EXCEPT ![b] = "ended"]
  /\ result' = [result EXCEPT ![b] = "panic"]
  /\ permits' = permits + 1
  /\ UNCHANGED <<driverVars, failed, head, retries, alerted>>

\* send_alert returns; whether it was delivered is only logged.
SendAlert(b) ==
  /\ task[b] = "alert"
  /\ alerted' = alerted \union {b}
  /\ task' = [task EXCEPT ![b] = "flag"]
  /\ UNCHANGED <<driverVars, permits, failed, head, retries, result>>

\* The mutant forgets the store.
MutStoreFlag(b) ==
  /\ task[b] = "flag"
  /\ task' = [task EXCEPT ![b] = "drop"]
  /\ UNCHANGED <<driverVars, permits, failed, head, retries, result, alerted>>

\* flag.store(true, Relaxed)
StoreFlag(b) ==
  /\ task[b] = "flag"
  /\ failed' = TRUE
  /\ task' = [task EXCEPT ![b] = "drop"]
  /\ UNCHANGED <<driverVars, permits, head, retries, result, alerted>>

\* drop(permit)
DropPermit(b) ==
  /\ task[b] = "drop"
  /\ permits' = permits + 1
  /\ task' = [task EXCEPT ![b] = "ended"]
  /\ UNCHANGED <<driverVars, failed, head, retries, result, alerted>>

\* main has panicked and the runtime is being dropped: the future of a task
\* that has not ended is dropped at one of its awaits, its permit with it.
Cancel(b) ==
  /\ driver = "panicked"
  /\ Live(b)
  /\ task' = [task EXCEPT ![b] = "ended"]
  /\ result' = [result EXCEPT ![b] = IF task[b] = "drop" THEN @ ELSE "cancelled"]
  /\ permits' = permits + 1
  /\ UNCHANGED <<driverVars, failed, head, retries, alerted>>

-----------------------------------------------------------------------------

\* The chain grows by a block.
NewBlock ==
  /\ head < LastBlock
  /\ head' = head + 1
  /\ UNCHANGED <<driverVars, permits, failed, taskVars, alerted>>

\* The process has exited, or the model's bound is reached.
Quiet ==
  /\ \A b \in Blocks : ~Live(b)
  /\ driver = "panicked" \/ block > LastBlock
  /\ UNCHANGED vars

Loop == Acquire \/ Spawn \/ CheckPanic \/ CheckPass

Task(b) ==
  \/ WaitOk(b) \/ WaitErr(b)
  \/ ExecOk(b) \/ ExecErr(b) \/ ExecPanic(b)
  \/ SendAlert(b) \/ StoreFlag(b) \/ DropPermit(b)
  \/ Cancel(b)

Next == Loop \/ NewBlock \/ Quiet \/ \E b \in Blocks : Task(b)

Spec == Init /\ [][Next]_vars

\* tokio polls every task that can make progress, the loop of main among
\* them.  Beyond the scheduler this assumes that the chain grows, that an RPC
\* call and an execution return, and that the alert's HTTP request returns
\* (the client sets no timeout).
Fairness ==
  /\ WF_vars(Loop)
  /\ WF_vars(NewBlock)
  /\ \A b \in Blocks : WF_vars(Task(b))

FairSpec == Spec /\ Fairness

-----------------------------------------------------------------------------
(* Properties *)

LiveTasks == {b \in Blocks : Live(b)}

\* Every permit is available, or held by the loop between its acquire and its
\* spawn, or by exactly one live task, on every way a task can end: success,
\* failure, unwinding, cancellation.  A leak would starve the driver, a
\* permit returned twice would exceed max_concurrent_executions.
PermitConservation ==
  permits + Cardinality(LiveTasks) + (IF driver = "spawn" THEN 1 ELSE 0)
    = MaxConcurrent

\* The driver exits only because of a block that used up its retries, and by
\* then the alert for that block has been attempted: the alert is awaited
\* before the flag is stored, so no interleaving lets the exit overtake it.
ExitIsExplained ==
  driver = "panicked" =>
    \E b \in Blocks : result[b] = "err" /\ (Alerting => b \in alerted)

\* Where a block stands for an observer of the driver.
StatusOf(b) ==
  CASE task[b] = "none" -> "pending"
    [] Live(b) -> "running"
    [] OTHER -> CASE result[b] = "ok" -> "done"
                  [] result[b] = "err" -> "failed"
                  [] OTHER -> "lost"

\* The starts the loop can still make.  Two once a failure is reported: the
\* permit already taken, and the one whose acquire makes the store visible,
\* since the flag is loaded after the spawn.
StartsLeft ==
  CASE ~FailureReported -> 2
    [] FailureReported /\ ~synced -> IF driver = "spawn" THEN 2 ELSE 1
    [] FailureReported /\ synced -> IF driver = "spawn" THEN 1 ELSE 0

Pipeline == INSTANCE BlockPipeline WITH
  status <- [b \in Blocks |-> StatusOf(b)],
  startsLeft <- StartsLeft,
  Slack <- 2

\* The driver implements the pipeline: blocks start in order, none is skipped
\* or started twice, at most MaxConcurrent are in flight, and after a failed
\* task has returned its permit at most two more blocks are started.
ImplementsPipeline == Pipeline!Spec

\* A reported failure brings the driver down, with one more block than the one
\* in hand at most: the failing task's own permit lets the loop acquire, and
\* from then on the check cannot miss the flag.
FailureStopsDriver ==
  FailureReported /\ block < LastBlock ~> driver = "panicked"

\* The loop never starves: each block it comes to is processed to some end,
\* or the driver exits.
EveryBlockEnds ==
  \A b \in Blocks : (block = b) ~> (task[b] = "ended" \/ driver = "panicked")

\* cli.rs documents execution_retries as the "Retry count on failed
\* execution": a block would be retried at most that often.
RetriesAsDocumented ==
  \A b \in Blocks : task[b] = "execute" => retries[b] <= Retries

\* bin/continuous/Cargo.toml asks for panic = 'abort' in release builds: once
\* a task has panicked, no block would be started any more.
PanicStartsNothing ==
  [][(\E b \in Blocks : result[b] = "panic")
       => \A c \in Blocks : task[c] = "none" => task'[c] = "none"]_vars
=============================================================================
