-------------------------- MODULE ContinuousProofs --------------------------
(***************************************************************************)
(* Proofs about the continuous driver for every number of blocks, permits  *)
(* and retries: its types, the conservation of permits, what an exit of    *)
(* the driver implies, and that it implements BlockPipeline.               *)
(***************************************************************************)
EXTENDS Continuous, FiniteSetTheorems, TLAPS

\* The loop has spawned the tasks of exactly the blocks it has come past.
OrderInv ==
  /\ FirstBlock <= block
  /\ driver \in {"spawn", "check"} => block \in Blocks
  /\ \A b \in Blocks :
       task[b] = "none" <=>
         \/ block < b
         \/ block = b /\ driver \in {"acquire", "spawn"}

\* How a block ended is known from alert on, and not before.
ResultInv ==
  \A b \in Blocks :
    /\ task[b] \in {"none", "wait", "execute"} => result[b] = "none"
    /\ task[b] \in {"alert", "flag"} => result[b] = "err"
    /\ task[b] = "drop" => result[b] \in {"ok", "err"}

\* Storing the flag precedes returning the permit, and the loop checks the
\* flag before it takes the permit that makes it visible a second time.
FlagInv ==
  /\ \A b \in Blocks : task[b] \in {"drop", "ended"} /\ result[b] = "err" => failed
  /\ synced => FailureReported /\ driver # "acquire"

\* The alert precedes the store.
AlertInv ==
  /\ \A b \in Blocks : task[b] = "flag" /\ Alerting => b \in alerted
  /\ failed => \E b \in Blocks : /\ task[b] \in {"drop", "ended"}
                                 /\ result[b] = "err"
                                 /\ Alerting => b \in alerted
  /\ driver = "panicked" => failed

IInv ==
  /\ TypeOK
  /\ OrderInv
  /\ ResultInv
  /\ FlagInv
  /\ AlertInv
  /\ PermitConservation

-----------------------------------------------------------------------------
(* Counting the live tasks *)

LEMMA LiveTasksFinite == IsFiniteSet(LiveTasks) /\ Cardinality(LiveTasks) \in Nat
<1>1. IsFiniteSet(Blocks)
  BY ConstantsAssumption, FS_Interval DEF Blocks
<1>2. LiveTasks \in SUBSET Blocks
  BY DEF LiveTasks
<1>3. IsFiniteSet(LiveTasks)
  BY <1>1, <1>2, FS_Subset
<1> QED
  BY <1>3, FS_CardinalityType

\* A task that moves between live states changes nothing in the count.
LEMMA LiveTaskMoves ==
  ASSUME TypeOK, NEW b \in Blocks, Live(b), NEW s \in LiveStates,
         task' = [task EXCEPT ![b] = s]
  PROVE  Cardinality(LiveTasks') = Cardinality(LiveTasks)
<1>1. LiveTasks' = LiveTasks
  BY DEF LiveTasks, Live, TypeOK
<1> QED
  BY <1>1

\* A task that ends leaves one live task less.
LEMMA LiveTaskEnds ==
  ASSUME TypeOK, NEW b \in Blocks, Live(b),
         task' = [task EXCEPT ![b] = "ended"]
  PROVE  Cardinality(LiveTasks') = Cardinality(LiveTasks) - 1
<1>1. LiveTasks' = LiveTasks \ {b}
  BY DEF LiveTasks, Live, LiveStates, TypeOK
<1>2. b \in LiveTasks
  BY DEF LiveTasks
<1> QED
  BY <1>1, <1>2, LiveTasksFinite, FS_RemoveElement

\* A task that is spawned is one live task more.
LEMMA LiveTaskStarts ==
  ASSUME TypeOK, NEW b \in Blocks, task[b] = "none",
         task' = [task EXCEPT ![b] = "wait"]
  PROVE  Cardinality(LiveTasks') = Cardinality(LiveTasks) + 1
<1>1. LiveTasks' = LiveTasks \union {b}
  BY DEF LiveTasks, Live, LiveStates, TypeOK
<1>2. b \notin LiveTasks
  BY DEF LiveTasks, Live, LiveStates
<1> QED
  BY <1>1, <1>2, LiveTasksFinite, FS_AddElement

-----------------------------------------------------------------------------
(* The invariant *)

LEMMA InitEstablishes == Init => IInv
<1> SUFFICES ASSUME Init PROVE IInv
  OBVIOUS
<1> USE ConstantsAssumption DEF Init
<1>1. TypeOK
  <2>1. /\ driver \in {"acquire", "spawn", "check", "panicked"}
        /\ block \in Nat /\ permits \in Nat /\ head \in Int
    OBVIOUS
  <2>5. failed \in BOOLEAN /\ synced \in BOOLEAN /\ alerted \in SUBSET Blocks
    OBVIOUS
  <2>2. task \in [Blocks -> LiveStates \union {"none", "ended"}]
    OBVIOUS
  <2>3. retries \in [Blocks -> 0..(Retries + 1)]
    OBVIOUS
  <2>4. result \in [Blocks -> {"none", "ok", "err", "panic", "cancelled"}]
    OBVIOUS
  <2> QED
    BY <2>1, <2>2, <2>3, <2>4, <2>5 DEF TypeOK
<1>2. OrderInv /\ ResultInv
  BY DEF OrderInv, ResultInv, Blocks
<1>3. FlagInv /\ AlertInv
  BY DEF FlagInv, AlertInv
<1>4. PermitConservation
  <2>1. LiveTasks = {}
    BY DEF LiveTasks, Live, LiveStates
  <2> QED
    BY <2>1, FS_EmptySet DEF PermitConservation
<1> QED
  BY <1>1, <1>2, <1>3, <1>4 DEF IInv

\* A task that fails one more time, whichever call it was in.
LEMMA RetryOrFailKeeps ==
  ASSUME IInv, NEW b \in Blocks, task[b] \in {"wait", "execute"},
         RetryOrFail(b),
         UNCHANGED <<driverVars, permits, failed, head, alerted>>
  PROVE  IInv'
<1> USE ConstantsAssumption DEF IInv, driverVars
<1>1. CASE retries[b] <= Retries /\ retries' = [retries EXCEPT ![b] = @ + 1]
           /\ UNCHANGED <<task, result>>
  <2>1. TypeOK'
    BY <1>1 DEF TypeOK
  <2>2. LiveTasks' = LiveTasks
    BY <1>1 DEF LiveTasks, Live
  <2> QED
    BY <1>1, <2>1, <2>2 DEF OrderInv, ResultInv, FlagInv, AlertInv,
       PermitConservation, FailureReported
<1>2. CASE /\ task' = [task EXCEPT ![b] = IF Alerting THEN "alert" ELSE "flag"]
           /\ result' = [result EXCEPT ![b] = "err"]
           /\ UNCHANGED retries
  <2>1. TypeOK'
    BY <1>2 DEF TypeOK, LiveStates
  <2>2. OrderInv' /\ ResultInv'
    BY <1>2 DEF OrderInv, ResultInv, TypeOK
  <2>3. FlagInv' /\ AlertInv'
    BY <1>2 DEF FlagInv, AlertInv, FailureReported, TypeOK
  <2>4. PermitConservation'
    <3>1. Cardinality(LiveTasks') = Cardinality(LiveTasks)
      BY <1>2, LiveTaskMoves DEF Live, LiveStates
    <3> QED
      BY <1>2, <3>1 DEF PermitConservation
  <2> QED
    BY <2>1, <2>2, <2>3, <2>4
<1> QED
  BY <1>1, <1>2 DEF RetryOrFail


LEMMA LoopKeeps ==
  ASSUME IInv, Loop
  PROVE  IInv'
<1> USE ConstantsAssumption DEF IInv
<1>1. CASE Acquire
  <2> USE <1>1 DEF Acquire
  <2>1. TypeOK'
    BY DEF TypeOK, FailureReported
  <2>2. OrderInv' /\ ResultInv'
    BY DEF OrderInv, ResultInv
  <2>3. FlagInv' /\ AlertInv'
    BY DEF FlagInv, AlertInv, FailureReported
  <2>4. LiveTasks' = LiveTasks
    BY DEF LiveTasks, Live
  <2> QED
    BY <2>1, <2>2, <2>3, <2>4, LiveTasksFinite DEF PermitConservation, TypeOK
<1>2. CASE Spawn
  <2> USE <1>2 DEF Spawn
  <2>1. block \in Blocks /\ task[block] = "none"
    BY DEF OrderInv, TypeOK, Blocks
  <2>2. TypeOK'
    BY DEF TypeOK, LiveStates
  <2>3. OrderInv' /\ ResultInv'
    BY <2>1 DEF OrderInv, ResultInv, TypeOK, Blocks
  <2>4. FlagInv' /\ AlertInv'
    BY <2>1 DEF FlagInv, AlertInv, FailureReported, TypeOK
  <2>5. Cardinality(LiveTasks') = Cardinality(LiveTasks) + 1
    BY <2>1, LiveTaskStarts
  <2> QED
    BY <2>2, <2>3, <2>4, <2>5, LiveTasksFinite DEF PermitConservation, TypeOK
<1>3. CASE CheckPanic \/ CheckPass
  <2> USE <1>3 DEF CheckPanic, CheckPass
  <2>1. TypeOK'
    BY DEF TypeOK
  <2>2. OrderInv' /\ ResultInv'
    BY DEF OrderInv, ResultInv, TypeOK, Blocks
  <2>3. FlagInv' /\ AlertInv'
    BY DEF FlagInv, AlertInv, FailureReported
  <2>4. LiveTasks' = LiveTasks
    BY DEF LiveTasks, Live
  <2> QED
    BY <2>1, <2>2, <2>3, <2>4 DEF PermitConservation
<1> QED
  BY <1>1, <1>2, <1>3 DEF Loop

LEMMA TaskKeeps ==
  ASSUME IInv, NEW b \in Blocks, Task(b)
  PROVE  IInv'
<1> USE ConstantsAssumption DEF IInv, driverVars
<1>1. CASE WaitOk(b)
  <2> USE <1>1 DEF WaitOk
  <2>1. TypeOK'
    BY DEF TypeOK, LiveStates
  <2>2. OrderInv' /\ ResultInv'
    BY DEF OrderInv, ResultInv, TypeOK
  <2>3. FlagInv' /\ AlertInv'
    BY DEF FlagInv, AlertInv, FailureReported, TypeOK
  <2>4. Cardinality(LiveTasks') = Cardinality(LiveTasks)
    BY LiveTaskMoves DEF Live, LiveStates
  <2> QED
    BY <2>1, <2>2, <2>3, <2>4 DEF PermitConservation
<1>2. CASE WaitErr(b) \/ ExecErr(b)
  BY <1>2, RetryOrFailKeeps DEF WaitErr, ExecErr
<1>3. CASE ExecOk(b)
  <2> USE <1>3 DEF ExecOk
  <2>1. TypeOK'
    BY DEF TypeOK, LiveStates
  <2>2. OrderInv' /\ ResultInv'
    BY DEF OrderInv, ResultInv, TypeOK
  <2>3. FlagInv' /\ AlertInv'
    BY DEF FlagInv, AlertInv, ResultInv, FailureReported, TypeOK
  <2>4. Cardinality(LiveTasks') = Cardinality(LiveTasks)
    BY LiveTaskMoves DEF Live, LiveStates
  <2> QED
    BY <2>1, <2>2, <2>3, <2>4 DEF PermitConservation
<1>4. CASE ExecPanic(b)
  <2> USE <1>4 DEF ExecPanic
  <2>1. TypeOK'
    BY DEF TypeOK, LiveStates
  <2>2. OrderInv' /\ ResultInv'
    BY DEF OrderInv, ResultInv, TypeOK
  <2>3. FlagInv' /\ AlertInv'
    BY DEF FlagInv, AlertInv, ResultInv, FailureReported, TypeOK
  <2>4. Cardinality(LiveTasks') = Cardinality(LiveTasks) - 1
    BY LiveTaskEnds DEF Live, LiveStates
  <2> QED
    BY <2>1, <2>2, <2>3, <2>4, LiveTasksFinite DEF PermitConservation, TypeOK
<1>5. CASE SendAlert(b)
  <2> USE <1>5 DEF SendAlert
  <2>1. TypeOK'
    BY DEF TypeOK, LiveStates
  <2>2. OrderInv' /\ ResultInv'
    BY DEF OrderInv, ResultInv, TypeOK
  <2>3. FlagInv' /\ AlertInv'
    BY DEF FlagInv, AlertInv, FailureReported, TypeOK
  <2>4. Cardinality(LiveTasks') = Cardinality(LiveTasks)
    BY LiveTaskMoves DEF Live, LiveStates
  <2> QED
    BY <2>1, <2>2, <2>3, <2>4 DEF PermitConservation
<1>6. CASE StoreFlag(b)
  <2> USE <1>6 DEF StoreFlag
  <2>1. TypeOK'
    BY DEF TypeOK, LiveStates
  <2>2. OrderInv' /\ ResultInv'
    BY DEF OrderInv, ResultInv, TypeOK
  <2>3. FlagInv' /\ AlertInv'
    BY DEF FlagInv, AlertInv, ResultInv, FailureReported, TypeOK
  <2>4. Cardinality(LiveTasks') = Cardinality(LiveTasks)
    BY LiveTaskMoves DEF Live, LiveStates
  <2> QED
    BY <2>1, <2>2, <2>3, <2>4 DEF PermitConservation
<1>7. CASE DropPermit(b)
  <2> USE <1>7 DEF DropPermit
  <2>1. TypeOK'
    BY DEF TypeOK, LiveStates
  <2>2. OrderInv' /\ ResultInv'
    BY DEF OrderInv, ResultInv, TypeOK
  <2>3. FlagInv' /\ AlertInv'
    BY DEF FlagInv, AlertInv, FailureReported, TypeOK
  <2>4. Cardinality(LiveTasks') = Cardinality(LiveTasks) - 1
    BY LiveTaskEnds DEF Live, LiveStates
  <2> QED
    BY <2>1, <2>2, <2>3, <2>4, LiveTasksFinite DEF PermitConservation, TypeOK
<1>8. CASE Cancel(b)
  <2> USE <1>8 DEF Cancel
  <2>1. TypeOK'
    BY DEF TypeOK, LiveStates
  <2>2. OrderInv' /\ ResultInv'
    BY DEF OrderInv, ResultInv, TypeOK, Live, LiveStates
  <2>3. FlagInv' /\ AlertInv'
    BY DEF FlagInv, AlertInv, FailureReported, TypeOK, Live, LiveStates
  <2>4. Cardinality(LiveTasks') = Cardinality(LiveTasks) - 1
    BY LiveTaskEnds
  <2> QED
    BY <2>1, <2>2, <2>3, <2>4, LiveTasksFinite DEF PermitConservation, TypeOK
<1> QED
  BY <1>1, <1>2, <1>3, <1>4, <1>5, <1>6, <1>7, <1>8 DEF Task

\* The chain growing, the process at rest and stuttering touch no part of the
\* invariant but the type of head.
LEMMA StutterKeeps ==
  ASSUME IInv, NewBlock \/ UNCHANGED vars
  PROVE  IInv'
<1> USE DEF IInv, NewBlock, vars, driverVars, taskVars
<1>1. TypeOK'
  BY DEF TypeOK
<1>2. LiveTasks' = LiveTasks
  BY DEF LiveTasks, Live
<1> QED
  BY <1>1, <1>2 DEF OrderInv, ResultInv, FlagInv, AlertInv, PermitConservation,
     FailureReported

LEMMA Inductive == Spec => []IInv
<1>1. IInv /\ [Next]_vars => IInv'
  BY LoopKeeps, TaskKeeps, StutterKeeps DEF Next, Quiet
<1> QED
  BY <1>1, InitEstablishes, PTL DEF Spec

-----------------------------------------------------------------------------
(* The theorems *)

\* Every variable keeps its type, in particular no task's retry_count passes
\* max_retries + 1: there are at most max_retries + 2 attempts.
THEOREM TypeCorrect == Spec => []TypeOK
<1>1. IInv => TypeOK
  BY DEF IInv
<1> QED
  BY <1>1, Inductive, PTL

\* No permit is leaked or returned twice, for any number of blocks, permits
\* and retries.
THEOREM PermitsConserved == Spec => []PermitConservation
<1>1. IInv => PermitConservation
  BY DEF IInv
<1> QED
  BY <1>1, Inductive, PTL

\* The driver never exits without a block that used up its retries and whose
\* alert was attempted.
THEOREM ExitExplained == Spec => []ExitIsExplained
<1>1. IInv => ExitIsExplained
  BY DEF IInv, AlertInv, ExitIsExplained
<1> QED
  BY <1>1, Inductive, PTL

-----------------------------------------------------------------------------
(* Refinement: the driver implements BlockPipeline *)

\* The refinement mapping's status.
PipelineStatus == [b \in Blocks |-> StatusOf(b)]

\* The running blocks of the pipeline are the live tasks.
LEMMA RunningIsLive ==
  ASSUME TypeOK
  PROVE  Pipeline!Running = LiveTasks
<1>1. Pipeline!Running = {b \in Blocks : StatusOf(b) = "running"}
  BY DEF Pipeline!Running, Pipeline!Blocks, Blocks
<1>2. \A b \in Blocks : StatusOf(b) = "running" <=> Live(b)
  BY DEF StatusOf, Live, LiveStates
<1> QED
  BY <1>1, <1>2 DEF LiveTasks

LEMMA SomeFailedIsReported ==
  ASSUME TypeOK
  PROVE  Pipeline!SomeFailed <=> FailureReported
<1>1. \A b \in Blocks :
        StatusOf(b) = "failed" <=> task[b] = "ended" /\ result[b] = "err"
  BY DEF StatusOf, Live, LiveStates, TypeOK
<1> QED
  BY <1>1 DEF Pipeline!SomeFailed, Pipeline!Blocks, Blocks, FailureReported

LEMMA InitRefines ==
  ASSUME Init PROVE Pipeline!Init
<1>1. \A b \in Blocks : StatusOf(b) = "pending"
  BY DEF Init, StatusOf, Live, LiveStates
<1>2. StartsLeft = 2
  BY DEF Init, StartsLeft, FailureReported
<1> QED
  BY <1>1, <1>2 DEF Pipeline!Init, Pipeline!Blocks, Blocks


\* A task that stays live keeps the status of every block and reports nothing.
LEMMA MovesStutter ==
  ASSUME TypeOK, TypeOK', NEW b \in Blocks, Live(b), Live(b)',
         \A c \in Blocks \ {b} : task'[c] = task[c] /\ result'[c] = result[c],
         UNCHANGED <<driver, synced>>
  PROVE  UNCHANGED <<PipelineStatus, StartsLeft>>
<1>1. \A c \in Blocks : StatusOf(c)' = StatusOf(c)
  BY DEF StatusOf, Live, LiveStates
<1>2. FailureReported' = FailureReported
  BY DEF FailureReported, Live, LiveStates
<1> QED
  BY <1>1, <1>2 DEF PipelineStatus, StartsLeft

\* Nothing changes for the pipeline when no task and no result changes and
\* the loop stands where the same number of starts are left.
LEMMA LoopStutters ==
  ASSUME TypeOK, UNCHANGED <<task, result>>, StartsLeft' = StartsLeft
  PROVE  UNCHANGED <<PipelineStatus, StartsLeft>>
BY DEF PipelineStatus, StatusOf, Live, LiveStates

\* A live task that ends settles its block or reports it as failed.
LEMMA EndsSettle ==
  ASSUME IInv, TypeOK', NEW b \in Blocks, Live(b),
         task' = [task EXCEPT ![b] = "ended"],
         \A c \in Blocks \ {b} : result'[c] = result[c],
         UNCHANGED <<driver, synced>>
  PROVE  Pipeline!Settle(b) \/ Pipeline!Fail(b)
<1> USE DEF IInv
<1>1. PipelineStatus[b] = "running"
  BY DEF PipelineStatus, StatusOf, Live, LiveStates
<1>2. task'[b] = "ended" /\ \A c \in Blocks \ {b} : task'[c] = task[c]
  BY DEF TypeOK
<1>3. \A c \in Blocks \ {b} : StatusOf(c)' = StatusOf(c)
  BY <1>2 DEF StatusOf, Live, LiveStates
<1>4. PipelineStatus' = [PipelineStatus EXCEPT ![b] = StatusOf(b)']
  BY <1>3 DEF PipelineStatus
<1>5. CASE result'[b] = "err"
  <2>1. StatusOf(b)' = "failed"
    BY <1>2, <1>5 DEF StatusOf, Live, LiveStates
  <2>2. FailureReported'
    BY <1>2, <1>5 DEF FailureReported
  <2>3. StartsLeft \in 0..2 /\ StartsLeft' \in 0..StartsLeft
    BY <2>2 DEF StartsLeft, FlagInv, TypeOK
  <2> QED
    BY <1>1, <1>4, <2>1, <2>3 DEF Pipeline!Fail, PipelineStatus
<1>6. CASE result'[b] # "err"
  <2>1. StatusOf(b)' \in {"done", "lost"}
    BY <1>2, <1>6 DEF StatusOf, Live, LiveStates
  <2>2. FailureReported' = FailureReported
    BY <1>2, <1>6 DEF FailureReported, Live, LiveStates
  <2>3. StartsLeft' = StartsLeft
    BY <2>2 DEF StartsLeft
  <2> QED
    BY <1>1, <1>4, <2>1, <2>3 DEF Pipeline!Settle, PipelineStatus
<1> QED
  BY <1>5, <1>6

\* Spawning a task starts the next block in order, within the permits, and
\* uses up one of the starts left after a failure.
LEMMA SpawnStarts ==
  ASSUME IInv, TypeOK', Spawn
  PROVE  block \in Blocks /\ Pipeline!Start(block)
<1> USE DEF IInv, Spawn
<1>1. block \in Blocks /\ task[block] = "none"
  BY DEF OrderInv, TypeOK, Blocks
<1>2. PipelineStatus[block] = "pending"
  BY <1>1 DEF PipelineStatus, StatusOf, Live, LiveStates
<1>3. \A a \in FirstBlock..(block - 1) : PipelineStatus[a] # "pending"
  <2>1. ASSUME NEW a \in FirstBlock..(block - 1)
        PROVE  a \in Blocks /\ task[a] # "none"
    BY <1>1, ConstantsAssumption DEF OrderInv, Blocks, TypeOK
  <2>2. ASSUME NEW a \in Blocks, task[a] # "none"
        PROVE  StatusOf(a) # "pending"
    BY <2>2 DEF StatusOf
  <2> QED
    BY <2>1, <2>2 DEF PipelineStatus
<1>4. Pipeline!Cardinality(Pipeline!Running) < MaxConcurrent
  <2>1. Cardinality(Pipeline!Running) < MaxConcurrent
    BY RunningIsLive, LiveTasksFinite, ConstantsAssumption
       DEF PermitConservation, TypeOK
  <2>2. \A S : Pipeline!Cardinality(S) = Cardinality(S)
    BY DEF Pipeline!Cardinality, Pipeline!IsFiniteSet, Cardinality, IsFiniteSet
  <2> QED
    BY <2>1, <2>2
<1>5. task'[block] = "wait" /\ \A c \in Blocks \ {block} : task'[c] = task[c]
  BY <1>1 DEF TypeOK
<1>6. PipelineStatus' = [PipelineStatus EXCEPT ![block] = "running"]
  <2>1. StatusOf(block)' = "running"
    BY <1>1, <1>5 DEF StatusOf, Live, LiveStates
  <2>2. \A c \in Blocks \ {block} : StatusOf(c)' = StatusOf(c)
    BY <1>5 DEF StatusOf, Live, LiveStates
  <2> QED
    BY <1>1, <2>1, <2>2 DEF PipelineStatus
<1>7. FailureReported' = FailureReported
  BY <1>1, <1>5 DEF FailureReported
<1>8. /\ StartsLeft > 0
      /\ StartsLeft' = IF FailureReported THEN StartsLeft - 1 ELSE StartsLeft
  BY <1>7 DEF StartsLeft, FlagInv, TypeOK
<1> QED
  BY <1>1, <1>2, <1>3, <1>4, <1>6, <1>8, SomeFailedIsReported
     DEF Pipeline!Start, PipelineStatus

LEMMA LoopRefines ==
  ASSUME IInv, IInv', Loop
  PROVE  \/ \E b \in Blocks : Pipeline!Start(b)
         \/ UNCHANGED <<PipelineStatus, StartsLeft>>
<1> USE DEF IInv
<1>1. CASE Spawn
  BY <1>1, SpawnStarts
<1>2. CASE Acquire
  <2>1. StartsLeft' = StartsLeft
    BY <1>2 DEF Acquire, StartsLeft, FailureReported, FlagInv
  <2> QED
    BY <1>2, <2>1, LoopStutters DEF Acquire
<1>3. CASE CheckPanic \/ CheckPass
  <2>1. StartsLeft' = StartsLeft
    BY <1>3 DEF CheckPanic, CheckPass, StartsLeft, FailureReported
  <2> QED
    BY <1>3, <2>1, LoopStutters DEF CheckPanic, CheckPass
<1> QED
  BY <1>1, <1>2, <1>3 DEF Loop

LEMMA TaskRefines ==
  ASSUME IInv, IInv', NEW b \in Blocks, Task(b)
  PROVE  \/ Pipeline!Settle(b) \/ Pipeline!Fail(b)
         \/ UNCHANGED <<PipelineStatus, StartsLeft>>
<1> USE DEF IInv, driverVars
<1>1. CASE WaitOk(b) \/ ExecOk(b) \/ SendAlert(b) \/ StoreFlag(b)
  <2>1. /\ Live(b) /\ Live(b)' /\ UNCHANGED <<driver, synced>>
        /\ \A c \in Blocks \ {b} : task'[c] = task[c] /\ result'[c] = result[c]
    BY <1>1 DEF WaitOk, ExecOk, SendAlert, StoreFlag, Live, LiveStates, TypeOK
  <2> QED
    BY <2>1, MovesStutter
<1>2. CASE WaitErr(b) \/ ExecErr(b)
  <2>1. /\ Live(b) /\ Live(b)' /\ UNCHANGED <<driver, synced>>
        /\ \A c \in Blocks \ {b} : task'[c] = task[c] /\ result'[c] = result[c]
    BY <1>2 DEF WaitErr, ExecErr, RetryOrFail, Live, LiveStates, TypeOK
  <2> QED
    BY <2>1, MovesStutter
<1>3. CASE ExecPanic(b) \/ DropPermit(b) \/ Cancel(b)
  <2>1. /\ Live(b) /\ task' = [task EXCEPT ![b] = "ended"]
        /\ UNCHANGED <<driver, synced>>
        /\ \A c \in Blocks \ {b} : result'[c] = result[c]
    BY <1>3 DEF ExecPanic, DropPermit, Cancel, Live, LiveStates, TypeOK
  <2> QED
    BY <2>1, EndsSettle
<1> QED
  BY <1>1, <1>2, <1>3 DEF Task

LEMMA StepRefines ==
  ASSUME IInv, IInv', [Next]_vars
  PROVE  [Pipeline!Next]_(Pipeline!vars)
<1>1. CASE Loop
  BY <1>1, LoopRefines DEF Pipeline!Next, Pipeline!vars, PipelineStatus,
     Pipeline!Blocks, Blocks
<1>2. CASE \E b \in Blocks : Task(b)
  BY <1>2, TaskRefines DEF Pipeline!Next, Pipeline!vars, PipelineStatus,
     Pipeline!Blocks, Blocks
<1>3. CASE NewBlock \/ UNCHANGED vars
  <2>1. StartsLeft' = StartsLeft
    BY <1>3 DEF NewBlock, vars, driverVars, taskVars, StartsLeft, FailureReported
  <2>2. UNCHANGED <<PipelineStatus, StartsLeft>>
    BY <1>3, <2>1, LoopStutters DEF IInv, NewBlock, vars, taskVars
  <2> QED
    BY <2>2 DEF Pipeline!vars, PipelineStatus
<1> QED
  BY <1>1, <1>2, <1>3 DEF Next, Quiet

\* The driver implements the pipeline for any number of blocks, permits and
\* retries: order, concurrency bound, and two starts at most after a failure.
THEOREM Refinement == Spec => ImplementsPipeline
<1>1. Init => Pipeline!Init
  BY InitRefines
<1>2. IInv /\ IInv' /\ [Next]_vars => [Pipeline!Next]_(Pipeline!vars)
  BY StepRefines
<1> QED
  BY <1>1, <1>2, Inductive, PTL DEF Spec, ImplementsPipeline, Pipeline!Spec
=============================================================================
