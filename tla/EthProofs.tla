----------------------------- MODULE EthProofs -----------------------------
(***************************************************************************)
(* The eth-proofs binary, bin/eth-proofs/src: main takes the headers of a  *)
(* subscription one at a time, drops those the block interval does not     *)
(* select, waits until the HTTP provider serves the block and executes it. *)
(* The hooks report the phases of an execution to the proofs API, each in  *)
(* a detached task that retries on its own.                                *)
(*                                                                         *)
(* A header is named by its place in the subscription, since the same      *)
(* number is announced again when a reorganisation replaces a block; the   *)
(* job of a selected header has its name.                                  *)
(*                                                                         *)
(* The subscription is a broadcast channel: it keeps the last Capacity     *)
(* headers, and a reader that is slower than that goes on at the oldest    *)
(* one it still has.                                                       *)
(***************************************************************************)
EXTENDS Integers, Sequences, FiniteSets

CONSTANTS
  Settings,       \* the command lines considered
  Capacity,       \* headers the subscription buffers
  MaxRetries,     \* retries of one post; the code sets 3
  LastBlock,      \* bound of the model: the chain stops growing here
  MaxHeaders,     \* bound of the model: headers announced
  MaxFaults,      \* bound of the model: posts that go wrong
  MaxReorgs       \* bound of the model: blocks announced again

ASSUME ConstantsAssumption ==
  /\ Settings \subseteq [interval : Nat, prove : BOOLEAN, alerting : BOOLEAN]
  /\ Capacity \in Nat \ {0}
  /\ MaxRetries \in Nat
  /\ LastBlock \in Nat
  /\ MaxHeaders \in Nat
  /\ MaxFaults \in Nat
  /\ MaxReorgs \in Nat

Job == 1..MaxHeaders

Kind == {"queued", "proving", "proved"}

\* A report is about a job and a phase of it.
Report == Job \X Kind

VARIABLES
  settings,  \* the command line of this process
  head,      \* the latest block of the chain
  headers,   \* numbers announced by the subscription so far
  closed,    \* the WS provider has given up: no header will follow
  served,    \* the latest block the HTTP provider serves
  pc,        \* where the loop of main stands
  cursor,    \* the next header of the subscription main would read
  job,       \* the job in hand
  status,    \* what has become of each job
  alerted,   \* jobs whose alert was attempted
  post,      \* where the task of each report stands
  tries,     \* retries the task has used
  arrived,   \* how often the report has reached the API
  faults,    \* posts that went wrong
  reorgs     \* blocks announced again

chainVars == <<head, headers, closed, served, reorgs>>
mainVars == <<pc, cursor, job, status, alerted>>
postVars == <<post, tries, arrived, faults>>
vars == <<settings, chainVars, mainVars, postVars>>

Exited == pc \in {"returned", "failed", "panicked"}

PostState == {"none", "pending", "done", "refused", "failed", "cancelled"}

TypeOK ==
  /\ settings \in Settings
  /\ head \in 0..LastBlock
  /\ headers \in Seq(0..LastBlock) /\ Len(headers) <= MaxHeaders
  /\ closed \in BOOLEAN
  /\ served \in 0..head
  /\ pc \in {"next", "wait", "start", "host", "client", "prove", "alert",
             "returned", "failed", "panicked"}
  /\ cursor \in 1..(Len(headers) + 1)
  /\ job \in 0..Len(headers)
  /\ status \in [Job -> {"none", "running", "ok", "err"}]
  /\ alerted \in SUBSET Job
  /\ post \in [Report -> PostState]
  /\ tries \in [Report -> 0..MaxRetries]
  /\ arrived \in [Report -> 0..(MaxRetries + 1)]
  /\ faults \in 0..MaxFaults
  /\ reorgs \in 0..MaxReorgs

-----------------------------------------------------------------------------

Init ==
  /\ settings \in Settings
  /\ head = 0
  /\ headers = <<>>
  /\ closed = FALSE
  /\ served = 0
  /\ pc = "next"
  /\ cursor = 1
  /\ job = 0
  /\ status = [j \in Job |-> "none"]
  /\ alerted = {}
  /\ post = [r \in Report |-> "none"]
  /\ tries = [r \in Report |-> 0]
  /\ arrived = [r \in Report |-> 0]
  /\ faults = 0
  /\ reorgs = 0

-----------------------------------------------------------------------------
(* The providers *)

\* The chain grows, and its header is announced while the subscription lives.
NewBlock ==
  /\ head < LastBlock
  /\ head' = head + 1
  /\ IF ~closed /\ Len(headers) < MaxHeaders
       THEN headers' = Append(headers, head')
       ELSE UNCHANGED headers
  /\ UNCHANGED <<settings, closed, served, reorgs, mainVars, postVars>>

\* A reorganisation: a block of a number that is already there is announced.
Reannounce ==
  /\ reorgs < MaxReorgs
  /\ ~closed /\ Len(headers) < MaxHeaders
  /\ \E n \in 1..head : headers' = Append(headers, n)
  /\ reorgs' = reorgs + 1
  /\ UNCHANGED <<settings, head, closed, served, mainVars, postVars>>

\* The WS provider gives up reconnecting and drops the channel.
Close ==
  /\ ~closed
  /\ closed' = TRUE
  /\ UNCHANGED <<settings, head, headers, served, reorgs, mainVars, postVars>>

\* The HTTP provider follows the chain.
Serve ==
  /\ served < head
  /\ served' = served + 1
  /\ UNCHANGED <<settings, head, headers, closed, reorgs, mainVars, postVars>>

-----------------------------------------------------------------------------
(* The loop of main *)

\* The oldest header the subscription still has for main.
Oldest ==
  IF Len(headers) - cursor < Capacity THEN cursor ELSE Len(headers) - Capacity + 1

Selected(i) == headers[i] % settings.interval = 0

\* The mutant ignores a number that is not above the last one it took up.
MutReceive ==
  /\ pc = "next"
  /\ cursor <= Len(headers)
  /\ settings.interval # 0
  /\ cursor' = Oldest + 1
  /\ LET taken == Selected(Oldest) /\ IF job = 0 THEN TRUE ELSE headers[Oldest] > headers[job]
     IN \/ /\ taken
           /\ job' = Oldest
           /\ status' = [status EXCEPT ![Oldest] = "running"]
           /\ pc' = "wait"
        \/ /\ ~taken
           /\ UNCHANGED <<job, status, pc>>
  /\ UNCHANGED <<settings, chainVars, alerted, postVars>>

\* stream.next(): the filter is applied to the next header.
Receive ==
  /\ pc = "next"
  /\ cursor <= Len(headers)
  /\ settings.interval # 0
  /\ cursor' = Oldest + 1
  /\ \/ /\ Selected(Oldest)
        /\ job' = Oldest
        /\ status' = [status EXCEPT ![Oldest] = "running"]
        /\ pc' = "wait"
     \/ /\ ~Selected(Oldest)
        /\ UNCHANGED <<job, status, pc>>
  /\ UNCHANGED <<settings, chainVars, alerted, postVars>>

\* The filter divides by an interval of zero.
ReceivePanics ==
  /\ pc = "next"
  /\ cursor <= Len(headers)
  /\ settings.interval = 0
  /\ pc' = "panicked"
  /\ UNCHANGED <<settings, chainVars, cursor, job, status, alerted, postVars>>

\* stream.next() is None: main returns Ok.
StreamEnds ==
  /\ pc = "next"
  /\ closed /\ cursor > Len(headers)
  /\ pc' = "returned"
  /\ UNCHANGED <<settings, chainVars, cursor, job, status, alerted, postVars>>

\* The mutant waits until a block has been built on this one.
MutWaitOk ==
  /\ pc = "wait"
  /\ headers[job] < served
  /\ pc' = "start"
  /\ UNCHANGED <<settings, chainVars, cursor, job, status, alerted, postVars>>

\* wait_for_block returns Ok; until then it sleeps and asks again.
WaitOk ==
  /\ pc = "wait"
  /\ headers[job] <= served
  /\ pc' = "start"
  /\ UNCHANGED <<settings, chainVars, cursor, job, status, alerted, postVars>>

\* A call of wait_for_block fails: main returns the error at once.
WaitFails ==
  /\ pc = "wait"
  /\ pc' = "failed"
  /\ UNCHANGED <<settings, chainVars, cursor, job, status, alerted, postVars>>

-----------------------------------------------------------------------------
(* FullExecutor::execute as this binary runs it, without a cache directory *)

\* A hook spawns the task that posts the report of a phase.
SpawnPost(k) == post' = [post EXCEPT ![<<job, k>>] = "pending"]

\* on_execution_start
Start ==
  /\ pc = "start"
  /\ SpawnPost("queued")
  /\ pc' = "host"
  /\ UNCHANGED <<settings, chainVars, cursor, job, status, alerted,
                 tries, arrived, faults>>

\* The host executor returns an input; process_client reports proving first
\* if it is to prove.
HostOk ==
  /\ pc = "host"
  /\ \/ /\ settings.prove
        /\ SpawnPost("proving")
        /\ pc' = "prove"
     \/ /\ ~settings.prove
        /\ pc' = "client"
        /\ UNCHANGED post
  /\ UNCHANGED <<settings, chainVars, cursor, job, status, alerted,
                 tries, arrived, faults>>

\* The mutant goes on without an alert after an error.
MutFail ==
  /\ status' = [status EXCEPT ![job] = "err"]
  /\ pc' = "next"
  /\ UNCHANGED <<settings, chainVars, cursor, job, alerted, postVars>>

\* execute returns an error: main alerts if it can and goes on.
Fail ==
  /\ status' = [status EXCEPT ![job] = "err"]
  /\ pc' = IF settings.alerting THEN "alert" ELSE "next"
  /\ UNCHANGED <<settings, chainVars, cursor, job, alerted, postVars>>

\* The host executor, the prover (whose panics spawn_blocking turns into
\* errors) or the client fails.
ExecuteErr ==
  /\ pc \in {"host", "prove", "client"}
  /\ Fail

\* An unwrap on the way panics in main: the host executor's or, without
\* proving, that of the dump or of the public values.
ExecutePanics ==
  /\ pc \in {"host", "client"}
  /\ pc' = "panicked"
  /\ UNCHANGED <<settings, chainVars, cursor, job, status, alerted, postVars>>

\* The mutant reports the proof before it is there.
MutProveOk ==
  /\ pc = "prove"
  /\ SpawnPost("proved")
  /\ pc' = "client"
  /\ UNCHANGED <<settings, chainVars, cursor, job, status, alerted,
                 tries, arrived, faults>>

\* The prover returns a proof: on_proving_end.
ProveOk ==
  /\ pc = "prove"
  /\ SpawnPost("proved")
  /\ status' = [status EXCEPT ![job] = "ok"]
  /\ pc' = "next"
  /\ UNCHANGED <<settings, chainVars, cursor, job, alerted,
                 tries, arrived, faults>>

\* The guest ran; on_execution_end does nothing here.
ClientOk ==
  /\ pc = "client"
  /\ status' = [status EXCEPT ![job] = "ok"]
  /\ pc' = "next"
  /\ UNCHANGED <<settings, chainVars, cursor, job, alerted, postVars>>

\* send_alert returns; whether it was delivered is only logged.
SendAlert ==
  /\ pc = "alert" /\ settings.alerting
  /\ alerted' = alerted \union {job}
  /\ pc' = "next"
  /\ UNCHANGED <<settings, chainVars, cursor, job, status, postVars>>

-----------------------------------------------------------------------------
(* The task of a report *)

\* The mutant counts a retry only after it was allowed once more.
MutRetry(r) ==
  /\ faults < MaxFaults
  /\ faults' = faults + 1
  /\ \/ /\ tries[r] <= MaxRetries
        /\ tries' = [tries EXCEPT ![r] = @ + 1]
        /\ UNCHANGED post
     \/ /\ tries[r] > MaxRetries
        /\ post' = [post EXCEPT ![r] = "failed"]
        /\ UNCHANGED tries

\* The mutant gives up at the first error.
MutNoRetry(r) ==
  /\ faults < MaxFaults
  /\ faults' = faults + 1
  /\ post' = [post EXCEPT ![r] = "failed"]
  /\ UNCHANGED tries

\* A transient error: the middleware tries again, up to MaxRetries times.
Retry(r) ==
  /\ faults < MaxFaults
  /\ faults' = faults + 1
  /\ \/ /\ tries[r] < MaxRetries
        /\ tries' = [tries EXCEPT ![r] = @ + 1]
        /\ UNCHANGED post
     \/ /\ tries[r] = MaxRetries
        /\ post' = [post EXCEPT ![r] = "failed"]
        /\ UNCHANGED tries

Arrive(r) == arrived' = [arrived EXCEPT ![r] = @ + 1]

\* The request arrives and its answer is a success.
Deliver(r) ==
  /\ post[r] = "pending"
  /\ Arrive(r)
  /\ post' = [post EXCEPT ![r] = "done"]
  /\ UNCHANGED <<settings, chainVars, mainVars, tries, faults>>

\* The API refuses it for good: only logged.
Refuse(r) ==
  /\ post[r] = "pending"
  /\ faults < MaxFaults
  /\ faults' = faults + 1
  /\ post' = [post EXCEPT ![r] = "refused"]
  /\ UNCHANGED <<settings, chainVars, mainVars, tries, arrived>>

\* The request is lost on its way.
Unreachable(r) ==
  /\ post[r] = "pending"
  /\ Retry(r)
  /\ UNCHANGED <<settings, chainVars, mainVars, arrived>>

\* The request arrives and its answer is lost.
Unanswered(r) ==
  /\ post[r] = "pending"
  /\ Arrive(r)
  /\ Retry(r)
  /\ UNCHANGED <<settings, chainVars, mainVars>>

\* main has ended and the runtime drops the tasks that have not.
Cancel ==
  /\ Exited
  /\ \E r \in Report : post[r] = "pending"
  /\ post' = [r \in Report |-> IF post[r] = "pending" THEN "cancelled" ELSE post[r]]
  /\ UNCHANGED <<settings, chainVars, mainVars, tries, arrived, faults>>

-----------------------------------------------------------------------------

\* What the providers do matters as long as main runs.
Environment == NewBlock \/ Reannounce \/ Close \/ Serve

Main ==
  \/ Receive \/ ReceivePanics \/ StreamEnds
  \/ WaitOk \/ Start
  \/ HostOk \/ ExecuteErr \/ ExecutePanics \/ ProveOk \/ ClientOk
  \/ SendAlert

\* A task's steps do not depend on main's, so that those it takes while the
\* runtime shuts down could as well have come before main's last.
Post(r) == Deliver(r) \/ Refuse(r) \/ Unreachable(r) \/ Unanswered(r)

\* The process has exited, or main waits for a header the bounds do not allow.
Quiet ==
  /\ \A r \in Report : post[r] # "pending"
  /\ Exited \/ (pc = "next" /\ cursor > Len(headers))
  /\ UNCHANGED vars

Next ==
  \/ ~Exited /\ (Environment \/ Main \/ WaitFails \/ \E r \in Report : Post(r))
  \/ Cancel
  \/ Quiet

Spec == Init /\ [][Next]_vars

\* tokio polls main and every task that can make progress.  Beyond the
\* scheduler this assumes that the HTTP provider catches up with the chain,
\* that the host executor and the prover return, and that an HTTP request
\* is answered or fails (neither client sets a timeout).
Fairness ==
  /\ WF_vars(Main)
  /\ WF_vars(~Exited /\ Serve)
  /\ \A r \in Report : WF_vars(~Exited /\ Post(r))

FairSpec == Spec /\ Fairness

-----------------------------------------------------------------------------
(* Properties *)

\* A header main has come past without taking it up, although it was selected.
Missed(i) == i < cursor /\ Selected(i) /\ status[i] = "none"

\* main executes one block at a time while the subscription goes on: it comes
\* past a selected header only if Capacity newer ones had been announced
\* while it was busy.  With room for them, no block of the interval is lost.
MissedByLagOnly ==
  settings.interval # 0 =>
    \A i \in 1..Len(headers) : Missed(i) => i + Capacity <= Len(headers)

\* When main goes on to another header or leaves the loop, the alert for every
\* job that failed so far has been attempted: no error is passed over.
FailuresAreAlerted ==
  settings.alerting =>
    \A j \in Job :
      status[j] = "err" /\ (j # job \/ pc \in {"next", "returned"}) => j \in alerted

\* The last phase a job has begun, as its posts tell.
StageOf(j) ==
  CASE post[<<j, "proved">>] # "none" -> "proved"
    [] post[<<j, "proved">>] = "none" /\ post[<<j, "proving">>] # "none" -> "proving"
    [] OTHER -> IF post[<<j, "queued">>] # "none" THEN "queued" ELSE "idle"

\* The jobs whose proof has been generated.
Proven == {j \in Job : status[j] = "ok" /\ settings.prove}

Reports == INSTANCE ProofReports WITH
  stage <- [j \in Job |-> StageOf(j)],
  proven <- Proven,
  MaxArrivals <- MaxRetries + 1

\* The driver and its posts implement ProofReports: jobs are reported one
\* after another, the phases of a job begin in order, "proved" is posted with
\* the proof and never without, and a report arrives at most once per attempt.
ImplementsReports == Reports!Spec

\* A job that was announced and selected is executed to an end, or main has
\* lagged behind it or exited: an error, a lost report or a slow API never
\* keeps main from the next header.
EveryHeaderIsHandled ==
  \A i \in Job :
    (i <= Len(headers) /\ settings.interval # 0 /\ Selected(i))
      ~> (status[i] \in {"ok", "err"} \/ Missed(i) \/ Exited)

\* A report that was posted arrives, or the API refused it, or every retry was
\* used up, or the process has exited under it.
ReportsArrive ==
  \A r \in Report :
    post[r] = "pending" ~>
      (arrived[r] > 0 \/ post[r] = "refused" \/ Exited
        \/ (post[r] = "failed" /\ tries[r] = MaxRetries))
=============================================================================
