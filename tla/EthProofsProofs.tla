-------------------------- MODULE EthProofsProofs --------------------------
(***************************************************************************)
(* Proofs about the eth-proofs driver for every command line, channel      *)
(* capacity and number of retries: its types, that headers are missed only *)
(* by lagging behind, that failures are alerted, and that it implements    *)
(* ProofReports.                                                           *)
(***************************************************************************)
EXTENDS EthProofs, TLAPS

\* main has a job in hand that has not ended.
Busy == {"wait", "start", "host", "client", "prove"}

\* The job in hand is the last one main has come to, and it is running.
OrderInv ==
  /\ job < cursor
  /\ pc \in Busy => job \in Job /\ status[job] = "running"
  /\ pc = "alert" => job \in Job
  /\ pc = "client" => ~settings.prove
  /\ pc = "prove" => settings.prove
  /\ \A j \in Job : j >= cursor => status[j] = "none"

\* The posts of the job in hand follow the loop, those of later jobs are none.
StageInv ==
  /\ \A j \in Job : j > job => StageOf(j) = "idle"
  /\ pc \in {"wait", "start"} => StageOf(job) = "idle"
  /\ pc = "host" => StageOf(job) = "queued"
  /\ pc = "prove" => StageOf(job) = "proving"

\* A report arrives once per attempt at most.
CountInv ==
  \A r \in Report :
    /\ arrived[r] <= tries[r] + 1
    /\ post[r] \in {"none", "pending"} => arrived[r] <= tries[r]

\* A failed job that has no alert yet is the one being alerted.
AlertInv ==
  settings.alerting =>
    \A j \in Job : status[j] = "err" => j \in alerted \/ (j = job /\ pc = "alert")

IInv ==
  /\ TypeOK
  /\ OrderInv
  /\ StageInv
  /\ CountInv
  /\ AlertInv
  /\ MissedByLagOnly

-----------------------------------------------------------------------------

\* Every job and every header is within the bounds of the model.
LEMMA JobsAreHeaders ==
  ASSUME TypeOK
  PROVE  1..Len(headers) \subseteq Job
BY ConstantsAssumption DEF TypeOK, Job

\* A job whose posts stay or are taken over by another state keeps its stage.
LEMMA StageKept ==
  ASSUME NEW j \in Job,
         \A k \in Kind : post'[<<j, k>>] = "none" <=> post[<<j, k>>] = "none"
  PROVE  StageOf(j)' = StageOf(j)
BY DEF StageOf, Kind

\* The stage that a post of a job moves it to.
LEMMA StageMoves ==
  ASSUME TypeOK, NEW j \in Job, NEW k \in Kind,
         post' = [post EXCEPT ![<<j, k>>] = "pending"],
         StageOf(j) = CASE k = "queued" -> "idle"
                        [] k = "proving" -> "queued"
                        [] k = "proved" -> "proving"
  PROVE  /\ StageOf(j)' = k
         /\ \A i \in Job \ {j} : StageOf(i)' = StageOf(i)
<1>1. \A i \in Job, l \in Kind :
        post'[<<i, l>>] = IF i = j /\ l = k THEN "pending" ELSE post[<<i, l>>]
  BY DEF TypeOK, Report
<1>2. StageOf(j)' = k
  BY <1>1 DEF StageOf, Kind
<1>3. \A i \in Job \ {j} : StageOf(i)' = StageOf(i)
  BY <1>1 DEF StageOf, Kind
<1> QED
  BY <1>2, <1>3

LEMMA InitEstablishes == Init => IInv
<1> SUFFICES ASSUME Init PROVE IInv
  OBVIOUS
<1> USE ConstantsAssumption DEF Init
<1>1. TypeOK
  <2>1. headers \in Seq(0..LastBlock) /\ Len(headers) = 0
    OBVIOUS
  <2>5. /\ head \in 0..LastBlock /\ served \in 0..head
        /\ cursor \in 1..(Len(headers) + 1) /\ job \in 0..Len(headers)
        /\ faults \in 0..MaxFaults /\ reorgs \in 0..MaxReorgs
    BY <2>1
  <2>6. /\ settings \in Settings /\ closed \in BOOLEAN
        /\ pc \in {"next", "wait", "start", "host", "client", "prove", "alert",
                   "returned", "failed", "panicked"}
        /\ alerted \in SUBSET Job
    OBVIOUS
  <2>7. Len(headers) <= MaxHeaders
    BY <2>1
  <2>2. status \in [Job -> {"none", "running", "ok", "err"}]
    OBVIOUS
  <2>3. post \in [Report -> PostState]
    BY DEF PostState
  <2>4. tries \in [Report -> 0..MaxRetries] /\ arrived \in [Report -> 0..(MaxRetries + 1)]
    OBVIOUS
  <2> HIDE DEF Init
  <2> QED
    BY <2>1, <2>2, <2>3, <2>4, <2>5, <2>6, <2>7 DEF TypeOK
<1>2. OrderInv
  BY DEF OrderInv, Busy
<1>3. StageInv
  BY DEF StageInv, StageOf, Report, Kind
<1>4. CountInv /\ AlertInv
  BY DEF CountInv, AlertInv
<1>5. MissedByLagOnly
  BY DEF MissedByLagOnly
<1> QED
  BY <1>1, <1>2, <1>3, <1>4, <1>5 DEF IInv

-----------------------------------------------------------------------------
(* The steps of the providers *)

\* A header is appended to the subscription, or none is.
LEMMA AnnounceKeeps ==
  ASSUME IInv, UNCHANGED <<settings, mainVars, postVars>>,
         head' \in head..LastBlock, served' \in 0..head',
         closed' \in BOOLEAN, reorgs' \in 0..MaxReorgs,
         headers' = headers \/ (Len(headers) < MaxHeaders
           /\ \E n \in 0..LastBlock : headers' = Append(headers, n))
  PROVE  IInv'
<1> USE ConstantsAssumption DEF IInv, mainVars, postVars
<1>1. /\ headers' \in Seq(0..LastBlock)
      /\ Len(headers) <= Len(headers') /\ Len(headers') <= MaxHeaders
      /\ \A i \in 1..Len(headers) : headers'[i] = headers[i]
  <2>1. headers \in Seq(0..LastBlock) /\ Len(headers) <= MaxHeaders
    BY DEF TypeOK
  <2>2. CASE headers' = headers
    BY <2>1, <2>2
  <2>3. ASSUME Len(headers) < MaxHeaders,
               NEW n \in 0..LastBlock, headers' = Append(headers, n)
        PROVE  /\ headers' \in Seq(0..LastBlock)
               /\ Len(headers) <= Len(headers') /\ Len(headers') <= MaxHeaders
               /\ \A i \in 1..Len(headers) : headers'[i] = headers[i]
    BY <2>1, <2>3
  <2> QED
    BY <2>2, <2>3
<1>2. TypeOK'
  BY <1>1 DEF TypeOK
<1>3. OrderInv' /\ CountInv' /\ AlertInv'
  BY DEF OrderInv, CountInv, AlertInv
<1>4. StageInv'
  BY DEF StageInv, StageOf
<1>5. MissedByLagOnly'
  <2> SUFFICES ASSUME settings.interval # 0, NEW i \in 1..Len(headers'), Missed(i)'
               PROVE  i + Capacity <= Len(headers')
    BY DEF MissedByLagOnly
  <2>1. i < cursor /\ i \in 1..Len(headers)
    BY DEF Missed, TypeOK
  <2>2. headers'[i] = headers[i]
    BY <1>1, <2>1
  <2>3. Missed(i)
    BY <2>2 DEF Missed, Selected
  <2> QED
    BY <1>1, <2>1, <2>3 DEF MissedByLagOnly, TypeOK
<1> QED
  BY <1>2, <1>3, <1>4, <1>5

LEMMA EnvironmentKeeps == IInv /\ Environment => IInv'
<1> SUFFICES ASSUME IInv, Environment PROVE IInv'
  OBVIOUS
<1> USE ConstantsAssumption
<1>0. TypeOK
  BY DEF IInv
<1>1. CASE NewBlock
  <2>1. head' \in head..LastBlock /\ served' \in 0..head' /\ head' \in 0..LastBlock
    BY <1>0, <1>1 DEF NewBlock, TypeOK
  <2>2. closed' \in BOOLEAN /\ reorgs' \in 0..MaxReorgs
    BY <1>0, <1>1 DEF NewBlock, TypeOK
  <2> QED
    BY <1>1, <2>1, <2>2, AnnounceKeeps DEF NewBlock
<1>2. CASE Reannounce
  <2>1. head' \in head..LastBlock /\ served' \in 0..head'
    BY <1>0, <1>2 DEF Reannounce, TypeOK
  <2>2. closed' \in BOOLEAN /\ reorgs' \in 0..MaxReorgs
    BY <1>0, <1>2 DEF Reannounce, TypeOK
  <2>3. Len(headers) < MaxHeaders /\ \E n \in 0..LastBlock : headers' = Append(headers, n)
    BY <1>0, <1>2 DEF Reannounce, TypeOK
  <2> QED
    BY <1>2, <2>1, <2>2, <2>3, AnnounceKeeps DEF Reannounce
<1>3. CASE Close
  <2>1. head' \in head..LastBlock /\ served' \in 0..head' /\ reorgs' \in 0..MaxReorgs
    BY <1>0, <1>3 DEF Close, TypeOK
  <2> QED
    BY <1>3, <2>1, AnnounceKeeps DEF Close
<1>4. CASE Serve
  <2>1. head' \in head..LastBlock /\ served' \in 0..head'
    BY <1>0, <1>4 DEF Serve, TypeOK
  <2>2. closed' \in BOOLEAN /\ reorgs' \in 0..MaxReorgs
    BY <1>0, <1>4 DEF Serve, TypeOK
  <2> QED
    BY <1>4, <2>1, <2>2, AnnounceKeeps DEF Serve
<1> QED
  BY <1>1, <1>2, <1>3, <1>4 DEF Environment

-----------------------------------------------------------------------------
(* The steps of main *)

\* main comes past a header.
LEMMA ReceiveKeeps ==
  ASSUME IInv, Receive
  PROVE  IInv'
<1> USE ConstantsAssumption DEF IInv, Receive, chainVars, postVars
<1>1. Oldest \in cursor..Len(headers) /\ (cursor < Oldest => Oldest + Capacity = Len(headers) + 1)
  BY DEF Oldest, TypeOK
<1>2. Oldest \in Job
  BY <1>1, JobsAreHeaders DEF TypeOK
<1>3. TypeOK'
  BY <1>1, <1>2 DEF TypeOK
<1>4. OrderInv'
  BY <1>1, <1>2 DEF OrderInv, Busy, TypeOK
<1>5. StageInv'
  <2>1. \A j \in Job : StageOf(j)' = StageOf(j)
    BY StageKept
  <2>2. Oldest > job
    BY <1>1 DEF OrderInv, TypeOK
  <2> QED
    BY <1>1, <1>2, <2>1, <2>2 DEF StageInv, TypeOK
<1>6. CountInv' /\ AlertInv'
  BY <1>2 DEF CountInv, AlertInv, TypeOK
<1>7. MissedByLagOnly'
  <2> SUFFICES ASSUME NEW i \in 1..Len(headers), Missed(i)'
               PROVE  i + Capacity <= Len(headers)
    BY DEF MissedByLagOnly
  <2>1. i \in Job /\ i <= Oldest /\ Selected(i) /\ status'[i] = "none"
    <3>1. headers' = headers /\ settings' = settings /\ cursor' = Oldest + 1
      OBVIOUS
    <3>2. i < Oldest + 1 /\ Selected(i) /\ status'[i] = "none"
      BY <3>1 DEF Missed, Selected
    <3> HIDE DEF Receive
    <3>3. i \in Job
      BY JobsAreHeaders
    <3>4. i <= Oldest
      BY <1>1, <3>2 DEF TypeOK
    <3> QED
      BY <3>2, <3>3, <3>4
  <2>2. i # Oldest /\ status[i] = "none"
    BY <1>2, <2>1 DEF TypeOK
  <2>3. CASE i < cursor
    BY <2>1, <2>2, <2>3 DEF MissedByLagOnly, Missed
  <2>4. CASE i >= cursor
    BY <1>1, <2>1, <2>2, <2>4 DEF TypeOK
  <2> QED
    BY <2>3, <2>4 DEF TypeOK
<1> QED
  BY <1>3, <1>4, <1>5, <1>6, <1>7

\* main moves on without touching its jobs or their posts.
LEMMA PcMoves ==
  ASSUME IInv, UNCHANGED <<settings, chainVars, cursor, job, status, alerted, postVars>>,
         \/ pc' \in {"returned", "panicked", "failed"} /\ pc # "alert"
         \/ pc = "wait" /\ pc' = "start"
         \/ pc = "host" /\ pc' = "client" /\ ~settings.prove
  PROVE  IInv'
<1> USE DEF IInv, chainVars, postVars
<1>1. TypeOK'
  BY DEF TypeOK
<1>2. OrderInv'
  BY DEF OrderInv, Busy
<1>3. StageInv'
  BY DEF StageInv, StageOf
<1>4. CountInv' /\ AlertInv'
  BY DEF CountInv, AlertInv
<1>5. MissedByLagOnly'
  BY DEF MissedByLagOnly, Missed, Selected
<1> QED
  BY <1>1, <1>2, <1>3, <1>4, <1>5

\* The job in hand ends, and its alert may follow.
LEMMA JobEnds ==
  ASSUME IInv, pc \in Busy, NEW s \in {"ok", "err"},
         status' = [status EXCEPT ![job] = s],
         IF s = "err" /\ settings.alerting THEN pc' = "alert" ELSE pc' = "next",
         UNCHANGED <<settings, chainVars, cursor, job, alerted, tries, arrived, faults>>,
         post' \in [Report -> PostState],
         \A r \in Report : r[1] # job => post'[r] = post[r],
         \A r \in Report : post'[r] # post[r] => post[r] = "none" /\ post'[r] = "pending"
  PROVE  IInv'
<1> USE DEF IInv, chainVars
<1>0. job \in Job
  BY DEF OrderInv, Busy
<1>1. TypeOK'
  BY <1>0 DEF TypeOK
<1>2. OrderInv'
  BY <1>0 DEF OrderInv, Busy, TypeOK
<1>3. StageInv'
  <2>1. \A j \in Job : j > job => StageOf(j)' = StageOf(j)
    <3> SUFFICES ASSUME NEW j \in Job, j > job
                 PROVE  StageOf(j)' = StageOf(j)
      OBVIOUS
    <3>1. \A k \in Kind : <<j, k>> \in Report /\ <<j, k>>[1] # job
      BY <1>0 DEF Report, Job
    <3> QED
      BY <3>1, StageKept
  <2> QED
    BY <2>1 DEF StageInv
<1>4. CountInv'
  BY DEF CountInv, TypeOK
<1>5. AlertInv'
  BY <1>0 DEF AlertInv, TypeOK, Busy
<1>6. MissedByLagOnly'
  <2> SUFFICES ASSUME settings.interval # 0, NEW i \in 1..Len(headers), Missed(i)'
               PROVE  i + Capacity <= Len(headers)
    BY DEF MissedByLagOnly
  <2>1. i \in Job /\ Missed(i)
    BY <1>0, JobsAreHeaders DEF Missed, Selected, TypeOK
  <2> QED
    BY <2>1 DEF MissedByLagOnly
<1> QED
  BY <1>1, <1>2, <1>3, <1>4, <1>5, <1>6

\* main starts a phase that is reported.
LEMMA PhaseBegins ==
  ASSUME IInv, NEW k \in {"queued", "proving"}, SpawnPost(k),
         UNCHANGED <<settings, chainVars, cursor, job, status, alerted,
                     tries, arrived, faults>>,
         \/ k = "queued" /\ pc = "start" /\ pc' = "host"
         \/ k = "proving" /\ pc = "host" /\ pc' = "prove" /\ settings.prove
  PROVE  IInv'
<1> USE DEF IInv, chainVars
<1>0. job \in Job /\ <<job, k>> \in Report
  BY DEF OrderInv, Busy, Report, Kind
<1>1. TypeOK'
  BY <1>0 DEF TypeOK, SpawnPost, PostState
<1>2. OrderInv'
  BY DEF OrderInv, Busy
<1>3. StageInv'
  <2>1. StageOf(job)' = k /\ \A i \in Job \ {job} : StageOf(i)' = StageOf(i)
    BY <1>0, StageMoves DEF StageInv, SpawnPost, Kind
  <2> QED
    BY <1>0, <2>1 DEF StageInv, Job
<1>4. CountInv'
  <2>1. post[<<job, k>>] = "none"
    <3>1. StageOf(job) = IF k = "queued" THEN "idle" ELSE "queued"
      BY DEF StageInv
    <3> QED
      BY <3>1 DEF StageOf
  <2> QED
    BY <1>0, <2>1 DEF CountInv, SpawnPost, TypeOK
<1>5. AlertInv' /\ MissedByLagOnly'
  BY DEF AlertInv, MissedByLagOnly, Missed, Selected
<1> QED
  BY <1>1, <1>2, <1>3, <1>4, <1>5

LEMMA MainKeeps == IInv /\ (Main \/ WaitFails) => IInv'
<1> SUFFICES ASSUME IInv, Main \/ WaitFails PROVE IInv'
  OBVIOUS
<1>1. CASE Receive
  BY <1>1, ReceiveKeeps
<1>2. CASE ReceivePanics \/ StreamEnds \/ WaitOk \/ WaitFails \/ ExecutePanics
  BY <1>2, PcMoves DEF ReceivePanics, StreamEnds, WaitOk, WaitFails, ExecutePanics
<1>3. CASE Start
  BY <1>3, PhaseBegins DEF Start
<1>4. CASE HostOk
  <2>1. CASE settings.prove
    BY <1>4, <2>1, PhaseBegins DEF HostOk
  <2>2. CASE ~settings.prove
    BY <1>4, <2>2, PcMoves DEF HostOk, postVars
  <2> QED
    BY <2>1, <2>2
<1>5. CASE ExecuteErr
  <2>1. pc \in Busy /\ Fail
    BY <1>5 DEF ExecuteErr, Busy
  <2>2. post' \in [Report -> PostState]
    BY <2>1 DEF Fail, postVars, IInv, TypeOK
  <2> QED
    BY <2>1, <2>2, JobEnds DEF Fail, postVars
<1>6. CASE ProveOk
  <2>1. pc \in Busy /\ job \in Job /\ <<job, "proved">> \in Report
    BY <1>6 DEF ProveOk, Busy, IInv, OrderInv, Report, Kind
  <2>2. post' = [post EXCEPT ![<<job, "proved">>] = "pending"]
    BY <1>6 DEF ProveOk, SpawnPost
  <2>3. post' \in [Report -> PostState]
    BY <2>1, <2>2 DEF IInv, TypeOK, PostState
  <2>4. post[<<job, "proved">>] = "none"
    <3>1. StageOf(job) = "proving"
      BY <1>6 DEF ProveOk, IInv, StageInv
    <3> QED
      BY <3>1 DEF StageOf
  <2>5. \A r \in Report : r # <<job, "proved">> => post'[r] = post[r]
    BY <2>1, <2>2 DEF IInv, TypeOK
  <2>6. post'[<<job, "proved">>] = "pending"
    BY <2>1, <2>2 DEF IInv, TypeOK
  <2>7. /\ \A r \in Report : r[1] # job => post'[r] = post[r]
        /\ \A r \in Report : post'[r] # post[r] => post[r] = "none" /\ post'[r] = "pending"
    BY <2>4, <2>5, <2>6
  <2> QED
    BY <1>6, <2>1, <2>3, <2>7, JobEnds DEF ProveOk
<1>7. CASE ClientOk
  <2>1. pc \in Busy /\ post' \in [Report -> PostState]
    BY <1>7 DEF ClientOk, Busy, postVars, IInv, TypeOK
  <2> QED
    BY <1>7, <2>1, JobEnds DEF ClientOk, postVars
<1>8. CASE SendAlert
  <2> USE <1>8 DEF SendAlert, IInv, chainVars, postVars
  <2>1. TypeOK' /\ OrderInv'
    BY DEF TypeOK, OrderInv, Busy
  <2>2. StageInv' /\ CountInv'
    BY DEF StageInv, StageOf, CountInv
  <2>3. AlertInv' /\ MissedByLagOnly'
    BY DEF AlertInv, MissedByLagOnly, Missed, Selected
  <2> QED
    BY <2>1, <2>2, <2>3
<1> QED
  BY <1>1, <1>2, <1>3, <1>4, <1>5, <1>6, <1>7, <1>8 DEF Main

-----------------------------------------------------------------------------
(* The steps of the tasks *)

\* A post that moves on, or many that are cancelled, leave main and the stage
\* of every job alone.
LEMMA PostsKeep ==
  ASSUME IInv, UNCHANGED <<settings, chainVars, mainVars>>,
         post' \in [Report -> PostState],
         tries' \in [Report -> 0..MaxRetries],
         arrived' \in [Report -> 0..(MaxRetries + 1)],
         faults' \in 0..MaxFaults,
         \A r \in Report : post'[r] = "none" <=> post[r] = "none",
         CountInv'
  PROVE  IInv'
<1> USE DEF IInv, chainVars, mainVars
<1>1. TypeOK'
  BY DEF TypeOK
<1>2. OrderInv'
  BY DEF OrderInv, Busy
<1>3. StageInv'
  <2>1. \A j \in Job : StageOf(j)' = StageOf(j)
    BY StageKept DEF Report
  <2>2. pc \in Busy => job \in Job
    BY DEF OrderInv
  <2> QED
    BY <2>1, <2>2 DEF StageInv, Busy
<1>4. AlertInv' /\ MissedByLagOnly'
  BY DEF AlertInv, MissedByLagOnly, Missed, Selected
<1> QED
  BY <1>1, <1>2, <1>3, <1>4

LEMMA PostKeeps ==
  ASSUME IInv, NEW r \in Report, Post(r)
  PROVE  IInv'
<1> USE ConstantsAssumption
<1>1. /\ post[r] = "pending" /\ arrived[r] <= tries[r] /\ tries[r] \in 0..MaxRetries
      /\ UNCHANGED <<settings, chainVars, mainVars>>
  BY DEF Post, Deliver, Refuse, Unreachable, Unanswered, IInv, CountInv, TypeOK
<1>2. /\ post \in [Report -> PostState] /\ tries \in [Report -> 0..MaxRetries]
      /\ arrived \in [Report -> 0..(MaxRetries + 1)] /\ faults \in 0..MaxFaults
      /\ CountInv
  BY DEF IInv, TypeOK
<1>3. /\ arrived' = arrived \/ arrived' = [arrived EXCEPT ![r] = @ + 1]
      /\ \/ tries' = tries /\ post' = [post EXCEPT ![r] = "done"]
         \/ tries' = tries /\ post' = [post EXCEPT ![r] = "failed"]
         \/ tries' = tries /\ post' = [post EXCEPT ![r] = "refused"]
         \/ tries' = [tries EXCEPT ![r] = @ + 1] /\ post' = post /\ tries[r] < MaxRetries
      /\ faults' \in 0..MaxFaults
  <2> USE <1>2
  <2>1. CASE Deliver(r)
    BY <2>1 DEF Deliver, Arrive
  <2>2. CASE Refuse(r)
    BY <2>2 DEF Refuse
  <2>3. CASE Unreachable(r)
    BY <2>3 DEF Unreachable, Retry
  <2>4. CASE Unanswered(r)
    BY <2>4 DEF Unanswered, Arrive, Retry
  <2> QED
    BY <2>1, <2>2, <2>3, <2>4 DEF Post
<1>4. post' \in [Report -> PostState] /\ \A q \in Report : post'[q] = "none" <=> post[q] = "none"
  BY <1>1, <1>2, <1>3 DEF PostState
<1>5. tries' \in [Report -> 0..MaxRetries]
  BY <1>1, <1>2, <1>3
<1>6. arrived' \in [Report -> 0..(MaxRetries + 1)]
  BY <1>1, <1>2, <1>3
<1>7. CountInv'
  BY <1>1, <1>2, <1>3, <1>4, <1>5, <1>6 DEF CountInv
<1> QED
  BY <1>1, <1>3, <1>4, <1>5, <1>6, <1>7, PostsKeep

LEMMA CancelKeeps == IInv /\ Cancel => IInv'
<1> SUFFICES ASSUME IInv, Cancel PROVE IInv'
  OBVIOUS
<1>1. post' \in [Report -> PostState] /\ \A q \in Report : post'[q] = "none" <=> post[q] = "none"
  BY DEF IInv, TypeOK, Cancel, PostState
<1>2. CountInv'
  BY DEF IInv, CountInv, Cancel
<1> QED
  BY <1>1, <1>2, PostsKeep DEF Cancel, IInv, TypeOK

LEMMA StutterKeeps == IInv /\ UNCHANGED vars => IInv'
<1> SUFFICES ASSUME IInv, UNCHANGED vars PROVE IInv'
  OBVIOUS
<1> USE DEF vars, chainVars, mainVars, postVars, IInv
<1>1. TypeOK' /\ OrderInv' /\ CountInv'
  BY DEF TypeOK, OrderInv, Busy, CountInv
<1>2. StageInv'
  BY DEF StageInv, StageOf
<1>3. AlertInv' /\ MissedByLagOnly'
  BY DEF AlertInv, MissedByLagOnly, Missed, Selected
<1> QED
  BY <1>1, <1>2, <1>3

LEMMA StepKeeps == IInv /\ [Next]_vars => IInv'
BY EnvironmentKeeps, MainKeeps, PostKeeps, CancelKeeps, StutterKeeps DEF Next, Quiet

THEOREM Invariance == Spec => []IInv
BY InitEstablishes, StepKeeps, PTL DEF Spec

-----------------------------------------------------------------------------
(* The theorems *)

\* Every variable of the driver keeps its type: no post uses more retries than
\* it has or arrives more often than it is tried.
THEOREM TypeCorrect == Spec => []TypeOK
BY Invariance, PTL DEF IInv

\* main misses a selected header only by lagging behind by more than the
\* subscription buffers, for every capacity and interval.
THEOREM MissedByLag == Spec => []MissedByLagOnly
BY Invariance, PTL DEF IInv

\* Every failed job main has left behind has had its alert.
THEOREM FailuresAlerted == Spec => []FailuresAreAlerted
<1>1. IInv => FailuresAreAlerted
  BY DEF IInv, AlertInv, FailuresAreAlerted
<1> QED
  BY <1>1, Invariance, PTL

-----------------------------------------------------------------------------
(* The driver implements ProofReports *)

LEMMA InitMaps == Init => Reports!Init
BY ConstantsAssumption DEF Init, Reports!Init, StageOf, Proven, Reports!Kind, Kind, Report

\* A job that is the last one begun has no later job with a post.
LEMMA JobIsLatest ==
  ASSUME IInv, job \in Job
  PROVE  Reports!Latest(job)
BY DEF IInv, StageInv, Reports!Latest

\* Posts that move on without a new report are a stutter.
LEMMA StageStutters ==
  ASSUME \A r \in Report : post'[r] = "none" <=> post[r] = "none",
         UNCHANGED <<settings, status, arrived>>
  PROVE  UNCHANGED Reports!vars
<1>1. \A j \in Job : StageOf(j)' = StageOf(j)
  BY StageKept DEF Report
<1> QED
  BY <1>1 DEF Reports!vars, Proven

LEMMA ProvenKept ==
  ASSUME IInv, settings' = settings,
         \/ status' = status
         \/ \E j \in Job : \E s \in {"running", "err"} :
              status[j] # "ok" /\ status' = [status EXCEPT ![j] = s]
         \/ ~settings.prove
  PROVE  Proven' = Proven
BY DEF Proven, IInv, TypeOK

\* A report is posted, or main moves on.
LEMMA MainMaps == IInv /\ (Main \/ WaitFails) => [Reports!Next]_(Reports!vars)
<1> SUFFICES ASSUME IInv, Main \/ WaitFails PROVE [Reports!Next]_(Reports!vars)
  OBVIOUS
<1> DEFINE Stage == [j \in Job |-> StageOf(j)]
<1>0. TypeOK
  BY DEF IInv
<1>1. ASSUME UNCHANGED <<settings, postVars>>, Proven' = Proven
      PROVE  UNCHANGED Reports!vars
  <2>1. Stage' = Stage
    BY <1>1 DEF StageOf, postVars
  <2> QED
    BY <1>1, <2>1 DEF Reports!vars, postVars
<1>2. ASSUME NEW k \in Kind, job \in Job, SpawnPost(k),
             StageOf(job) = CASE k = "queued" -> "idle"
                              [] k = "proving" -> "queued"
                              [] k = "proved" -> "proving"
      PROVE  Stage' = [Stage EXCEPT ![job] = k]
  BY <1>0, <1>2, StageMoves DEF SpawnPost
<1>3. CASE Receive
  <2>1. Oldest \in Job /\ status[Oldest] = "none"
    <3>1. Oldest \in cursor..Len(headers)
      BY <1>0, <1>3, ConstantsAssumption DEF Receive, Oldest, TypeOK
    <3> QED
      BY <1>0, <3>1, JobsAreHeaders DEF IInv, OrderInv, TypeOK
  <2>2. Proven' = Proven
    BY <1>3, <2>1, ProvenKept DEF Receive
  <2> QED
    BY <1>1, <1>3, <2>2 DEF Receive
<1>4. CASE ReceivePanics \/ StreamEnds \/ WaitOk \/ WaitFails \/ ExecutePanics \/ SendAlert
  BY <1>1, <1>4 DEF ReceivePanics, StreamEnds, WaitOk, WaitFails, ExecutePanics, SendAlert, Proven
<1>5. CASE Start
  <2>1. job \in Job /\ StageOf(job) = "idle"
    BY <1>5 DEF Start, IInv, OrderInv, StageInv, Busy
  <2>2. Stage' = [Stage EXCEPT ![job] = "queued"] /\ Proven' = Proven /\ arrived' = arrived
    BY <1>2, <1>5, <2>1 DEF Start, Kind, Proven
  <2>3. Reports!Queue(job)
    BY <2>1, <2>2, JobIsLatest DEF Reports!Queue
  <2> QED
    BY <2>1, <2>3 DEF Reports!Next
<1>6. CASE HostOk
  <2>1. job \in Job /\ StageOf(job) = "queued"
    BY <1>6 DEF HostOk, IInv, OrderInv, StageInv, Busy
  <2>2. CASE settings.prove
    <3>1. Stage' = [Stage EXCEPT ![job] = "proving"] /\ Proven' = Proven /\ arrived' = arrived
      BY <1>2, <1>6, <2>1, <2>2 DEF HostOk, Kind, Proven
    <3>2. Reports!Prove(job)
      BY <2>1, <3>1, JobIsLatest DEF Reports!Prove
    <3> QED
      BY <2>1, <3>2 DEF Reports!Next
  <2>3. CASE ~settings.prove
    BY <1>1, <1>6, <2>3 DEF HostOk, postVars, Proven
  <2> QED
    BY <2>2, <2>3
<1>7. CASE ExecuteErr
  <2>1. job \in Job /\ status[job] = "running"
    BY <1>7 DEF ExecuteErr, IInv, OrderInv, Busy
  <2>2. Proven' = Proven
    BY <1>7, <2>1, ProvenKept DEF ExecuteErr, Fail
  <2> QED
    BY <1>1, <1>7, <2>2 DEF ExecuteErr, Fail
<1>8. CASE ProveOk
  <2>1. PICK j \in Job : j = job /\ StageOf(job) = "proving" /\ settings.prove
    BY <1>8 DEF ProveOk, IInv, OrderInv, StageInv, Busy
  <2>2. Stage' = [Stage EXCEPT ![j] = "proved"] /\ arrived' = arrived
    BY <1>2, <1>8, <2>1 DEF ProveOk, Kind
  <2>3. Proven' = Proven \union {j}
    BY <1>0, <1>8, <2>1 DEF ProveOk, TypeOK, Proven
  <2>4. Reports!Latest(j) /\ StageOf(j) = "proving"
    BY <2>1, JobIsLatest
  <2>5. Reports!Complete(j)
    BY <2>2, <2>3, <2>4 DEF Reports!Complete
  <2> QED
    BY <2>5 DEF Reports!Next
<1>9. CASE ClientOk
  <2>1. ~settings.prove
    BY <1>9 DEF ClientOk, IInv, OrderInv
  <2>2. Proven' = Proven
    BY <1>9, <2>1 DEF ClientOk, Proven
  <2> QED
    BY <1>1, <1>9, <2>2 DEF ClientOk
<1> QED
  BY <1>3, <1>4, <1>5, <1>6, <1>7, <1>8, <1>9 DEF Main

\* A task's request arrives, or nothing an observer sees happens.
LEMMA PostMaps ==
  ASSUME IInv, NEW r \in Report, Post(r)
  PROVE  [Reports!Next]_(Reports!vars)
<1>1. PICK j \in Job, k \in Kind : r = <<j, k>>
  BY DEF Report
<1>2. /\ post[r] = "pending" /\ arrived[r] <= tries[r] /\ tries[r] \in 0..MaxRetries
      /\ UNCHANGED <<settings, chainVars, mainVars>>
  BY DEF Post, Deliver, Refuse, Unreachable, Unanswered, IInv, CountInv, TypeOK
<1>3. \A q \in Report : post'[q] = "none" <=> post[q] = "none"
  BY DEF Post, Deliver, Refuse, Unreachable, Unanswered, Retry, IInv, TypeOK
<1>4. status' = status /\ settings' = settings
  BY <1>2 DEF mainVars
<1>5. CASE arrived' = arrived
  BY <1>3, <1>4, <1>5, StageStutters
<1>6. CASE arrived' = [arrived EXCEPT ![r] = @ + 1]
  <2>1. [i \in Job |-> StageOf(i)]' = [i \in Job |-> StageOf(i)]
    BY <1>3, StageKept DEF Report
  <2>2. k \in Reports!Sent(StageOf(j))
    BY <1>1, <1>2 DEF StageOf, Reports!Sent, Reports!Kind, Kind
  <2>3. arrived[<<j, k>>] < MaxRetries + 1
    BY <1>1, <1>2, ConstantsAssumption DEF IInv, TypeOK
  <2>4. Reports!Arrive(j, k)
    BY <1>1, <1>4, <1>6, <2>1, <2>2, <2>3 DEF Reports!Arrive, Proven
  <2> QED
    BY <1>1, <2>4 DEF Reports!Next, Reports!Kind, Kind
<1> QED
  BY <1>5, <1>6 DEF Post, Deliver, Refuse, Unreachable, Unanswered, Arrive

LEMMA StepMaps == IInv /\ [Next]_vars => [Reports!Next]_(Reports!vars)
<1> SUFFICES ASSUME IInv, [Next]_vars PROVE [Reports!Next]_(Reports!vars)
  OBVIOUS
<1>1. CASE Environment
  <2>1. UNCHANGED <<settings, mainVars, postVars>>
    BY <1>1 DEF Environment, NewBlock, Reannounce, Close, Serve
  <2> QED
    BY <2>1, StageStutters DEF mainVars, postVars
<1>2. CASE Main \/ WaitFails
  BY <1>2, MainMaps
<1>3. ASSUME NEW r \in Report, Post(r) PROVE [Reports!Next]_(Reports!vars)
  BY <1>3, PostMaps
<1>4. CASE Cancel
  <2>1. \A q \in Report : post'[q] = "none" <=> post[q] = "none"
    BY <1>4 DEF Cancel
  <2> QED
    BY <1>4, <2>1, StageStutters DEF Cancel, mainVars
<1>5. CASE UNCHANGED vars
  BY <1>5, StageStutters DEF vars, mainVars, postVars
<1> QED
  BY <1>1, <1>2, <1>3, <1>4, <1>5 DEF Next, Quiet

\* The eth-proofs driver with its detached, retried posts implements what
\* ProofReports promises, for every number of jobs and retries.
THEOREM Refinement == Spec => ImplementsReports
<1>1. Reports!Init /\ [][Reports!Next]_(Reports!vars) => ImplementsReports
  BY PTL DEF ImplementsReports, Reports!Spec
<1> QED
  BY <1>1, Invariance, InitMaps, StepMaps, PTL DEF Spec
=============================================================================
