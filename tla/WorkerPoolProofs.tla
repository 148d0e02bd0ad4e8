-------------------------- MODULE WorkerPoolProofs --------------------------
(***************************************************************************)
(* Theorems about WorkerPool, for every number of requests, workers,       *)
(* handlers and trackers, every set of result pages and every bound on     *)
(* submissions and refused claims.                                         *)
(*                                                                         *)
(* PoolShape comes first: rows and workers have their types and a worker   *)
(* that works has a request.  The others rest on it.  DelayInv ties every  *)
(* delay to the attempt it followed, and HoldInv every working worker to a *)
(* row of its own; RankingProofs says what delays and winners are.         *)
(***************************************************************************)
EXTENDS WorkerPool, RankingProofs, SequenceTheorems

USE DEF At, Holding, NewRow, Row, Worker, Closed, Busy, Due, Goto, process

\* What a worker does with the row of its request keeps the types.
LEMMA RecordKeepsShape ==
  ASSUME PoolShape, NEW w \in Workers, Busy(w), NEW at \in {"waiting"} \cup Closed,
         NEW n \in Nat, Record(w, at, n)
  PROVE  /\ row' \in [Requests -> Row]
         /\ worker' \in [Workers -> Worker]
         /\ \A v \in Workers : Busy(v)' => worker'[v].request \in Requests
BY DEF PoolShape, Record

\* handleError is such a write, with a status that the error decides.
LEMMA HandleErrorRecords ==
  ASSUME PoolShape, NEW w \in Workers, Busy(w), NEW err, HandleError(w, err)
  PROVE  \E at \in {"waiting"} \cup Closed, n \in Nat : Record(w, at, n)
<1>1. worker[w].attempts \in Nat
  BY DEF PoolShape
<1>2. CASE err = "transient" /\ worker[w].attempts < MaxAttempts
  BY <1>1, <1>2 DEF HandleError
<1>3. CASE ~(err = "transient" /\ worker[w].attempts < MaxAttempts)
  BY <1>3 DEF HandleError, Close
<1> QED BY <1>2, <1>3

\* The loop of a worker, apart from the search, keeps the types.
LEMMA ShapeRun ==
  ASSUME PoolShape, NEW w \in Workers, RunStep(w) \/ ClaimFails(w)
  PROVE  PoolShape'
<1>1. CASE \E r \in Requests : Claim(w, r)
  BY <1>1 DEF Claim, PoolShape
<1>2. CASE FindNothing(w)
  BY <1>2 DEF FindNothing, PoolShape
<1>3. CASE ClaimFails(w)
  BY <1>3 DEF ClaimFails, PoolShape
<1>4. CASE Sleep(w)
  BY <1>4 DEF Sleep, PoolShape
<1>5. CASE Wake(w)
  BY <1>5 DEF Wake, PoolShape
<1>6. CASE Poll(w)
  BY <1>6 DEF Poll, PoolShape
<1>7. CASE Leave(w)
  BY <1>7 DEF Leave, Return, PoolShape
<1>8. CASE Download(w)
  <2>1. Busy(w)
    BY <1>8 DEF Download
  <2>2. \E at \in {"waiting"} \cup Closed, n \in Nat : Record(w, at, n)
    BY <1>8, <2>1, HandleErrorRecords DEF Download, Close
  <2>3. UNCHANGED <<token, caller, process, missed, submits, faults>>
    BY <1>8 DEF Download
  <2> QED BY <2>1, <2>2, <2>3, RecordKeepsShape DEF PoolShape
<1>9. CASE Abandon(w)
  BY <1>9 DEF Abandon, PoolShape
<1> QED BY <1>1, <1>2, <1>3, <1>4, <1>5, <1>6, <1>7, <1>8, <1>9 DEF RunStep

\* A search round keeps the types.
LEMMA ShapeSearch ==
  ASSUME PoolShape, NEW w \in Workers, SearchStep(w)
  PROVE  PoolShape'
<1>1. PICK all \in Rounds : Search(w, all)
  BY DEF SearchStep
<1>2. Busy(w) /\ UNCHANGED <<token, caller, process, missed, submits, faults>>
  BY <1>1 DEF Search
<1>3. CASE all.candidates # << >>
  BY <1>1, <1>3 DEF Search, PoolShape
<1>4. CASE all.candidates = << >>
  <2>1. \E at \in {"waiting"} \cup Closed, n \in Nat : Record(w, at, n)
    BY <1>1, <1>2, <1>4, HandleErrorRecords DEF Search
  <2> QED BY <1>2, <2>1, RecordKeepsShape DEF PoolShape
<1> QED BY <1>3, <1>4

\* The goroutines that submit work, the clock and the process keep the types.
LEMMA ShapeOthers ==
  ASSUME PoolShape,
         \/ \E c \in Callers : Notify(c) \/ \E S \in SUBSET Requests : Submit(c, S)
         \/ \E r \in Requests : BackoffElapses(r)
         \/ Signal \/ StopServer \/ Exit
  PROVE  PoolShape'
<1>1. CASE \E c \in Callers : Notify(c)
  BY <1>1 DEF Notify, Signalled, PoolShape
<1>2. CASE \E c \in Callers, S \in SUBSET Requests : Submit(c, S)
  BY <1>2, PoolBounds DEF Submit, PoolShape
<1>3. CASE \E r \in Requests : BackoffElapses(r)
  BY <1>3 DEF BackoffElapses, PoolShape
<1>4. CASE Signal \/ StopServer \/ Exit
  BY <1>4 DEF Signal, StopServer, Exit, Process, PoolShape
<1> QED BY <1>1, <1>2, <1>3, <1>4

\* So does every step.
LEMMA ShapeStep == PoolShape /\ [PoolNext]_poolVars => PoolShape'
<1> SUFFICES ASSUME PoolShape, [PoolNext]_poolVars PROVE PoolShape'
  OBVIOUS
<1>1. CASE PoolNext
  BY <1>1, ShapeRun, ShapeSearch, ShapeOthers DEF PoolNext
<1>2. CASE UNCHANGED poolVars
  BY <1>2 DEF poolVars, PoolShape
<1> QED BY <1>1, <1>2

\* The rows that Recover left, and workers that hold nothing yet.
LEMMA ShapeInit == PoolInit => PoolShape
<1> SUFFICES ASSUME PoolInit PROVE PoolShape
  OBVIOUS
<1>1. row \in [Requests -> Row]
  <2>1. \A n \in 0 .. MaxAttempts : n \in Nat
    BY AttemptsAssumption
  <2>2. \A n \in 1 .. MaxAttempts - 1 : n \in Nat
    BY AttemptsAssumption
  <2> QED BY <2>1, <2>2 DEF PoolInit
<1>2. /\ worker \in [Workers -> Worker]
      /\ \A w \in Workers : ~Busy(w)
  BY DEF PoolInit
<1> QED BY <1>1, <1>2 DEF PoolInit, PoolShape, NoRound

\* Rows, workers and callers are always in a state the code knows, and a worker that
\* searches or downloads has a request.
THEOREM PoolShapeCorrect == PoolSpec => []PoolShape
BY ShapeInit, ShapeStep, PTL DEF PoolSpec

-----------------------------------------------------------------------------
\* A worker that is on its feet will claim before it sleeps.
LEMMA WakeupInit == PoolInit => NoLostWakeup
<1> SUFFICES ASSUME PoolInit PROVE NoLostWakeup
  OBVIOUS
<1>1. PICK w \in Workers : TRUE
  BY WorkersAssumption
<1>2. worker[w].pc = "claiming"
  BY DEF PoolInit
<1> QED BY <1>2 DEF NoLostWakeup

\* Nobody takes the last hope of submitted work away without looking for it.
LEMMA WakeupRun ==
  ASSUME PoolShape, NoLostWakeup, NEW w \in Workers, RunStep(w) \/ ClaimFails(w)
  PROVE  NoLostWakeup'
<1>1. CASE \E r \in Requests : Claim(w, r)
  BY <1>1 DEF Claim, PoolShape, NoLostWakeup
<1>2. CASE FindNothing(w)
  BY <1>2 DEF FindNothing, PoolShape, NoLostWakeup
<1>3. CASE ClaimFails(w)
  BY <1>3 DEF ClaimFails, PoolShape, NoLostWakeup
<1>4. CASE Sleep(w)
  BY <1>4 DEF Sleep, PoolShape, NoLostWakeup
<1>5. CASE Wake(w)
  BY <1>5 DEF Wake, PoolShape, NoLostWakeup
<1>6. CASE Poll(w)
  BY <1>6 DEF Poll, PoolShape, NoLostWakeup
<1>7. CASE Leave(w)
  BY <1>7 DEF Leave, Return, PoolShape, NoLostWakeup
<1>8. CASE Download(w)
  <2>1. worker'[w].pc = "claiming"
    BY <1>8 DEF Download, HandleError, Close, Record, PoolShape
  <2> QED BY <2>1 DEF NoLostWakeup
<1>9. CASE Abandon(w)
  BY <1>9 DEF Abandon, PoolShape, NoLostWakeup
<1> QED BY <1>1, <1>2, <1>3, <1>4, <1>5, <1>6, <1>7, <1>8, <1>9 DEF RunStep

\* A worker that ended its search works on or claims again.
LEMMA WakeupSearch ==
  ASSUME PoolShape, NEW w \in Workers, SearchStep(w)
  PROVE  NoLostWakeup'
<1>1. PICK all \in Rounds : Search(w, all)
  BY DEF SearchStep
<1>2. worker'[w].pc \in {"claiming", "downloading"}
  BY <1>1 DEF Search, HandleError, Close, Record, PoolShape
<1> QED BY <1>2 DEF NoLostWakeup

\* Whoever submits work is about to signal, and a full channel is a signal as well.
LEMMA WakeupOthers ==
  ASSUME PoolShape, NoLostWakeup,
         \/ \E c \in Callers : Notify(c) \/ \E S \in SUBSET Requests : Submit(c, S)
         \/ \E r \in Requests : BackoffElapses(r)
         \/ Signal \/ StopServer \/ Exit
  PROVE  NoLostWakeup'
<1>1. CASE \E c \in Callers : Notify(c)
  BY <1>1 DEF Notify, Signalled, PoolShape, NoLostWakeup
<1>2. CASE \E c \in Callers, S \in SUBSET Requests : Submit(c, S)
  BY <1>2 DEF Submit, PoolShape, NoLostWakeup
<1>3. CASE \E r \in Requests : BackoffElapses(r)
  BY <1>3 DEF BackoffElapses, PoolShape, NoLostWakeup
<1>4. CASE Signal \/ StopServer \/ Exit
  BY <1>4 DEF Signal, StopServer, Exit, Process, PoolShape, NoLostWakeup
<1> QED BY <1>1, <1>2, <1>3, <1>4

\* "Notify() makes new work visible immediately" (worker.go): submitted work is never
\* left to the poll, however many goroutines submit and claim at once.
THEOREM WakeupNeverLost == PoolSpec => []NoLostWakeup
<1>1. PoolShape /\ NoLostWakeup /\ [PoolNext]_poolVars => NoLostWakeup'
  <2> SUFFICES ASSUME PoolShape, NoLostWakeup, [PoolNext]_poolVars PROVE NoLostWakeup'
    OBVIOUS
  <2>1. CASE PoolNext
    BY <2>1, WakeupRun, WakeupSearch, WakeupOthers DEF PoolNext
  <2>2. CASE UNCHANGED poolVars
    BY <2>2 DEF poolVars, NoLostWakeup
  <2> QED BY <2>1, <2>2
<1> QED BY <1>1, WakeupInit, PoolShapeCorrect, PTL DEF PoolSpec

-----------------------------------------------------------------------------
\* combineFailures: silence of every tracker and nothing else is an answer, and a
\* failure worth repeating is never lost among others.
LEMMA FailuresCombine ==
  ASSUME NEW outcomes
  PROVE  LET errs == {outcomes[t].err : t \in Trackers} IN
         /\ combineFailures(outcomes) = "no_results" <=> errs = {"no_results"}
         /\ combineFailures(outcomes) = "transient"  <=> "transient" \in errs
         /\ combineFailures(outcomes) \in {"no_results", "transient", "permanent"}
<1>1. PICK t \in Trackers : TRUE
  <2>1. Len(Priorities) \in Nat /\ Len(Priorities) # 0 /\ DOMAIN Priorities = 1 .. Len(Priorities)
    BY PrioritiesAssumption, EmptySeq, LenProperties
  <2>2. 1 \in 1 .. Len(Priorities)
    BY <2>1
  <2> QED BY <2>1, <2>2 DEF Trackers
<1> QED BY <1>1 DEF combineFailures

\* A round without a candidate writes the status that the failures call for.
LEMMA RoundClosesForAReason ==
  ASSUME PoolShape, NEW w \in Workers, NEW all \in Rounds, Search(w, all),
         all.candidates = << >>
  PROVE  LET errs == {all.outcomes[t].err : t \in Trackers} IN
         /\ round'.at = "NOT_FOUND" <=> errs = {"no_results"}
         /\ round'.at = "FAILED" => "transient" \notin errs \/ worker[w].attempts >= MaxAttempts
         /\ round'.at = "waiting" => worker[w].attempts < MaxAttempts
<1> DEFINE err == combineFailures(all.outcomes)
           r   == worker[w].request
<1>1. r \in Requests /\ worker[w].attempts \in Nat
  BY DEF Search, PoolShape
<1>2. round'.at = row'[r].at /\ HandleError(w, err)
  BY DEF Search
<1>3. CASE err = "transient" /\ worker[w].attempts < MaxAttempts
  <2>1. round'.at = "waiting"
    BY <1>1, <1>2, <1>3 DEF HandleError, Record, PoolShape
  <2> QED BY <1>3, <2>1, FailuresCombine
<1>4. CASE ~(err = "transient" /\ worker[w].attempts < MaxAttempts)
  <2>1. round'.at = IF err = "no_results" THEN "NOT_FOUND" ELSE "FAILED"
    BY <1>1, <1>2, <1>4 DEF HandleError, Close, Record, PoolShape
  <2>2. worker[w].attempts < MaxAttempts \/ worker[w].attempts >= MaxAttempts
    BY <1>1, AttemptsAssumption
  <2> QED BY <1>4, <2>1, <2>2, FailuresCombine
<1> QED BY <1>3, <1>4

\* "Silence from every tracker is an answer; one tracker failing in a retryable way
\* makes the whole attempt retryable" (worker.go), for any number of trackers.
THEOREM ClosedOnlyForAReason == PoolSpec => []ClosedForAReason
<1>1. PoolInit => ClosedForAReason
  BY DEF PoolInit, ClosedForAReason
<1>2. PoolShape /\ ClosedForAReason /\ [PoolNext]_poolVars => ClosedForAReason'
  <2> SUFFICES ASSUME PoolShape, ClosedForAReason, [PoolNext]_poolVars
               PROVE  ClosedForAReason'
    OBVIOUS
  <2>1. CASE \E w \in Workers : SearchStep(w)
    <3>1. PICK w \in Workers, all \in Rounds : Search(w, all)
      BY <2>1 DEF SearchStep
    <3>2. /\ round'.outcomes = all.outcomes
          /\ round'.candidates = all.candidates
          /\ round'.attempts = worker[w].attempts
      BY <3>1 DEF Search
    <3>3. {round'.outcomes[t].err : t \in Trackers} = {all.outcomes[t].err : t \in Trackers}
      BY <3>2
    <3>4. CASE all.candidates = << >>
      BY <3>1, <3>2, <3>3, <3>4, RoundClosesForAReason DEF ClosedForAReason
    <3>5. CASE all.candidates # << >>
      BY <3>2, <3>5 DEF ClosedForAReason
    <3> QED BY <3>4, <3>5
  <2>2. CASE UNCHANGED round
    BY <2>2 DEF ClosedForAReason
  <2>3. CASE round' = NoRound
    BY <2>3 DEF ClosedForAReason
  <2>4. \/ \E w \in Workers : SearchStep(w)
        \/ UNCHANGED round
        \/ round' = NoRound
    BY DEF PoolNext, poolVars, RunStep, ClaimFails, Notify, Signalled, Submit,
           BackoffElapses, Signal, StopServer, Exit, Process
  <2> QED BY <2>1, <2>2, <2>3, <2>4
<1> QED BY <1>1, <1>2, PoolShapeCorrect, PTL DEF PoolSpec

-----------------------------------------------------------------------------
(* The delays. The row of a request that waits, and the worker that works, *)
(* both know of an attempt that was made; the delay follows from it.       *)

DelayInv ==
  /\ delay \in [Requests -> 0 .. MaxBackoffSeconds]
  /\ \A w \in Workers : Busy(w) => worker[w].attempts # 0
  /\ \A r \in Requests : row[r].at = "waiting" =>
       row[r].attempts # 0 /\ delay[r] = Backoff(row[r].attempts)

\* A step that gives no delay keeps the invariant, unless it begins an attempt that
\* has no number.
LEMMA NoDelayGiven ==
  ASSUME DelayInv, UNCHANGED delay,
         \A r \in Requests : row'[r].at = "waiting" => row'[r] = row[r],
         \A w \in Workers : worker'[w].pc \in {"searching", "downloading"} =>
           \/ worker'[w].attempts # 0
           \/ Busy(w) /\ worker'[w].attempts = worker[w].attempts
  PROVE  DelayInv'
BY DEF DelayInv

\* A worker that closes a request keeps the invariant.
LEMMA DelayClose ==
  ASSUME PoolShape, DelayInv, NEW w \in Workers, Busy(w), NEW at \in Closed, Close(w, at)
  PROVE  DelayInv'
<1>1. worker[w].request \in Requests
  BY DEF PoolShape
<1>2. /\ row' = [row EXCEPT ![worker[w].request] = NewRow(at, 0)]
      /\ worker' = [worker EXCEPT ![w] = At("claiming")]
      /\ UNCHANGED delay
  BY DEF Close, Record
<1>3. row \in [Requests -> Row] /\ worker \in [Workers -> Worker]
  BY DEF PoolShape
<1>4. at # "waiting"
  OBVIOUS
<1>5. \A r \in Requests : row'[r].at = "waiting" => row'[r] = row[r]
  BY <1>1, <1>2, <1>3, <1>4
<1>6. \A v \in Workers : worker'[v].pc \in {"searching", "downloading"} => worker'[v] = worker[v]
  BY <1>2, <1>3
<1> QED BY <1>2, <1>5, <1>6, NoDelayGiven

\* handleError gives the delay that belongs to the attempt of the worker.
LEMMA DelayHandleError ==
  ASSUME PoolShape, DelayInv, NEW w \in Workers, Busy(w), NEW err, HandleError(w, err)
  PROVE  DelayInv'
<1>1. CASE err = "transient" /\ worker[w].attempts < MaxAttempts
  <2>1. PICK r, n : r = worker[w].request /\ n = worker[w].attempts
    OBVIOUS
  <2>2. r \in Requests /\ n \in Nat \ {0}
    BY <2>1 DEF PoolShape, DelayInv
  <2>3. /\ row' = [row EXCEPT ![r] = NewRow("waiting", n)]
        /\ worker' = [worker EXCEPT ![w] = At("claiming")]
        /\ delay' = [delay EXCEPT ![r] = Backoff(n)]
    BY <1>1, <2>1 DEF HandleError, Record
  <2>4. row \in [Requests -> Row] /\ worker \in [Workers -> Worker]
        /\ delay \in [Requests -> 0 .. MaxBackoffSeconds]
    BY DEF PoolShape, DelayInv
  <2>5. Backoff(n) \in 0 .. MaxBackoffSeconds
    <3>1. Backoff(n) \in 1 .. MaxBackoffSeconds
      BY <2>2, DelayDoublesUpToTheCap
    <3> QED BY <3>1, BackoffAssumption
  <2>6. delay' \in [Requests -> 0 .. MaxBackoffSeconds]
    BY <2>3, <2>4, <2>5
  <2>7. \A v \in Workers : Busy(v)' => worker'[v].attempts # 0
    BY <2>3, <2>4 DEF DelayInv
  <2>8. ASSUME NEW q \in Requests, row'[q].at = "waiting"
        PROVE  row'[q].attempts # 0 /\ delay'[q] = Backoff(row'[q].attempts)
    <3>1. CASE q = r
      <4>1. row'[q] = NewRow("waiting", n) /\ delay'[q] = Backoff(n)
        BY <2>2, <2>3, <2>4, <3>1
      <4> QED BY <2>2, <4>1
    <3>2. CASE q # r
      <4>1. row'[q] = row[q] /\ delay'[q] = delay[q]
        BY <2>3, <2>4, <3>2
      <4> QED BY <2>8, <4>1 DEF DelayInv
    <3> QED BY <3>1, <3>2
  <2> QED BY <2>6, <2>7, <2>8 DEF DelayInv
<1>2. CASE ~(err = "transient" /\ worker[w].attempts < MaxAttempts)
  <2>1. PICK at \in Closed : Close(w, at)
    BY <1>2 DEF HandleError
  <2> QED BY <2>1, DelayClose
<1> QED BY <1>1, <1>2

\* DelayInv is kept by every step.
LEMMA DelayStep == PoolShape /\ DelayInv /\ [PoolNext]_poolVars => DelayInv'
<1> SUFFICES ASSUME PoolShape, DelayInv, [PoolNext]_poolVars PROVE DelayInv'
  OBVIOUS
<1>1. row \in [Requests -> Row] /\ worker \in [Workers -> Worker]
  BY DEF PoolShape
<1>2. ASSUME NEW w \in Workers, NEW r \in Requests, Claim(w, r) PROVE DelayInv'
  <2>1. row[r].attempts \in Nat
    BY <1>1
  <2>2. \A q \in Requests : row'[q].at = "waiting" => row'[q] = row[q]
    BY <1>1, <1>2 DEF Claim
  <2>3. \A v \in Workers : worker'[v].pc \in {"searching", "downloading"} =>
          worker'[v].attempts # 0 \/ worker'[v] = worker[v]
    BY <1>1, <1>2, <2>1 DEF Claim
  <2>4. UNCHANGED delay
    BY <1>2 DEF Claim
  <2> QED BY <2>2, <2>3, <2>4, NoDelayGiven
<1>3. ASSUME NEW w \in Workers,
             FindNothing(w) \/ ClaimFails(w) \/ Sleep(w) \/ Wake(w) \/ Poll(w) \/ Leave(w) \/ Abandon(w)
      PROVE  DelayInv'
  <2>1. UNCHANGED <<row, delay>> /\ \E pc \in {"claiming", "resting", "asleep", "gone"} : Goto(w, pc)
    BY <1>3 DEF FindNothing, ClaimFails, Sleep, Wake, Poll, Leave, Return, Abandon
  <2>2. \A v \in Workers : worker'[v].pc \in {"searching", "downloading"} => worker'[v] = worker[v]
    BY <1>1, <2>1
  <2> QED BY <2>1, <2>2, NoDelayGiven
<1>4. ASSUME NEW w \in Workers, Download(w) PROVE DelayInv'
  <2>1. Busy(w)
    BY <1>4 DEF Download
  <2>2. Close(w, "DOWNLOADED") \/ \E err \in {"transient", "permanent"} : HandleError(w, err)
    BY <1>4 DEF Download
  <2> QED BY <2>1, <2>2, DelayClose, DelayHandleError
<1>5. ASSUME NEW w \in Workers, NEW all \in Rounds, Search(w, all) PROVE DelayInv'
  <2>1. Busy(w)
    BY <1>5 DEF Search
  <2>2. CASE all.candidates # << >>
    <3>1. worker' = [worker EXCEPT ![w].pc = "downloading"] /\ UNCHANGED <<row, delay>>
      BY <1>5, <2>2 DEF Search
    <3>2. \A v \in Workers : worker'[v].attempts = worker[v].attempts
                             /\ (worker'[v].pc \in {"searching", "downloading"} => Busy(v))
      BY <1>1, <2>1, <3>1
    <3> QED BY <3>1, <3>2, NoDelayGiven
  <2>3. CASE all.candidates = << >>
    BY <1>5, <2>1, <2>3, DelayHandleError DEF Search
  <2> QED BY <2>2, <2>3
<1>6. ASSUME NEW r \in Requests, BackoffElapses(r) PROVE DelayInv'
  <2>1. /\ row' = [row EXCEPT ![r].at = "retry"] /\ delay' = [delay EXCEPT ![r] = 0]
        /\ UNCHANGED worker
    BY <1>6 DEF BackoffElapses
  <2>2. delay' \in [Requests -> 0 .. MaxBackoffSeconds]
    BY <2>1, BackoffAssumption DEF DelayInv
  <2>3. \A q \in Requests : row'[q].at = "waiting" => row'[q] = row[q] /\ delay'[q] = delay[q]
    BY <1>1, <2>1 DEF DelayInv
  <2> QED BY <2>1, <2>2, <2>3 DEF DelayInv
<1>7. ASSUME NEW c \in Callers, NEW S \in SUBSET Requests, Submit(c, S) PROVE DelayInv'
  <2>1. \A q \in Requests : row'[q].at = "waiting" => row'[q] = row[q]
    BY <1>7 DEF Submit
  <2> QED BY <1>7, <2>1, NoDelayGiven DEF Submit
<1>8. CASE (\E c \in Callers : Notify(c)) \/ Signal \/ StopServer \/ Exit \/ UNCHANGED poolVars
  <2>1. UNCHANGED <<row, delay, worker>>
    BY <1>8 DEF Notify, Signalled, Signal, StopServer, Exit, Process, poolVars
  <2> QED BY <2>1 DEF DelayInv
<1> QED BY <1>2, <1>3, <1>4, <1>5, <1>6, <1>7, <1>8 DEF PoolNext, RunStep, SearchStep

\* A request that a restart recovered waits as long as its attempts demand.
LEMMA DelayInit == PoolInit => DelayInv
<1> SUFFICES ASSUME PoolInit PROVE DelayInv
  OBVIOUS
<1>1. \A r \in Requests : row[r].at = "waiting" => row[r].attempts \in Nat \ {0}
  <2>1. \A n \in 1 .. MaxAttempts - 1 : n \in Nat \ {0}
    BY AttemptsAssumption
  <2>2. ASSUME NEW r \in Requests, row[r].at = "waiting" PROVE row[r].attempts \in Nat \ {0}
    <3>1. \/ row[r] = NewRow("absent", 0)
          \/ \E n \in 0 .. MaxAttempts : row[r] = NewRow("due", n)
          \/ \E n \in 1 .. MaxAttempts - 1 : row[r] = NewRow("waiting", n)
      BY DEF PoolInit
    <3>2. ASSUME NEW at \in {"absent", "due"}, NEW n PROVE row[r] # NewRow(at, n)
      BY <2>2
    <3>3. PICK n \in 1 .. MaxAttempts - 1 : row[r] = NewRow("waiting", n)
      <4> HIDE DEF NewRow
      <4> QED BY <3>1, <3>2
    <3>4. row[r].attempts = n
      BY <3>3
    <3> QED BY <2>1, <3>4
  <2> QED BY <2>2
<1>2. \A n \in Nat \ {0} : Backoff(n) \in 0 .. MaxBackoffSeconds
  <2>1. \A n \in Nat \ {0} : Backoff(n) \in 1 .. MaxBackoffSeconds
    BY DelayDoublesUpToTheCap
  <2> QED BY <2>1, BackoffAssumption
<1>3. delay = [r \in Requests |-> IF row[r].at = "waiting" THEN Backoff(row[r].attempts) ELSE 0]
  BY DEF PoolInit
<1>4. delay \in [Requests -> 0 .. MaxBackoffSeconds]
  BY <1>1, <1>2, <1>3, BackoffAssumption
<1>5. \A w \in Workers : ~Busy(w)
  BY DEF PoolInit
<1> QED BY <1>1, <1>3, <1>4, <1>5 DEF DelayInv

LEMMA DelayAlways == PoolSpec => [](PoolShape /\ DelayInv)
<1>1. PoolInit => PoolShape /\ DelayInv
  BY ShapeInit, DelayInit
<1>2. PoolShape /\ DelayInv /\ [PoolNext]_poolVars => (PoolShape /\ DelayInv)'
  BY ShapeStep, DelayStep
<1> QED BY <1>1, <1>2, PTL DEF PoolSpec

\* Every variable keeps its type; a worker that works has a request; no delay passes
\* RETRY_MAX_BACKOFF_SECONDS.
THEOREM PoolTypes == PoolSpec => []PoolTypeOK
<1>1. PoolShape /\ DelayInv => PoolTypeOK
  BY DEF PoolTypeOK, DelayInv
<1> QED BY <1>1, DelayAlways, PTL

\* The schedule of the README (3s, 6s, 12s, ...): each further attempt waits twice as
\* long, up to the cap, for every request, also one that a restart has recovered.
THEOREM DelaysAlwaysDouble == PoolSpec => []DelaysDouble
<1>1. PoolShape /\ DelayInv => DelaysDouble
  <2> SUFFICES ASSUME PoolShape, DelayInv, NEW r \in Requests, row[r].at = "waiting"
               PROVE  delay[r] = Min({BaseSeconds * 2 ^ (row[r].attempts - 1), MaxBackoffSeconds})
    BY DEF DelaysDouble
  <2>1. row[r].attempts \in Nat \ {0} /\ delay[r] = Backoff(row[r].attempts)
    BY DEF PoolShape, DelayInv
  <2> QED BY <2>1, DelayDoublesUpToTheCap
<1> QED BY <1>1, DelayAlways, PTL

-----------------------------------------------------------------------------
(* The winner. A round that found candidates goes on with the row that the *)
(* worker holds, and no other worker can have taken it away.               *)

HoldInv ==
  /\ \A w \in Workers : Busy(w) => row[worker[w].request].at = "held"
  /\ \A v, w \in Workers : Busy(v) /\ Busy(w) /\ v # w => worker[v].request # worker[w].request

\* A step that begins no attempt and touches no row that somebody goes on to hold.
LEMMA NothingTaken ==
  ASSUME HoldInv,
         \A w \in Workers : worker'[w].pc \in {"searching", "downloading"} =>
           /\ Busy(w) /\ worker'[w].request = worker[w].request
           /\ row'[worker[w].request].at = row[worker[w].request].at
  PROVE  HoldInv'
BY DEF HoldInv

\* A worker that is done with its request leaves the others theirs.
LEMMA HoldRecord ==
  ASSUME PoolShape, HoldInv, NEW w \in Workers, Busy(w), NEW at, NEW n, Record(w, at, n)
  PROVE  HoldInv'
<1>1. worker[w].request \in Requests
  BY DEF PoolShape
<1>2. /\ row' = [row EXCEPT ![worker[w].request] = NewRow(at, n)]
      /\ worker' = [worker EXCEPT ![w] = At("claiming")]
  BY DEF Record
<1>3. row \in [Requests -> Row] /\ worker \in [Workers -> Worker]
  BY DEF PoolShape
<1>4. ASSUME NEW v \in Workers, worker'[v].pc \in {"searching", "downloading"}
      PROVE  /\ Busy(v) /\ worker'[v].request = worker[v].request
             /\ row'[worker[v].request].at = row[worker[v].request].at
  <2>1. v # w
    BY <1>2, <1>3, <1>4
  <2>2. worker'[v] = worker[v]
    BY <1>2, <1>3, <2>1
  <2>3. Busy(v)
    BY <1>4, <2>2
  <2>4. worker[v].request # worker[w].request /\ worker[v].request \in Requests
    BY <2>1, <2>3 DEF HoldInv, PoolShape
  <2>5. row'[worker[v].request] = row[worker[v].request]
    BY <1>2, <1>3, <2>4
  <2> QED BY <2>2, <2>3, <2>5
<1> QED BY <1>4, NothingTaken

\* HoldInv is kept by every step.
LEMMA HoldStep == PoolShape /\ HoldInv /\ [PoolNext]_poolVars => HoldInv'
<1> SUFFICES ASSUME PoolShape, HoldInv, [PoolNext]_poolVars PROVE HoldInv'
  OBVIOUS
<1>1. row \in [Requests -> Row] /\ worker \in [Workers -> Worker]
  BY DEF PoolShape
<1>2. \A w \in Workers : Busy(w) => worker[w].request \in Requests /\ row[worker[w].request].at = "held"
  BY DEF PoolShape, HoldInv
<1>3. ASSUME NEW w \in Workers, NEW r \in Requests, Claim(w, r) PROVE HoldInv'
  <2>1. /\ row' = [row EXCEPT ![r].at = "held", ![r].attempts = @ + 1]
        /\ worker' = [worker EXCEPT ![w] = Holding("searching", r, row[r].attempts + 1)]
        /\ row[r].at # "held"
    BY <1>3 DEF Claim
  <2>2. \A v \in Workers : Busy(v) => worker[v].request # r
    BY <1>2, <2>1
  <2>3. worker'[w].request = r /\ row'[r].at = "held"
    BY <1>1, <2>1
  <2>4. \A v \in Workers : v # w => worker'[v] = worker[v]
    BY <1>1, <2>1
  <2>5. \A q \in Requests : q # r => row'[q] = row[q]
    BY <1>1, <2>1
  <2>6. \A v \in Workers : worker'[v].pc \in {"searching", "downloading"} =>
          row'[worker'[v].request].at = "held"
    BY <1>2, <2>2, <2>3, <2>4, <2>5
  <2>7. \A u, v \in Workers :
          worker'[u].pc \in {"searching", "downloading"}
          /\ worker'[v].pc \in {"searching", "downloading"} /\ u # v
            => worker'[u].request # worker'[v].request
    <3> SUFFICES ASSUME NEW u \in Workers, NEW v \in Workers,
                        worker'[u].pc \in {"searching", "downloading"},
                        worker'[v].pc \in {"searching", "downloading"}, u # v
                 PROVE  worker'[u].request # worker'[v].request
      OBVIOUS
    <3>1. CASE u = w
      BY <2>2, <2>3, <2>4, <3>1
    <3>2. CASE v = w
      BY <2>2, <2>3, <2>4, <3>2
    <3>3. CASE u # w /\ v # w
      BY <2>4, <3>3 DEF HoldInv
    <3> QED BY <3>1, <3>2, <3>3
  <2> QED BY <2>6, <2>7 DEF HoldInv
<1>4. ASSUME NEW w \in Workers,
             FindNothing(w) \/ ClaimFails(w) \/ Sleep(w) \/ Wake(w) \/ Poll(w) \/ Leave(w) \/ Abandon(w)
      PROVE  HoldInv'
  <2>1. UNCHANGED row /\ \E pc \in {"claiming", "resting", "asleep", "gone"} : Goto(w, pc)
    BY <1>4 DEF FindNothing, ClaimFails, Sleep, Wake, Poll, Leave, Return, Abandon
  <2>2. \A v \in Workers : worker'[v].pc \in {"searching", "downloading"} => worker'[v] = worker[v]
    BY <1>1, <2>1
  <2> QED BY <2>1, <2>2, NothingTaken
<1>5. ASSUME NEW w \in Workers, Download(w) PROVE HoldInv'
  <2>1. Busy(w)
    BY <1>5 DEF Download
  <2>2. \E at \in {"waiting"} \cup Closed, n \in Nat : Record(w, at, n)
    BY <1>5, <2>1, HandleErrorRecords DEF Download, Close
  <2> QED BY <2>1, <2>2, HoldRecord
<1>6. ASSUME NEW w \in Workers, NEW all \in Rounds, Search(w, all) PROVE HoldInv'
  <2>1. Busy(w)
    BY <1>6 DEF Search
  <2>2. CASE all.candidates # << >>
    <3>1. worker' = [worker EXCEPT ![w].pc = "downloading"] /\ UNCHANGED row
      BY <1>6, <2>2 DEF Search
    <3>2. \A v \in Workers : worker'[v].request = worker[v].request
                             /\ (worker'[v].pc \in {"searching", "downloading"} => Busy(v))
      BY <1>1, <2>1, <3>1
    <3> QED BY <3>1, <3>2, NothingTaken
  <2>3. CASE all.candidates = << >>
    <3>1. \E at \in {"waiting"} \cup Closed, n \in Nat : Record(w, at, n)
      BY <1>6, <2>1, <2>3, HandleErrorRecords DEF Search
    <3> QED BY <2>1, <3>1, HoldRecord
  <2> QED BY <2>2, <2>3
<1>7. ASSUME NEW r \in Requests, BackoffElapses(r) PROVE HoldInv'
  <2>1. row[r].at = "waiting" /\ row' = [row EXCEPT ![r].at = "retry"] /\ UNCHANGED worker
    BY <1>7 DEF BackoffElapses
  <2>2. \A q \in Requests : row[q].at = "held" => row'[q] = row[q]
    BY <1>1, <2>1
  <2> QED BY <1>2, <2>1, <2>2, NothingTaken
<1>8. ASSUME NEW c \in Callers, NEW S \in SUBSET Requests, Submit(c, S) PROVE HoldInv'
  <2>1. \A q \in Requests : row[q].at = "held" => row'[q] = row[q]
    BY <1>8 DEF Submit
  <2>2. UNCHANGED worker
    BY <1>8 DEF Submit
  <2> QED BY <1>2, <2>1, <2>2, NothingTaken
<1>9. CASE (\E c \in Callers : Notify(c)) \/ Signal \/ StopServer \/ Exit \/ UNCHANGED poolVars
  <2>1. UNCHANGED <<row, worker>>
    BY <1>9 DEF Notify, Signalled, Signal, StopServer, Exit, Process, poolVars
  <2> QED BY <2>1 DEF HoldInv
<1> QED BY <1>3, <1>4, <1>5, <1>6, <1>7, <1>8, <1>9 DEF PoolNext, RunStep, SearchStep

\* The pages of a round are lists of releases, also those of a tracker that failed.
LEMMA RoundPages ==
  ASSUME NEW all \in Rounds
  PROVE  /\ DOMAIN all.outcomes = Trackers
         /\ \A t \in Trackers : all.outcomes[t].page \in Seq(Release)
         /\ \E arrival : all.candidates = Merge(all.outcomes, arrival)
<1>1. PICK outcomes \in [Trackers -> Answers], arrival \in Arrivals :
        all = [outcomes |-> outcomes, candidates |-> Merge(outcomes, arrival)]
  BY DEF Rounds
<1>2. ASSUME NEW a \in Answers PROVE a.page \in Seq(Release)
  <2>1. (\E page \in Pages : a = Found(page)) \/ \E e : a = Failed(e)
    BY DEF Answers
  <2>2. CASE \E page \in Pages : a = Found(page)
    <3>1. a.page \in Pages
      BY <2>2 DEF Found
    <3> QED BY <3>1, PagesAssumption
  <2>3. CASE \E e : a = Failed(e)
    <3>1. a.page = << >>
      BY <2>3 DEF Failed
    <3> QED BY <3>1, EmptySeq
  <2> QED BY <2>1, <2>2, <2>3
<1>3. all.outcomes = outcomes /\ all.candidates = Merge(outcomes, arrival)
  BY <1>1
<1> QED BY <1>1, <1>2, <1>3

\* A round in which any tracker offered anything ends with the row held, and the best
\* of all that was offered in front.
LEMMA SearchPicksTheBest ==
  ASSUME PoolShape, HoldInv, NEW w \in Workers, NEW all \in Rounds, Search(w, all)
  PROVE  WinnerIsBest'
<1>1. round'.outcomes = all.outcomes /\ round'.candidates = all.candidates
      /\ round'.at = row'[worker[w].request].at
  BY DEF Search
<1>2. ASSUME NEW t \in DOMAIN all.outcomes, NEW k \in DOMAIN all.outcomes[t].page,
             NEW c, c = [tracker |-> t, release |-> all.outcomes[t].page[k]],
             NEW best, best = all.candidates[1]
      PROVE  /\ all.candidates # << >> /\ round'.at = "held"
             /\ ~Better(c, best)
             /\ ~Better(best, c) => best.tracker <= t
  <2>1. t \in Trackers /\ \A u \in Trackers : all.outcomes[u].page \in Seq(Release)
    BY RoundPages
  <2>2. PICK arrival : all.candidates = Merge(all.outcomes, arrival)
    BY RoundPages
  <2>3. /\ all.candidates # << >>
        /\ ~Better(c, best)
        /\ ~Better(best, c) => best.tracker <= t
    <3>1. best = Merge(all.outcomes, arrival)[1]
      BY <1>2, <2>2
    <3> QED BY <1>2, <2>1, <2>2, <3>1, MergePicksTheBest
  <2>4. Busy(w) /\ UNCHANGED row
    BY <2>3 DEF Search
  <2>5. round'.at = "held"
    BY <1>1, <2>4 DEF HoldInv
  <2> QED BY <2>3, <2>5
<1> QED BY <1>1, <1>2 DEF WinnerIsBest

\* "The winner does not change between two runs of the same search" (worker.go), for any
\* number of trackers with any priorities and pages, however the answers arrive.
THEOREM WinnerIsAlwaysBest == PoolSpec => []WinnerIsBest
<1>1. PoolInit => HoldInv /\ WinnerIsBest
  BY DEF PoolInit, HoldInv, WinnerIsBest, NoRound
<1>2. PoolShape /\ HoldInv /\ WinnerIsBest /\ [PoolNext]_poolVars => WinnerIsBest'
  <2> SUFFICES ASSUME PoolShape, HoldInv, WinnerIsBest, [PoolNext]_poolVars
               PROVE  WinnerIsBest'
    OBVIOUS
  <2>1. CASE \E w \in Workers : SearchStep(w)
    BY <2>1, SearchPicksTheBest DEF SearchStep
  <2>2. CASE UNCHANGED round
    BY <2>2 DEF WinnerIsBest
  <2>3. CASE round' = NoRound
    BY <2>3 DEF WinnerIsBest, NoRound
  <2>4. \/ \E w \in Workers : SearchStep(w)
        \/ UNCHANGED round
        \/ round' = NoRound
    BY DEF PoolNext, poolVars, RunStep, ClaimFails, Notify, Signalled, Submit,
           BackoffElapses, Signal, StopServer, Exit, Process
  <2> QED BY <2>1, <2>2, <2>3, <2>4
<1>3. PoolShape /\ HoldInv /\ [PoolNext]_poolVars => HoldInv'
  BY HoldStep
<1> QED BY <1>1, <1>2, <1>3, PoolShapeCorrect, PTL DEF PoolSpec
=============================================================================
