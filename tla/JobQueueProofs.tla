--------------------------- MODULE JobQueueProofs ---------------------------
(***************************************************************************)
(* Theorems about JobQueue, for every number of requests, workers and      *)
(* handlers and every bound on restarts and lost writes.                   *)
(*                                                                         *)
(* The first layer, TypeInv, says that every variable has its type and     *)
(* that whoever acts holds a request.  The second layer rests on the first *)
(* and says that rows, hands, files and temporary files agree.             *)
(***************************************************************************)
EXTENDS JobQueue, TLAPS

TypeInv == TypeOK /\ HandsFull

USE DEF FreshRow, NoRow, IdleWorker, Holding, IdleHandler, Row, WorkerState, HandlerState,
        Status, InFlight, Terminal, Cancellable, Retryable, Active, Serving, FinalPath, Temp

\* Nothing runs yet, so nobody holds anything.
LEMMA TypeInit == Init => TypeInv
BY QueriesAssumption, ReleasesAssumption DEF Init, TypeInv, TypeOK, HandsFull

\* The table, after at most one record has been replaced.
LEMMA SetRow ==
  ASSUME TypeInv, NEW i, NEW r \in Row, row' = [row EXCEPT ![i] = r] \/ row' = row
  PROVE  row' \in [Ids -> Row]
BY DEF TypeInv, TypeOK

\* The goroutines of the pool, after one of them moved.
LEMMA SetWorker ==
  ASSUME TypeInv, NEW w, NEW s \in WorkerState, worker' = [worker EXCEPT ![w] = s]
  PROVE  worker' \in [Workers -> WorkerState]
BY DEF TypeInv, TypeOK

\* The handlers, after at most one of them moved.
LEMMA SetHandler ==
  ASSUME TypeInv, NEW h, NEW r \in HandlerState,
         handler' = [handler EXCEPT ![h] = r] \/ handler' = handler
  PROVE  handler' \in [Handlers -> HandlerState]
BY DEF TypeInv, TypeOK

\* What os.Remove does to the temporary files: whatever is still there of those it
\* was to remove has been refused, and it leaves all others alone.
LEMMA UnlinkEffect ==
  ASSUME TypeInv, NEW old, Unlink(old)
  PROVE  /\ temps' \subseteq TempNames /\ refused' \subseteq temps'
         /\ \A t \in old \cap temps' : t \in refused'
         /\ \A t : t \notin old => (t \in temps' <=> t \in temps) /\ (t \in refused' <=> t \in refused)
<1>1. temps \subseteq TempNames /\ refused \subseteq temps
  BY DEF TypeInv, TypeOK
<1>2. PICK stay \in SUBSET (old \cap temps) : /\ temps' = temps \ (old \ stay)
                                            /\ refused' = (refused \ old) \cup stay
  BY DEF Unlink
<1> QED BY ONLY <1>1, <1>2

\* A worker that drops what it holds, its temporary file included, keeps the types.
LEMMA TypeDrop ==
  ASSUME TypeInv, NEW w \in Workers, worker' = [worker EXCEPT ![w] = IdleWorker],
         Unlink(Temp(w)), Serving,
         UNCHANGED <<handler, files, consumed, phase, starts>>,
         row' \in [Ids -> Row], faults' \in Nat, stranded' \subseteq Ids
  PROVE  TypeInv'
<1>1. temps' \subseteq TempNames /\ refused' \subseteq temps'
  BY UnlinkEffect
<1>2. worker' \in [Workers -> WorkerState]
  <2>1. IdleWorker \in WorkerState
    OBVIOUS
  <2> HIDE DEF IdleWorker, WorkerState
  <2> QED BY <2>1, SetWorker
<1>3. TypeOK'
  <2> HIDE DEF WorkerState, HandlerState, Row, IdleWorker
  <2> QED BY <1>1, <1>2 DEF TypeInv, TypeOK
<1>4. HandsFull'
  <2>1. \A v \in Workers : worker'[v] = worker[v] \/ worker'[v] = IdleWorker
    BY DEF TypeInv, TypeOK
  <2> QED BY ONLY <2>1, TypeInv, Serving, UNCHANGED <<handler, phase>> DEF TypeInv, HandsFull
<1> QED BY <1>3, <1>4 DEF TypeInv

\* Every step of a worker keeps the types.
LEMMA TypeWorker ==
  ASSUME TypeInv, NEW w \in Workers, WorkerStep(w) \/ LoseWrite(w)
  PROVE  TypeInv'
<1>1. CASE \E i \in Ids : Claim(w, i)
  BY <1>1, IdsAssumption DEF Claim, Due, TypeInv, TypeOK, HandsFull
<1>2. CASE \E r \in Releases : MarkFound(w, r)
  <2>1. PICK r \in Releases : MarkFound(w, r)
    BY <1>2
  <2>2. row' \in [Ids -> Row]
    <3> DEFINE x == [row[worker[w].id] EXCEPT !.status = "FOUND"]
    <3>1. row[worker[w].id] \in Row
      BY <2>1 DEF MarkFound, TypeInv, TypeOK, HandsFull
    <3>2. x \in Row
      BY ONLY <3>1
    <3>3. row' = [row EXCEPT ![worker[w].id] = x] \/ row' = row
      BY <2>1 DEF MarkFound
    <3> HIDE DEF x
    <3> QED BY <3>2, <3>3, SetRow
  <2>3. worker' \in [Workers -> WorkerState]
    <3> DEFINE s == [worker[w] EXCEPT !.pc = "downloading", !.release = r]
    <3>1. s \in WorkerState /\ IdleWorker \in WorkerState
      BY worker[w] \in WorkerState DEF TypeInv, TypeOK
    <3>2. worker' = [worker EXCEPT ![w] = s] \/ worker' = [worker EXCEPT ![w] = IdleWorker]
      BY <2>1 DEF MarkFound
    <3> HIDE DEF s, IdleWorker, WorkerState
    <3> QED BY <3>1, <3>2, SetWorker
  <2>4. HandsFull'
    <3>1. \A v \in Workers : \/ worker'[v] = worker[v] \/ worker'[v] = IdleWorker
                              \/ /\ worker'[v].pc = "downloading" /\ worker'[v].release \in Releases
                                 /\ worker'[v].temp = worker[v].temp /\ worker[v].pc = "searching"
                                 /\ worker'[v].id = worker[v].id
      BY <2>1 DEF MarkFound, TypeInv, TypeOK
    <3>2. UNCHANGED <<handler, phase>> /\ Serving
      BY <2>1 DEF MarkFound
    <3> QED BY ONLY <3>1, <3>2, TypeInv DEF TypeInv, HandsFull
  <2> QED BY <2>1, <2>2, <2>3, <2>4 DEF MarkFound, TypeInv, TypeOK
<1>3. CASE BeginWrite(w)
  <2>1. PICK t \in TempNames \ temps :
          worker' = [worker EXCEPT ![w].pc = "writing", ![w].temp = t] /\ temps' = temps \cup {t}
    BY <1>3 DEF BeginWrite
  <2> DEFINE s == [worker[w] EXCEPT !.pc = "writing", !.temp = t]
  <2>2. s \in WorkerState
    BY worker[w] \in WorkerState DEF TypeInv, TypeOK
  <2>3. worker' = [worker EXCEPT ![w] = s]
    BY <2>1
  <2>4. /\ s.pc = "writing" /\ s.temp # NoTemp /\ s.id \in Ids /\ s.release \in Releases
        /\ Serving /\ UNCHANGED <<row, handler, files, consumed, refused, phase, starts, faults, stranded>>
    BY <1>3, TempsAssumption DEF BeginWrite, TypeInv, TypeOK, HandsFull
  <2> HIDE DEF s, WorkerState
  <2>5. worker' \in [Workers -> WorkerState]
    BY <2>2, <2>3, SetWorker
  <2>6. TypeOK'
    <3> HIDE DEF HandlerState, Row
    <3> QED BY <2>1, <2>4, <2>5 DEF TypeInv, TypeOK
  <2>7. \A v \in Workers : worker'[v] = worker[v] \/ worker'[v] = s
    BY <2>3 DEF TypeInv, TypeOK
  <2>8. HandsFull'
    BY ONLY <2>4, <2>7, TypeInv DEF TypeInv, HandsFull
  <2> QED BY <2>6, <2>8 DEF TypeInv
<1>4. CASE FinishWrite(w)
  BY <1>4, IdsAssumption DEF FinishWrite, TypeInv, TypeOK, HandsFull
<1>5. CASE MarkDownloaded(w)
  <2> USE <1>5 DEF MarkDownloaded, RecordDownload, TypeInv, TypeOK
  <2> DEFINE i == worker[w].id
             r == [row[i] EXCEPT !.status = "DOWNLOADED", !.file = worker[w].release,
                                 !.waiting = FALSE]
  <2>a. row[i] \in Row /\ worker[w].release \in Releases
    BY DEF HandsFull
  <2>b. r \in Row
    BY ONLY <2>a
  <2>c. row' = [row EXCEPT ![i] = r] \/ row' = row
    OBVIOUS
  <2> HIDE DEF r
  <2>1. row' \in [Ids -> Row]
    <3> HIDE DEF Row, HandlerState, WorkerState
    <3> QED BY <2>b, <2>c, SetRow
  <2>2. worker' \in [Workers -> WorkerState]
    OBVIOUS
  <2>3. HandsFull'
    BY IdsAssumption DEF HandsFull
  <2> QED BY <2>1, <2>2, <2>3
<1>6. CASE NothingFound(w) \/ PermanentError(w) \/ TransientError(w)
  <2>1. PICK s \in Status, b \in BOOLEAN : CloseAttempt(w, s, b) /\ Active(w)
    BY <1>6 DEF NothingFound, PermanentError, TransientError, RetryOrFail
  <2> DEFINE i == worker[w].id
             r == [row[i] EXCEPT !.status = s, !.waiting = b]
  <2>a. r \in Row
    <3>1. row[i] \in Row
      BY <2>1 DEF TypeInv, TypeOK, HandsFull
    <3> QED BY ONLY <3>1, s \in Status, b \in BOOLEAN
  <2>b. row' = [row EXCEPT ![i] = r] \/ row' = row
    BY <2>1 DEF CloseAttempt
  <2> HIDE DEF r
  <2>2. row' \in [Ids -> Row]
    BY <2>a, <2>b, SetRow
  <2> QED BY <2>1, <2>2, TypeDrop DEF CloseAttempt, TypeInv, TypeOK
<1>7. CASE Abandon(w)
  BY <1>7, TypeDrop DEF Abandon, TypeInv, TypeOK
<1>8. CASE LoseWrite(w)
  <2>1. worker[w].id \in Ids
    BY <1>8 DEF LoseWrite, TypeInv, HandsFull
  <2>2. faults' \in Nat /\ stranded' \subseteq Ids /\ row' \in [Ids -> Row]
    <3> HIDE DEF Row, WorkerState, HandlerState
    <3> QED BY <1>8, <2>1 DEF LoseWrite, TypeInv, TypeOK
  <2> QED BY <1>8, <2>2, TypeDrop DEF LoseWrite
<1> QED BY <1>1, <1>2, <1>3, <1>4, <1>5, <1>6, <1>7, <1>8 DEF WorkerStep

\* Every step of a handler keeps the types.
LEMMA TypeHandler ==
  ASSUME TypeInv, NEW h \in Handlers, HandlerStep(h)
  PROVE  TypeInv'
<1>1. CASE \E i \in Ids, edit \in Queries \cup {NoQuery}, force \in ForceChoices :
             RetryGet(h, i, edit, force)
  BY <1>1, ForceAssumption DEF RetryGet, TypeInv, TypeOK, HandsFull
<1>2. CASE RetryCheck(h)
  <2>1. PICK s \in {"QUEUED", "DUPLICATE"} : RetryVerdict(h, s)
    BY <1>2 DEF RetryCheck
  <2> DEFINE r == [handler[h] EXCEPT !.pc = "retry_write", !.status = s]
  <2>2. r \in HandlerState
    BY handler[h] \in HandlerState DEF TypeInv, TypeOK
  <2>a. handler' = [handler EXCEPT ![h] = r]
    BY <2>1 DEF RetryVerdict
  <2> HIDE DEF r
  <2>3. handler' \in [Handlers -> HandlerState]
    BY <2>2, <2>a, SetHandler
  <2> QED BY <2>1, <2>3 DEF RetryVerdict, TypeInv, TypeOK, HandsFull
<1>3. CASE RetryWrite(h)
  BY <1>3, SMTT(30) DEF RetryWrite, Exists, TypeInv, TypeOK, HandsFull
<1>4. CASE \E i \in Ids : CancelGet(h, i)
  BY <1>4 DEF CancelGet, TypeInv, TypeOK, HandsFull
<1>5. CASE CancelWrite(h)
  BY <1>5, SMTT(30) DEF CancelWrite, Exists, TypeInv, TypeOK, HandsFull
<1>6. CASE \E i \in Ids : DeleteGet(h, i)
  BY <1>6 DEF DeleteGet, BeginDelete, Exists, TypeInv, TypeOK, HandsFull
<1>7. CASE DeleteRow(h)
  <2>1. row' \in [Ids -> Row]
    <3>1. NoRow("DELETED") \in Row
      OBVIOUS
    <3> QED BY <1>7, <3>1, SetRow DEF DeleteRow
  <2>2. handler' \in [Handlers -> HandlerState]
    <3> DEFINE r == [handler[h] EXCEPT !.pc = "remove_file"]
    <3>1. r \in HandlerState
      BY handler[h] \in HandlerState DEF TypeInv, TypeOK
    <3>2. IdleHandler \in HandlerState
      OBVIOUS
    <3>3. handler' = [handler EXCEPT ![h] = r] \/ handler' = [handler EXCEPT ![h] = IdleHandler]
      BY <1>7 DEF DeleteRow
    <3> HIDE DEF r, IdleHandler, HandlerState
    <3> QED BY <3>1, <3>2, <3>3, SetHandler
  <2>3. HandsFull'
    <3>1. \A g \in Handlers :
            \/ handler'[g] = handler[g]
            \/ handler'[g] = IdleHandler
            \/ handler'[g].id = handler[g].id /\ handler[g].pc # "idle"
      <4>1. \/ handler' = [handler EXCEPT ![h].pc = "remove_file"]
            \/ handler' = [handler EXCEPT ![h] = IdleHandler]
        BY <1>7 DEF DeleteRow
      <4>2. handler \in [Handlers -> HandlerState] /\ handler[h].pc = "delete_row"
        BY <1>7 DEF DeleteRow, TypeInv, TypeOK
      <4>3. handler'[h] = IdleHandler \/ handler'[h].id = handler[h].id
        BY <4>1, <4>2
      <4>4. \A g \in Handlers \ {h} : handler'[g] = handler[g]
        BY <4>1, <4>2
      <4>5. handler[h].pc # "idle"
        BY <4>2
      <4> HIDE DEF IdleHandler, HandlerState
      <4> QED BY ONLY <4>3, <4>4, <4>5
    <3>2. UNCHANGED <<worker, phase>> /\ Serving
      BY <1>7 DEF DeleteRow
    <3> QED BY ONLY <3>1, <3>2, TypeInv DEF TypeInv, HandsFull
  <2> QED BY <1>7, <2>1, <2>2, <2>3 DEF DeleteRow, TypeInv, TypeOK
<1>8. CASE RemoveFile(h)
  BY <1>8 DEF RemoveFile, TypeInv, TypeOK, HandsFull
<1> QED BY <1>1, <1>2, <1>3, <1>4, <1>5, <1>6, <1>7, <1>8 DEF HandlerStep

\* So does everything else: submissions, the clock, the client, the process.
LEMMA TypeOther ==
  ASSUME TypeInv,
         Submit \/ (\E i \in Ids : BackoffElapses(i)) \/ (\E f \in files : Consume(f))
                \/ ProcessStep \/ UNCHANGED vars
  PROVE  TypeInv'
<1>1. CASE Submit
  BY <1>1, ForceAssumption DEF Submit, CreateBatch, NewRow, TypeInv, TypeOK, HandsFull
<1>2. CASE \E i \in Ids : BackoffElapses(i)
  <2>1. PICK i \in Ids : WakeUp(i)
    BY <1>2 DEF BackoffElapses
  <2>2. row' \in [Ids -> Row]
    <3>1. [row[i] EXCEPT !.waiting = FALSE] \in Row
      BY row[i] \in Row DEF TypeInv, TypeOK
    <3> QED BY <2>1, <3>1, SetRow DEF WakeUp
  <2> QED BY <2>1, <2>2 DEF WakeUp, TypeInv, TypeOK, HandsFull
<1>3. CASE \E f \in files : Consume(f)
  BY <1>3 DEF Consume, TypeInv, TypeOK, HandsFull
<1>4. CASE RequeueInFlight
  <2>1. row' \in [Ids -> Row]
    <3>1. \A i \in Ids : [row[i] EXCEPT !.status = "QUEUED", !.waiting = FALSE] \in Row
      <4>1. \A x \in Row : [x EXCEPT !.status = "QUEUED", !.waiting = FALSE] \in Row
        OBVIOUS
      <4> QED BY <4>1 DEF TypeInv, TypeOK
    <3> HIDE DEF Row
    <3>2. \A i \in Ids : row'[i] \in Row
      BY <1>4, <3>1 DEF RequeueInFlight, Requeue, TypeInv, TypeOK
    <3> QED BY <1>4, <3>2 DEF RequeueInFlight, Requeue
  <2> HIDE DEF Row
  <2>a. /\ UNCHANGED <<worker, handler, files, consumed, temps, refused, faults>>
        /\ phase' = "recovering" /\ starts' = starts + 1 /\ stranded' = {}
    BY <1>4 DEF RequeueInFlight, Requeue
  <2>2. TypeOK'
    BY ONLY <2>a, <2>1, TypeInv DEF TypeInv, TypeOK
  <2>3. HandsFull'
    BY <1>4 DEF RequeueInFlight, Requeue, TypeInv, HandsFull
  <2> QED BY <2>2, <2>3 DEF TypeInv
<1>5. CASE CleanTempFiles \/ Shutdown
  <2>1. /\ UNCHANGED <<row, worker, handler, files, consumed, starts, faults, stranded>>
        /\ phase' \in {"up", "stopping"}
    BY <1>5 DEF CleanTempFiles, FinishRecovery, Shutdown
  <2>2. temps' \subseteq TempNames /\ refused' \subseteq temps'
    BY <1>5, UnlinkEffect DEF CleanTempFiles, FinishRecovery, Shutdown, TypeInv, TypeOK
  <2>3. TypeOK'
    <3> HIDE DEF Row, WorkerState, HandlerState
    <3> QED BY <2>1, <2>2 DEF TypeInv, TypeOK
  <2>4. HandsFull'
    BY ONLY <2>1, TypeInv DEF TypeInv, HandsFull
  <2> QED BY <2>3, <2>4 DEF TypeInv
<1>6. CASE Exit \/ Crash
  <2>1. /\ handler' = [h \in Handlers |-> IdleHandler]
        /\ \A w \in Workers : (worker'[w] = worker[w] /\ ~Active(w)) \/ worker'[w] = IdleWorker
    BY <1>6 DEF Exit, Crash
  <2>2. handler' \in [Handlers -> HandlerState]
    BY <2>1
  <2>3. worker' \in [Workers -> WorkerState]
    BY <1>6 DEF Exit, Crash, TypeInv, TypeOK
  <2>4. HandsFull'
    BY <2>1, IdsAssumption DEF TypeInv, HandsFull
  <2> QED BY <1>6, <2>2, <2>3, <2>4 DEF Exit, Crash, TypeInv, TypeOK
<1>7. CASE UNCHANGED vars
  BY <1>7 DEF vars, TypeInv, TypeOK, HandsFull
<1> QED BY <1>1, <1>2, <1>3, <1>4, <1>5, <1>6, <1>7 DEF ProcessStep

\* One step of the specification keeps TypeInv.
LEMMA TypeStep == TypeInv /\ [Next]_vars => TypeInv'
BY TypeWorker, TypeHandler, TypeOther DEF Next

\* The variables have their types, and whoever acts holds what it acts on.
THEOREM TypeCorrect == Spec => [](TypeOK /\ HandsFull)
<1>1. Init => TypeInv
  BY TypeInit
<1>2. TypeInv /\ [Next]_vars => TypeInv'
  BY TypeStep
<1> QED BY <1>1, <1>2, PTL DEF Spec, TypeInv
-----------------------------------------------------------------------------
QueueInv == InFlightHasWorker /\ DownloadedIsOnDisk /\ NoStaleTemp /\ HandsAgree

\* There are no rows, no files and no temporary files yet.
LEMMA QueueInit == Init => QueueInv
BY DEF Init, QueueInv, InFlightHasWorker, DownloadedIsOnDisk, NoStaleTemp, HandsAgree, Exists

\* Whoever leaves the temporary files and the workers' hold on them alone.
LEMMA TempsUntouched ==
  ASSUME TypeInv, NoStaleTemp, UNCHANGED <<temps, refused>>, Serving' => Serving,
         \A w \in Workers : worker'[w].temp = worker[w].temp
  PROVE  NoStaleTemp'
BY DEF NoStaleTemp

\* A worker that ends its attempt takes its temporary file away, or is refused.
LEMMA TempsDropped ==
  ASSUME TypeInv, NoStaleTemp, NEW w \in Workers, worker' = [worker EXCEPT ![w] = IdleWorker],
         Unlink(Temp(w)), Serving, UNCHANGED phase
  PROVE  NoStaleTemp'
<1>1. /\ refused' \subseteq temps'
      /\ \A t \in Temp(w) \cap temps' : t \in refused'
      /\ \A t : t \notin Temp(w) => (t \in temps' <=> t \in temps) /\ (t \in refused' <=> t \in refused)
  BY UnlinkEffect
<1>2. Temp(w)' = {} /\ \A v \in Workers \ {w} : Temp(v)' = Temp(v)
  BY DEF TypeInv, TypeOK
<1>3. /\ \A t \in temps \ refused : \E v \in Workers : t \in Temp(v)
      /\ \A v \in Workers : Temp(v) \subseteq temps \ refused
      /\ \A u, v \in Workers : u # v => Temp(u) \cap Temp(v) = {}
  BY DEF NoStaleTemp
<1> HIDE DEF Temp
<1>4. ASSUME NEW t \in temps' \ refused' PROVE \E v \in Workers : t \in Temp(v)'
  <2>1. t \notin Temp(w) /\ t \in temps \ refused
    BY <1>1
  <2> QED BY <1>2, <1>3, <2>1
<1>5. ASSUME NEW v \in Workers PROVE Temp(v)' \subseteq temps' \ refused'
  BY <1>1, <1>2, <1>3
<1>6. ASSUME NEW u \in Workers, NEW v \in Workers, u # v PROVE Temp(u)' \cap Temp(v)' = {}
  BY <1>2, <1>3, <1>6
<1> QED BY <1>4, <1>5, <1>6 DEF NoStaleTemp

\* A claim hands the request to the worker that claimed it.
LEMMA ClaimKeeps ==
  ASSUME TypeInv, QueueInv, NEW w \in Workers, NEW i \in Ids, Claim(w, i)
  PROVE  QueueInv'
BY IdsAssumption
   DEF Claim, Due, Exists, TypeInv, TypeOK, HandsFull, QueueInv,
       InFlightHasWorker, DownloadedIsOnDisk, NoStaleTemp, HandsAgree

\* FOUND is written by the worker that goes on to download.
LEMMA MarkFoundKeeps ==
  ASSUME TypeInv, QueueInv, NEW w \in Workers, NEW r \in Releases, MarkFound(w, r)
  PROVE  QueueInv'
<1> USE DEF MarkFound, TypeInv, TypeOK, HandsFull, QueueInv
<1>1. InFlightHasWorker'
  <2>1. /\ row \in [Ids -> Row] /\ worker[w].id \in Ids /\ UNCHANGED <<phase, stranded>>
        /\ \A v \in Workers \ {w} : worker'[v] = worker[v]
        /\ InFlightHasWorker
    OBVIOUS
  <2>2. CASE Exists(worker[w].id)
    <3>1. /\ row' = [row EXCEPT ![worker[w].id].status = "FOUND"]
          /\ worker'[w].id = worker[w].id /\ worker'[w].pc = "downloading"
      BY <2>2
    <3> QED BY ONLY <2>1, <3>1 DEF InFlightHasWorker, Active
  <2>3. CASE ~Exists(worker[w].id)
    <3>1. row' = row
      BY <2>3
    <3>2. row[worker[w].id].status \notin InFlight
      BY ONLY <2>3 DEF Exists, InFlight
    <3> QED BY ONLY <2>1, <3>1, <3>2 DEF InFlightHasWorker, Active
  <2> QED BY <2>2, <2>3
<1>2. DownloadedIsOnDisk'
  BY IdsAssumption DEF DownloadedIsOnDisk, HandsAgree, Exists
<1>3. NoStaleTemp'
  <2>1. \A v \in Workers : worker'[v].temp = worker[v].temp
    BY DEF HandsFull
  <2> QED BY <2>1, TempsUntouched
<1>4. HandsAgree'
  <2>1. \A j \in Ids : /\ row'[j].file = row[j].file
                       /\ row'[j].status # row[j].status => Exists(j) /\ row'[j].status = "FOUND"
    <3>1. row \in [Ids -> Row] /\ worker[w].id \in Ids
      OBVIOUS
    <3>2. \/ Exists(worker[w].id) /\ row' = [row EXCEPT ![worker[w].id].status = "FOUND"]
          \/ row' = row
      OBVIOUS
    <3> QED BY ONLY <3>1, <3>2 DEF Exists
  <2>2. \A v \in Workers : worker'[v].pc = "saved" => worker'[v] = worker[v]
    OBVIOUS
  <2>3. UNCHANGED <<handler, files, consumed, phase>> /\ phase = "up"
    OBVIOUS
  <2>4. \A v \in Workers : worker[v].pc = "saved" => worker[v].id \in Ids
    OBVIOUS
  <2>5. \A h \in Handlers : handler[h].pc = "remove_file" => handler[h].id \in Ids
    OBVIOUS
  <2> QED BY ONLY <2>1, <2>2, <2>3, <2>4, <2>5, HandsAgree DEF HandsAgree, Exists
<1> QED BY <1>1, <1>2, <1>3, <1>4

\* The temporary file appears with the writing worker, under a name nobody has.
LEMMA BeginWriteKeeps ==
  ASSUME TypeInv, QueueInv, NEW w \in Workers, BeginWrite(w)
  PROVE  QueueInv'
<1>1. PICK t \in TempNames \ temps :
        worker' = [worker EXCEPT ![w].pc = "writing", ![w].temp = t] /\ temps' = temps \cup {t}
  BY DEF BeginWrite
<1>2. /\ UNCHANGED <<row, handler, files, consumed, refused, phase, starts, faults, stranded>>
      /\ Serving /\ worker[w].pc = "downloading"
  BY DEF BeginWrite
<1>3. /\ \A v \in Workers \ {w} : worker'[v] = worker[v]
      /\ worker'[w].id = worker[w].id /\ worker'[w].pc = "writing" /\ worker'[w].temp = t
  BY <1>1 DEF TypeInv, TypeOK
<1>4. NoStaleTemp'
  <2>1. /\ \A x \in temps \ refused : \E v \in Workers : x \in Temp(v)
        /\ \A v \in Workers : Temp(v) \subseteq temps \ refused
        /\ \A u, v \in Workers : u # v => Temp(u) \cap Temp(v) = {}
        /\ refused \subseteq temps
    BY <1>2 DEF QueueInv, NoStaleTemp, TypeInv, TypeOK
  <2>2. Temp(w) = {} /\ Temp(w)' = {t} /\ \A v \in Workers \ {w} : Temp(v)' = Temp(v)
    BY <1>2, <1>3, TempsAssumption DEF TypeInv, HandsFull
  <2>3. t \notin temps /\ temps' = temps \cup {t} /\ refused' = refused
    BY <1>1, <1>2
  <2> HIDE DEF Temp
  <2>4. ASSUME NEW x \in temps' \ refused' PROVE \E v \in Workers : x \in Temp(v)'
    BY <2>1, <2>2, <2>3
  <2>5. ASSUME NEW v \in Workers PROVE Temp(v)' \subseteq temps' \ refused'
    BY <2>1, <2>2, <2>3
  <2>6. ASSUME NEW u \in Workers, NEW v \in Workers, u # v PROVE Temp(u)' \cap Temp(v)' = {}
    BY <2>1, <2>2, <2>3, <2>6
  <2> QED BY <2>4, <2>5, <2>6 DEF NoStaleTemp
<1> QED BY ONLY <1>2, <1>3, <1>4, QueueInv
        DEF QueueInv, InFlightHasWorker, DownloadedIsOnDisk, HandsAgree, Exists

\* A worker that gives its request up, its row with it or already out of its reach.
LEMMA EndKeeps ==
  ASSUME TypeInv, QueueInv, NEW w \in Workers, Active(w), Serving,
         worker' = [worker EXCEPT ![w] = IdleWorker], Unlink(Temp(w)),
         UNCHANGED <<handler, files, consumed, phase>>,
         phase = "up" =>
           \A i \in Ids : row'[i].status \in InFlight =>
             row[i].status \in InFlight /\ (worker[w].id = i => i \in stranded'),
         stranded \subseteq stranded',
         \A i \in Ids : /\ row'[i].file = row[i].file
                        /\ row'[i].status = "DOWNLOADED" => row[i].status = "DOWNLOADED"
                        /\ Exists(i)' = Exists(i)
                        /\ row'[i].status = "DELETED" <=> row[i].status = "DELETED"
  PROVE  QueueInv'
<1>1. \A v \in Workers \ {w} : worker'[v] = worker[v]
  BY DEF TypeInv, TypeOK
<1>2. worker'[w] = IdleWorker
  BY DEF TypeInv, TypeOK
<1>3. NoStaleTemp'
  BY TempsDropped DEF QueueInv
<1>4. InFlightHasWorker'
  BY <1>1 DEF QueueInv, InFlightHasWorker
<1>5. DownloadedIsOnDisk'
  BY DEF QueueInv, DownloadedIsOnDisk
<1>6. HandsAgree'
  <2>1. \A v \in Workers : worker'[v].pc = "saved" => worker'[v] = worker[v]
    BY <1>1, <1>2
  <2>2. \A v \in Workers : worker[v].pc = "saved" => worker[v].id \in Ids
    BY DEF TypeInv, HandsFull
  <2>3. \A h \in Handlers : handler[h].pc = "remove_file" => handler[h].id \in Ids
    BY DEF TypeInv, HandsFull
  <2> QED BY <2>1, <2>2, <2>3 DEF QueueInv, HandsAgree
<1> QED BY <1>3, <1>4, <1>5, <1>6 DEF QueueInv

\* The rename puts the file on disk before its worker reports it.
LEMMA FinishWriteKeeps ==
  ASSUME TypeInv, QueueInv, NEW w \in Workers, FinishWrite(w)
  PROVE  QueueInv'
BY IdsAssumption
   DEF FinishWrite, Exists, TypeInv, TypeOK, HandsFull, QueueInv,
       InFlightHasWorker, DownloadedIsOnDisk, NoStaleTemp, HandsAgree

\* The path recorded is that of a file still there: only the file of a deleted
\* request can have been unlinked, and such a row takes no path any more.
LEMMA MarkDownloadedKeeps ==
  ASSUME TypeInv, QueueInv, NEW w \in Workers, MarkDownloaded(w)
  PROVE  QueueInv'
<1> USE DEF MarkDownloaded, RecordDownload, TypeInv, TypeOK, HandsFull, QueueInv
<1>1. InFlightHasWorker'
  BY IdsAssumption DEF InFlightHasWorker, HandsAgree, Exists
<1>2. DownloadedIsOnDisk'
  <2> DEFINE i == worker[w].id
  <2>1. /\ i \in Ids /\ worker[w].release \in Releases
        /\ Exists(i) => FinalPath(i, worker[w].release) \in files \cup consumed
    BY DEF HandsAgree, Exists
  <2>2. \A j \in Ids : \/ row'[j] = row[j]
                       \/ j = i /\ Exists(i) /\ row'[j].file = worker[w].release
    BY DEF Exists
  <2> QED BY <2>1, <2>2, ReleasesAssumption DEF DownloadedIsOnDisk
<1>3. NoStaleTemp'
  BY IdsAssumption DEF NoStaleTemp, Exists
<1>4. HandsAgree'
  BY IdsAssumption DEF HandsAgree, Exists
<1> QED BY <1>1, <1>2, <1>3, <1>4

\* A closed attempt is no longer in flight, whoever else works on the request.
LEMMA CloseKeeps ==
  ASSUME TypeInv, QueueInv, NEW w \in Workers, NEW s \in {"NOT_FOUND", "FAILED", "QUEUED"}, NEW b \in BOOLEAN,
         Active(w), worker[w].pc # "saved", CloseAttempt(w, s, b)
  PROVE  QueueInv'
<1>1. row \in [Ids -> Row] /\ worker[w].id \in Ids
  BY DEF TypeInv, TypeOK, HandsFull
<1>2. \/ Exists(worker[w].id) /\ row' = [row EXCEPT ![worker[w].id].status = s, ![worker[w].id].waiting = b]
      \/ ~Exists(worker[w].id) /\ row' = row
  BY DEF CloseAttempt
<1>3. \A i \in Ids : /\ row'[i].file = row[i].file
                     /\ row'[i].status = "DOWNLOADED" => row[i].status = "DOWNLOADED"
                     /\ Exists(i)' = Exists(i)
                     /\ row'[i].status = "DELETED" <=> row[i].status = "DELETED"
                     /\ row'[i].status \in InFlight => row[i].status \in InFlight /\ worker[w].id # i
  BY ONLY <1>1, <1>2 DEF Exists
<1> QED BY <1>3, EndKeeps DEF CloseAttempt

\* Abandoning happens only while the process stops.
LEMMA AbandonKeeps ==
  ASSUME TypeInv, QueueInv, NEW w \in Workers, Abandon(w)
  PROVE  QueueInv'
BY EndKeeps DEF Abandon, Exists

\* A lost write leaves the row behind, and on record.
LEMMA LoseWriteKeeps ==
  ASSUME TypeInv, QueueInv, NEW w \in Workers, LoseWrite(w)
  PROVE  QueueInv'
BY EndKeeps DEF LoseWrite, Exists

\* Reading for a retry changes nothing that is shared.
LEMMA RetryGetKeeps ==
  ASSUME TypeInv, QueueInv, NEW h \in Handlers, NEW i \in Ids, NEW q, NEW f, RetryGet(h, i, q, f)
  PROVE  QueueInv'
BY IdsAssumption
   DEF RetryGet, Exists, TypeInv, TypeOK, HandsFull, QueueInv,
       InFlightHasWorker, DownloadedIsOnDisk, NoStaleTemp, HandsAgree

\* Nor does the duplicate check.
LEMMA RetryCheckKeeps ==
  ASSUME TypeInv, QueueInv, NEW h \in Handlers, RetryCheck(h)
  PROVE  QueueInv'
<1> USE SMTT(30), IdsAssumption DEF RetryCheck, RetryVerdict, Exists, TypeInv, TypeOK, HandsFull, QueueInv
<1>1. InFlightHasWorker'
  BY DEF InFlightHasWorker
<1>2. DownloadedIsOnDisk'
  BY DEF DownloadedIsOnDisk
<1>3. NoStaleTemp'
  BY DEF NoStaleTemp
<1>4. HandsAgree'
  BY DEF HandsAgree
<1> QED BY <1>1, <1>2, <1>3, <1>4

\* A retry never writes an in-flight status and never revives a deleted row.
LEMMA RetryWriteKeeps ==
  ASSUME TypeInv, QueueInv, NEW h \in Handlers, RetryWrite(h)
  PROVE  QueueInv'
<1> USE DEF RetryWrite, TypeInv, TypeOK, HandsFull, QueueInv
<1>1. InFlightHasWorker'
  BY IdsAssumption DEF InFlightHasWorker, HandsAgree, Exists
<1>2. DownloadedIsOnDisk'
  <2>1. \A j \in Ids : /\ row'[j].file = row[j].file
                       /\ row'[j].status = "DOWNLOADED" => row[j].status = "DOWNLOADED"
    BY DEF HandsAgree, Exists
  <2>2. UNCHANGED <<files, consumed>> /\ DownloadedIsOnDisk
    OBVIOUS
  <2> QED BY ONLY <2>1, <2>2 DEF DownloadedIsOnDisk, FinalPath
<1>3. NoStaleTemp'
  BY IdsAssumption DEF NoStaleTemp, Exists
<1>4. HandsAgree'
  <2>1. \A j \in Ids : /\ row'[j].file = row[j].file
                       /\ row'[j].status # row[j].status
                            => Exists(j) /\ row'[j].status \in {"QUEUED", "DUPLICATE"}
    BY DEF Exists
  <2>2. \A g \in Handlers : handler'[g].pc = "remove_file" => handler'[g] = handler[g]
    OBVIOUS
  <2>3. UNCHANGED <<worker, files, consumed, phase>> /\ phase # "recovering"
    OBVIOUS
  <2>4. \A v \in Workers : worker[v].pc = "saved" => worker[v].id \in Ids
    OBVIOUS
  <2>5. \A g \in Handlers : handler[g].pc = "remove_file" => handler[g].id \in Ids
    OBVIOUS
  <2> QED BY ONLY <2>1, <2>2, <2>3, <2>4, <2>5, HandsAgree DEF HandsAgree, Exists
<1> QED BY <1>1, <1>2, <1>3, <1>4

\* Reading for a cancel changes nothing that is shared.
LEMMA CancelGetKeeps ==
  ASSUME TypeInv, QueueInv, NEW h \in Handlers, NEW i \in Ids, CancelGet(h, i)
  PROVE  QueueInv'
<1> USE SMTT(30), IdsAssumption DEF CancelGet, Exists, TypeInv, TypeOK, HandsFull, QueueInv
<1>1. InFlightHasWorker'
  BY DEF InFlightHasWorker
<1>2. DownloadedIsOnDisk'
  BY DEF DownloadedIsOnDisk
<1>3. NoStaleTemp'
  BY DEF NoStaleTemp
<1>4. HandsAgree'
  BY DEF HandsAgree
<1> QED BY <1>1, <1>2, <1>3, <1>4

\* A cancel never writes an in-flight status.
LEMMA CancelWriteKeeps ==
  ASSUME TypeInv, QueueInv, NEW h \in Handlers, CancelWrite(h)
  PROVE  QueueInv'
<1> USE SMTT(30), IdsAssumption DEF CancelWrite, Exists, TypeInv, TypeOK, HandsFull, QueueInv
<1>1. InFlightHasWorker'
  BY DEF InFlightHasWorker
<1>2. DownloadedIsOnDisk'
  BY DEF DownloadedIsOnDisk
<1>3. NoStaleTemp'
  BY DEF NoStaleTemp
<1>4. HandsAgree'
  BY DEF HandsAgree
<1> QED BY <1>1, <1>2, <1>3, <1>4

\* Reading for a removal changes nothing that is shared.
LEMMA DeleteGetKeeps ==
  ASSUME TypeInv, QueueInv, NEW h \in Handlers, NEW i \in Ids, DeleteGet(h, i)
  PROVE  QueueInv'
<1> USE SMTT(30), IdsAssumption DEF DeleteGet, BeginDelete, Exists, TypeInv, TypeOK, HandsFull, QueueInv
<1>1. InFlightHasWorker'
  BY DEF InFlightHasWorker
<1>2. DownloadedIsOnDisk'
  BY DEF DownloadedIsOnDisk
<1>3. NoStaleTemp'
  BY DEF NoStaleTemp
<1>4. HandsAgree'
  BY DEF HandsAgree
<1> QED BY <1>1, <1>2, <1>3, <1>4

\* The row goes first, and the path goes with it.
LEMMA DeleteRowKeeps ==
  ASSUME TypeInv, QueueInv, NEW h \in Handlers, DeleteRow(h)
  PROVE  QueueInv'
<1> USE DEF DeleteRow, TypeInv, TypeOK, HandsFull, QueueInv
<1>1. \A j \in Ids : \/ row'[j].status = row[j].status /\ row'[j].file = row[j].file
                     \/ row'[j].status = "DELETED" /\ row'[j].file = NoRelease
  <2>1. \A j \in Ids : row'[j] = row[j] \/ row'[j] = NoRow("DELETED")
    OBVIOUS
  <2> QED BY ONLY <2>1 DEF NoRow, FreshRow
<1>2. UNCHANGED <<worker, files, consumed, temps, refused, phase, stranded>>
  OBVIOUS
<1>3. InFlightHasWorker /\ DownloadedIsOnDisk /\ NoStaleTemp
  OBVIOUS
<1>4. InFlightHasWorker'
  BY ONLY <1>1, <1>2, <1>3 DEF InFlightHasWorker, InFlight, Active
<1>5. DownloadedIsOnDisk'
  BY ONLY <1>1, <1>2, <1>3 DEF DownloadedIsOnDisk, FinalPath
<1>6. NoStaleTemp'
  BY ONLY <1>2, <1>3 DEF NoStaleTemp, Serving, Temp
<1>7. HandsAgree'
  <2>1. \A g \in Handlers : handler'[g].pc = "remove_file"
          => /\ handler'[g].id = handler[g].id
             /\ row'[handler[g].id].status = "DELETED"
    <3>1. /\ row \in [Ids -> Row] /\ handler \in [Handlers -> HandlerState]
          /\ \A g \in Handlers : handler[g].pc # "idle" => handler[g].id \in Ids
          /\ \A g \in Handlers : handler[g].pc = "remove_file" => row[handler[g].id].status = "DELETED"
      BY DEF HandsAgree
    <3>2. \/ /\ row' = [row EXCEPT ![handler[h].id] = NoRow("DELETED")]
             /\ handler' = [handler EXCEPT ![h].pc = "remove_file"]
          \/ row' = row /\ handler' = [handler EXCEPT ![h] = IdleHandler]
      OBVIOUS
    <3>3. handler[h].pc = "delete_row"
      OBVIOUS
    <3> QED BY ONLY <3>1, <3>2, <3>3
  <2> HIDE DEF NoRow
  <2> QED BY <1>1, <2>1 DEF HandsAgree, Exists
<1> QED BY <1>4, <1>5, <1>6, <1>7

\* The file unlinked belongs to a request that is gone: FinalPath holds the id.
LEMMA RemoveFileKeeps ==
  ASSUME TypeInv, QueueInv, NEW h \in Handlers, RemoveFile(h)
  PROVE  QueueInv'
BY IdsAssumption
   DEF RemoveFile, Exists, TypeInv, TypeOK, HandsFull, QueueInv,
       InFlightHasWorker, DownloadedIsOnDisk, NoStaleTemp, HandsAgree

\* A new row is neither in flight nor has it a file.
LEMMA SubmitKeeps ==
  ASSUME TypeInv, QueueInv, Submit
  PROVE  QueueInv'
BY IdsAssumption
   DEF Submit, CreateBatch, NewRow, Exists, TypeInv, TypeOK, HandsFull, QueueInv,
       InFlightHasWorker, DownloadedIsOnDisk, NoStaleTemp, HandsAgree

\* The end of a backoff changes no status.
LEMMA BackoffKeeps ==
  ASSUME TypeInv, QueueInv, NEW i \in Ids, BackoffElapses(i)
  PROVE  QueueInv'
BY IdsAssumption
   DEF BackoffElapses, WakeUp, Exists, TypeInv, TypeOK, HandsFull, QueueInv,
       InFlightHasWorker, DownloadedIsOnDisk, NoStaleTemp, HandsAgree

\* A file the client takes moves from files to consumed.
LEMMA ConsumeKeeps ==
  ASSUME TypeInv, QueueInv, NEW f \in files, Consume(f)
  PROVE  QueueInv'
BY IdsAssumption
   DEF Consume, Exists, TypeInv, TypeOK, HandsFull, QueueInv,
       InFlightHasWorker, DownloadedIsOnDisk, NoStaleTemp, HandsAgree

\* What RequeueInFlight does to one row.
LEMMA RequeueEffect ==
  ASSUME TypeInv, RequeueInFlight, NEW j \in Ids
  PROVE  /\ row'[j].file = row[j].file
         /\ \/ row[j].status \in InFlight /\ row'[j].status = "QUEUED"
            \/ row[j].status \notin InFlight /\ row'[j].status = row[j].status
<1>1. row[j] \in Row
  BY DEF TypeInv, TypeOK
<1>2. row'[j] = IF row[j].status \in InFlight
                  THEN [row[j] EXCEPT !.status = "QUEUED", !.waiting = FALSE] ELSE row[j]
  BY DEF RequeueInFlight, Requeue
<1> QED BY ONLY <1>1, <1>2

\* Recovery leaves nothing in flight.
LEMMA RequeueKeeps ==
  ASSUME TypeInv, QueueInv, RequeueInFlight
  PROVE  QueueInv'
<1> USE DEF RequeueInFlight, Requeue, TypeInv, TypeOK, HandsFull, QueueInv
<1>1. InFlightHasWorker'
  BY IdsAssumption DEF InFlightHasWorker, HandsAgree, Exists
<1>2. DownloadedIsOnDisk'
  BY RequeueEffect DEF DownloadedIsOnDisk
<1>3. NoStaleTemp'
  BY IdsAssumption DEF NoStaleTemp, Exists
<1>4. HandsAgree'
  BY RequeueEffect DEF HandsAgree, Exists
<1> QED BY <1>1, <1>2, <1>3, <1>4

\* The pool starts with no row in flight, and no temporary file that could be removed.
LEMMA CleanKeeps ==
  ASSUME TypeInv, QueueInv, CleanTempFiles \/ Shutdown
  PROVE  QueueInv'
<1>1. CASE CleanTempFiles
  <2>1. /\ UNCHANGED <<row, worker, handler, files, consumed, stranded>>
        /\ phase = "recovering" /\ phase' = "up" /\ Unlink(temps)
    BY <1>1 DEF CleanTempFiles, FinishRecovery
  <2>2. \A w \in Workers : worker[w] = IdleWorker
    BY <2>1 DEF TypeInv, HandsFull
  <2>3. temps' = refused'
    <3>1. temps' \subseteq temps
      BY <2>1 DEF Unlink
    <3>2. refused' \subseteq temps' /\ \A t \in temps \cap temps' : t \in refused'
      BY <2>1, UnlinkEffect
    <3> QED BY <3>1, <3>2
  <2>4. NoStaleTemp'
    BY <2>1, <2>2, <2>3 DEF NoStaleTemp
  <2> QED BY ONLY <2>1, <2>2, <2>4, QueueInv
          DEF QueueInv, InFlightHasWorker, DownloadedIsOnDisk, HandsAgree, Exists
<1>2. CASE Shutdown
  BY <1>2 DEF Shutdown, QueueInv, InFlightHasWorker, DownloadedIsOnDisk, NoStaleTemp, HandsAgree, Exists
<1> QED BY <1>1, <1>2

\* Nothing is claimed of a process that is down, except about rows and files.
LEMMA DownKeeps ==
  ASSUME TypeInv, QueueInv, Exit \/ Crash
  PROVE  QueueInv'
BY IdsAssumption
   DEF Exit, Crash, Exists, TypeInv, TypeOK, HandsFull, QueueInv,
       InFlightHasWorker, DownloadedIsOnDisk, NoStaleTemp, HandsAgree

\* One step of the specification keeps QueueInv.
LEMMA QueueStep == TypeInv /\ QueueInv /\ [Next]_vars => QueueInv'
<1> SUFFICES ASSUME TypeInv, QueueInv, [Next]_vars PROVE QueueInv'
  OBVIOUS
<1>1. CASE \E w \in Workers : WorkerStep(w) \/ LoseWrite(w)
  <2>1. PICK w \in Workers : WorkerStep(w) \/ LoseWrite(w)
    BY <1>1
  <2>2. CASE NothingFound(w) \/ PermanentError(w) \/ TransientError(w)
    BY <2>2, CloseKeeps DEF NothingFound, PermanentError, TransientError, RetryOrFail
  <2> QED BY <2>1, <2>2, ClaimKeeps, MarkFoundKeeps, BeginWriteKeeps, FinishWriteKeeps,
            MarkDownloadedKeeps, AbandonKeeps, LoseWriteKeeps DEF WorkerStep
<1>2. CASE \E h \in Handlers : HandlerStep(h)
  BY <1>2, RetryGetKeeps, RetryCheckKeeps, RetryWriteKeeps, CancelGetKeeps, CancelWriteKeeps,
     DeleteGetKeeps, DeleteRowKeeps, RemoveFileKeeps DEF HandlerStep
<1>3. CASE UNCHANGED vars
  BY <1>3 DEF vars, QueueInv, InFlightHasWorker, DownloadedIsOnDisk, NoStaleTemp,
     HandsAgree, Exists
<1> QED BY <1>1, <1>2, <1>3, SubmitKeeps, BackoffKeeps, ConsumeKeeps, RequeueKeeps,
          CleanKeeps, DownKeeps DEF Next, ProcessStep

\* Both layers hold in every state of every behaviour.
LEMMA QueueCorrect == Spec => [](TypeInv /\ QueueInv)
<1>1. Init => TypeInv /\ QueueInv
  BY TypeInit, QueueInit
<1>2. TypeInv /\ QueueInv /\ [Next]_vars => (TypeInv /\ QueueInv)'
  BY TypeStep, QueueStep
<1> QED BY <1>1, <1>2, PTL DEF Spec

\* While the process serves, a row that is SEARCHING or FOUND is in the hands of a
\* worker, unless the database refused that worker's write.
THEOREM InFlightNeverForgotten == Spec => []InFlightHasWorker
BY QueueCorrect, PTL DEF QueueInv

\* A recorded path names a file that was saved and that only a download client took.
THEOREM DownloadsStayOnDisk == Spec => []DownloadedIsOnDisk
BY QueueCorrect, PTL DEF QueueInv

\* While the process serves, a temporary file on disk is being written by one worker,
\* under whom nobody takes it away, or outlived a removal the file system refused.
THEOREM TempFilesAreAccountedFor == Spec => []NoStaleTemp
BY QueueCorrect, PTL DEF QueueInv

\* A saved file is there unless its request was removed meanwhile, only files of
\* removed requests are being unlinked, and recovery leaves nothing in flight.
THEOREM HandsAlwaysAgree == Spec => []HandsAgree
BY QueueCorrect, PTL DEF QueueInv
=============================================================================
