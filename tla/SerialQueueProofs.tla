------------------------- MODULE SerialQueueProofs -------------------------
(***************************************************************************)
(* What holds of the queue when the operator's calls come one at a time    *)
(* and do not cancel, for every number of requests and workers and through *)
(* crashes, restarts and lost writes.  Serial is the setting of the        *)
(* queue_serial run; cancel_race shows what breaks without it.             *)
(*                                                                         *)
(* SerialInv says that whoever acts on a row knows what is in it: a worker *)
(* its snapshot, a handler that retries that the request rests.            *)
(***************************************************************************)
EXTENDS JobQueueProofs

USE DEF FreshRow, NoRow, IdleWorker, Holding, IdleHandler, Row, WorkerState, HandlerState,
        Status, InFlight, Terminal, Cancellable, Retryable, Active, Serving, FinalPath

Serial == "cancel" \notin Operations /\ \A g, h \in Handlers : g = h

\* No two workers have one request.
Alone == \A v, w \in Workers : Active(w) /\ v # w => worker[v].id # worker[w].id

\* The snapshot of a worker is what its row says, unless the row is gone.
Snapshots ==
  \A w \in Workers : Active(w) =>
    LET i == worker[w].id IN
    \/ row[i].status = "DELETED"
    \/ /\ row[i].status = IF worker[w].pc = "searching" THEN "SEARCHING" ELSE "FOUND"
       /\ row[i].attempts = worker[w].attempts
       /\ row[i].query = worker[w].query

\* A request rests from the moment its retry read it until the retry writes.
Readers ==
  \A h \in Handlers :
    /\ handler[h].pc # "cancel_write"
    /\ handler[h].pc \in {"retry_check", "retry_write"} =>
         row[handler[h].id].status \in Retryable

\* Attempts of a queued request leave room for one more.
Counts ==
  /\ phase # "down" => starts > 0
  /\ \A i \in Ids :
       /\ row[i].status \in {"ABSENT", "DELETED"} => row[i].attempts = 0
       /\ row[i].attempts > 0 => row[i].attempts < MaxAttempts + starts
       /\ row[i].status = "QUEUED" /\ row[i].attempts > 0
            => row[i].attempts + 1 < MaxAttempts + starts

\* Releases answer the queries they were found for.
Answered ==
  /\ \A w \in Workers : worker[w].pc \in {"downloading", "writing", "saved"} =>
       worker[w].release \in Answers[worker[w].query]
  /\ \A i \in Ids : row[i].status = "DOWNLOADED" => row[i].file \in Answers[row[i].query]

SerialInv == Alone /\ Snapshots /\ Readers /\ Counts /\ Answered

\* Nothing runs and nothing is stored yet.
LEMMA SerialInit == Init => SerialInv
BY DEF Init, SerialInv, Alone, Snapshots, Readers, Counts, Answered, Active

-----------------------------------------------------------------------------
(* Steps that leave the workers' hands or the rows alone.                  *)

\* A worker that becomes idle without touching its row.
LEMMA DropKeeps ==
  ASSUME TypeInv, SerialInv, NEW w \in Workers, worker' = [worker EXCEPT ![w] = IdleWorker],
         UNCHANGED <<row, handler, phase, starts>>
  PROVE  SerialInv'
<1>1. \A v \in Workers : worker'[v] = worker[v] \/ worker'[v] = IdleWorker
  BY DEF TypeInv, TypeOK
<1>2. Alone'
  BY <1>1, IdsAssumption DEF SerialInv, Alone, Active, TypeInv, HandsFull
<1>3. Snapshots'
  BY <1>1 DEF SerialInv, Snapshots, Active
<1>4. Readers' /\ Counts'
  BY DEF SerialInv, Readers, Counts
<1>5. Answered'
  BY <1>1 DEF SerialInv, Answered
<1> QED BY <1>2, <1>3, <1>4, <1>5 DEF SerialInv

\* A worker that closes its attempt, with a status that its row allows.
LEMMA CloseSerial ==
  ASSUME TypeInv, SerialInv, NEW w \in Workers, Active(w), phase = "up",
         row' \in [Ids -> Row],
         worker' = [worker EXCEPT ![w] = IdleWorker], UNCHANGED <<handler, phase, starts>>,
         \A j \in Ids : \/ row'[j] = row[j]
                        \/ /\ j = worker[w].id /\ Exists(j)
                           /\ row'[j].status \in {"QUEUED", "NOT_FOUND", "FAILED", "DOWNLOADED"}
                           /\ row'[j].attempts = row[j].attempts /\ row'[j].query = row[j].query
                           /\ row'[j].status = "QUEUED" => worker[w].attempts < MaxAttempts
                           /\ row'[j].status = "DOWNLOADED" => row'[j].file \in Answers[worker[w].query]
  PROVE  SerialInv'
<1> DEFINE i == worker[w].id
<1>1. \A v \in Workers : (worker'[v] = worker[v] /\ v # w) \/ worker'[v] = IdleWorker
  BY DEF TypeInv, TypeOK
<1>2. i \in Ids /\ \A v \in Workers : Active(v) => worker[v].id \in Ids
  BY DEF TypeInv, HandsFull
<1>3. \A v \in Workers \ {w} : worker[v].id # i
  BY DEF SerialInv, Alone
<1>4. Exists(i) => /\ row[i].status \in InFlight
                   /\ row[i].attempts = worker[w].attempts /\ row[i].query = worker[w].query
  BY DEF SerialInv, Snapshots, Exists
<1>5. Alone'
  BY <1>1, IdsAssumption DEF SerialInv, Alone, Active, TypeInv, HandsFull
<1>6. Snapshots'
  BY <1>1, <1>2, <1>3 DEF SerialInv, Snapshots, Active
<1>7. Readers'
  <2>1. \A h \in Handlers : handler[h].pc \in {"retry_check", "retry_write"} => handler[h].id \in Ids
    BY DEF TypeInv, HandsFull
  <2>2. \A h \in Handlers : handler[h].pc \in {"retry_check", "retry_write"} =>
          row'[handler[h].id] = row[handler[h].id]
    BY <1>4, <2>1 DEF SerialInv, Readers
  <2> QED BY <2>2 DEF SerialInv, Readers
<1>8. Counts'
  <2>1. starts \in Nat /\ starts > 0 /\ MaxAttempts \in Nat
    BY MaxAttemptsAssumption DEF SerialInv, Counts, TypeInv, TypeOK
  <2>2. \A j \in Ids : row[j].attempts \in Nat
    BY DEF TypeInv, TypeOK
  <2>3. \A j \in Ids : row'[j] = row[j] \/ (j = i /\ Exists(i) /\ row'[j].attempts = row[i].attempts
          /\ row'[j].status \in {"QUEUED", "NOT_FOUND", "FAILED", "DOWNLOADED"}
          /\ (row'[j].status = "QUEUED" => row[i].attempts < MaxAttempts))
    BY <1>4
  <2> QED BY <1>2, <2>1, <2>2, <2>3 DEF SerialInv, Counts
<1>9. Answered'
  BY <1>1, <1>4 DEF SerialInv, Answered
<1> QED BY <1>5, <1>6, <1>7, <1>8, <1>9 DEF SerialInv

\* A handler that moves without touching a row.
LEMMA HandlerKeeps ==
  ASSUME TypeInv, SerialInv, NEW h \in Handlers, NEW s \in HandlerState,
         handler' = [handler EXCEPT ![h] = s], UNCHANGED <<row, worker, phase, starts>>,
         s.pc # "cancel_write",
         s.pc \in {"retry_check", "retry_write"} => row[s.id].status \in Retryable
  PROVE  SerialInv'
<1>1. \A g \in Handlers : handler'[g] = handler[g] \/ handler'[g] = s
  BY DEF TypeInv, TypeOK
<1>2. Readers'
  BY <1>1 DEF SerialInv, Readers
<1> QED BY <1>2 DEF SerialInv, Alone, Snapshots, Counts, Answered, Active

-----------------------------------------------------------------------------
(* One lemma per operation.                                                *)

\* A claim snapshots the row it has just written, and nobody else has the request.
LEMMA ClaimSerial ==
  ASSUME TypeInv, SerialInv, NEW w \in Workers, NEW i \in Ids, Claim(w, i)
  PROVE  SerialInv'
<1>1. /\ \A v \in Workers : v # w => worker'[v] = worker[v]
      /\ worker'[w] = [pc |-> "searching", id |-> i, query |-> row[i].query,
                       attempts |-> row[i].attempts + 1, release |-> NoRelease]
  BY DEF Claim, TypeInv, TypeOK
<1>2. /\ row[i].status = "QUEUED"
      /\ \A j \in Ids : j # i => row'[j] = row[j]
      /\ row'[i].status = "SEARCHING" /\ row'[i].query = row[i].query
      /\ row'[i].attempts = row[i].attempts + 1
  BY DEF Claim, Due, TypeInv, TypeOK
<1>3. \A v \in Workers : Active(v) => worker[v].id \in Ids /\ worker[v].id # i
  BY <1>2 DEF TypeInv, HandsFull, SerialInv, Snapshots
<1>4. UNCHANGED <<handler, phase, starts>> /\ phase = "up"
  BY DEF Claim
<1>5. Alone'
  <2>1. worker'[w].id = i /\ \A v \in Workers : v # w => worker'[v] = worker[v]
    BY <1>1
  <2>2. \A v \in Workers : v # w => worker[v].id # i
    BY <1>3, IdsAssumption DEF TypeInv, HandsFull
  <2> QED BY ONLY <2>1, <2>2, SerialInv DEF SerialInv, Alone, Active
<1>6. Snapshots'
  BY <1>1, <1>2, <1>3 DEF SerialInv, Snapshots
<1>7. Readers'
  <2>1. \A h \in Handlers : handler[h].pc \in {"retry_check", "retry_write"} => handler[h].id \in Ids
    BY DEF TypeInv, HandsFull
  <2> QED BY <1>2, <1>4, <2>1 DEF SerialInv, Readers
<1>8. Counts'
  <2>1. starts \in Nat /\ starts > 0 /\ MaxAttempts \in Nat \ {0} /\ row[i].attempts \in Nat
    BY <1>4, MaxAttemptsAssumption DEF SerialInv, Counts, TypeInv, TypeOK
  <2>2. row[i].attempts + 1 < MaxAttempts + starts
    BY <1>2, <2>1 DEF SerialInv, Counts
  <2> QED BY <1>2, <1>4, <2>1, <2>2 DEF SerialInv, Counts
<1>9. Answered'
  BY <1>1, <1>2 DEF SerialInv, Answered
<1> QED BY <1>5, <1>6, <1>7, <1>8, <1>9 DEF SerialInv

\* FOUND is what the worker that goes on to download believes, and the release it
\* took answers its query.
LEMMA MarkFoundSerial ==
  ASSUME TypeInv, SerialInv, NEW w \in Workers, NEW r \in Releases, MarkFound(w, r)
  PROVE  SerialInv'
<1> DEFINE i == worker[w].id
<1>1. CASE ~Exists(i)
  BY <1>1, DropKeeps DEF MarkFound
<1>2. CASE Exists(i)
  <2>1. /\ worker[w].pc = "searching" /\ i \in Ids /\ r \in Answers[worker[w].query]
        /\ UNCHANGED <<handler, phase, starts>>
    BY DEF MarkFound, TypeInv, HandsFull
  <2>2. /\ \A v \in Workers : v # w => worker'[v] = worker[v]
        /\ worker'[w].pc = "downloading" /\ worker'[w].id = i /\ worker'[w].release = r
        /\ worker'[w].query = worker[w].query /\ worker'[w].attempts = worker[w].attempts
    BY <1>2 DEF MarkFound, TypeInv, TypeOK
  <2>3. /\ row[i].status = "SEARCHING"
        /\ \A j \in Ids : j # i => row'[j] = row[j]
        /\ row'[i].status = "FOUND" /\ row'[i].query = row[i].query
        /\ row'[i].attempts = row[i].attempts
    BY <1>2, <2>1 DEF MarkFound, TypeInv, TypeOK, SerialInv, Snapshots, Exists
  <2>4. \A v \in Workers : Active(v) => worker[v].id \in Ids /\ (v # w => worker[v].id # i)
    BY <2>1 DEF TypeInv, HandsFull, SerialInv, Alone
  <2>5. Alone'
    BY <2>1, <2>2 DEF SerialInv, Alone
  <2>6. Snapshots'
    BY <2>1, <2>2, <2>3, <2>4 DEF SerialInv, Snapshots
  <2>7. Readers'
    <3>1. \A h \in Handlers : handler[h].pc \in {"retry_check", "retry_write"} => handler[h].id \in Ids
      BY DEF TypeInv, HandsFull
    <3> QED BY <2>1, <2>3, <3>1 DEF SerialInv, Readers
  <2>8. Counts'
    BY <2>1, <2>3 DEF SerialInv, Counts
  <2>9. Answered'
    BY <2>1, <2>2, <2>3 DEF SerialInv, Answered
  <2> QED BY <2>5, <2>6, <2>7, <2>8, <2>9 DEF SerialInv
<1> QED BY <1>1, <1>2

\* Writing the file changes only how far the worker is.
LEMMA WriteSerial ==
  ASSUME TypeInv, SerialInv, NEW w \in Workers, BeginWrite(w) \/ FinishWrite(w)
  PROVE  SerialInv'
<1>1. /\ \A v \in Workers : v # w => worker'[v] = worker[v]
      /\ worker[w].pc \in {"downloading", "writing"} /\ worker'[w].pc \in {"writing", "saved"}
      /\ worker'[w].id = worker[w].id /\ worker'[w].release = worker[w].release
      /\ worker'[w].query = worker[w].query /\ worker'[w].attempts = worker[w].attempts
  BY DEF BeginWrite, FinishWrite, TypeInv, TypeOK
<1>2. UNCHANGED <<row, handler, phase, starts>>
  BY DEF BeginWrite, FinishWrite
<1>3. Alone'
  BY <1>1 DEF SerialInv, Alone
<1>4. Snapshots'
  BY <1>1, <1>2 DEF SerialInv, Snapshots
<1>5. Readers' /\ Counts'
  BY <1>2 DEF SerialInv, Readers, Counts
<1>6. Answered'
  BY <1>1, <1>2 DEF SerialInv, Answered
<1> QED BY <1>3, <1>4, <1>5, <1>6 DEF SerialInv

\* What the end of an attempt writes: the row stays, or takes the answer.
LEMMA CloseEffect ==
  ASSUME TypeInv, NEW w \in Workers, NEW s, NEW b, Active(w), CloseAttempt(w, s, b), NEW j \in Ids
  PROVE  \/ row'[j] = row[j]
         \/ /\ j = worker[w].id /\ Exists(j) /\ row'[j].status = s
            /\ row'[j].attempts = row[j].attempts /\ row'[j].query = row[j].query
BY DEF CloseAttempt, TypeInv, TypeOK, HandsFull

\* The file that a success records answers the query that its row shows.
LEMMA MarkDownloadedEffect ==
  ASSUME TypeInv, NEW w \in Workers, MarkDownloaded(w), NEW j \in Ids
  PROVE  \/ row'[j] = row[j]
         \/ /\ j = worker[w].id /\ Exists(j) /\ row'[j].status = "DOWNLOADED"
            /\ row'[j].attempts = row[j].attempts /\ row'[j].query = row[j].query
            /\ row'[j].file = worker[w].release
BY DEF MarkDownloaded, RecordDownload, TypeInv, TypeOK, HandsFull

\* Every step of a worker keeps SerialInv.
LEMMA WorkerSerial ==
  ASSUME TypeInv, TypeInv', SerialInv, NEW w \in Workers, WorkerStep(w) \/ LoseWrite(w)
  PROVE  SerialInv'
<1>1. CASE NothingFound(w) \/ PermanentError(w) \/ TransientError(w)
  <2>1. ASSUME NEW s \in {"QUEUED", "NOT_FOUND", "FAILED"}, NEW b \in BOOLEAN, Active(w),
               CloseAttempt(w, s, b), s = "QUEUED" => worker[w].attempts < MaxAttempts
        PROVE  SerialInv'
    <3>1. /\ row' \in [Ids -> Row] /\ phase = "up"
          /\ worker' = [worker EXCEPT ![w] = IdleWorker] /\ UNCHANGED <<handler, phase, starts>>
      BY <2>1 DEF CloseAttempt, TypeInv, TypeOK
    <3>2. \A j \in Ids : \/ row'[j] = row[j]
                         \/ /\ j = worker[w].id /\ Exists(j) /\ row'[j].status = s
                            /\ row'[j].attempts = row[j].attempts /\ row'[j].query = row[j].query
      BY <2>1, CloseEffect
    <3> QED BY <2>1, <3>1, <3>2, CloseSerial
  <2>2. CASE NothingFound(w)
    BY <2>1, <2>2 DEF NothingFound
  <2>3. CASE PermanentError(w)
    BY <2>1, <2>3 DEF PermanentError
  <2>4. CASE TransientError(w)
    <3>1. worker[w].attempts >= MaxAttempts \/ worker[w].attempts < MaxAttempts
      BY MaxAttemptsAssumption DEF TypeInv, TypeOK
    <3> QED BY <2>1, <2>4, <3>1 DEF TransientError, RetryOrFail
  <2> QED BY <1>1, <2>2, <2>3, <2>4
<1>2. CASE MarkDownloaded(w)
  <2>1. /\ row' \in [Ids -> Row] /\ phase = "up" /\ Active(w) /\ worker[w].pc = "saved"
        /\ worker' = [worker EXCEPT ![w] = IdleWorker] /\ UNCHANGED <<handler, phase, starts>>
    BY <1>2 DEF MarkDownloaded, RecordDownload, TypeInv, TypeOK
  <2>2. worker[w].release \in Answers[worker[w].query]
    BY <2>1 DEF SerialInv, Answered
  <2>3. \A j \in Ids : \/ row'[j] = row[j]
                       \/ /\ j = worker[w].id /\ Exists(j) /\ row'[j].status = "DOWNLOADED"
                          /\ row'[j].attempts = row[j].attempts /\ row'[j].query = row[j].query
                          /\ row'[j].status # "QUEUED"
                          /\ row'[j].file \in Answers[worker[w].query]
    BY <1>2, <2>2, MarkDownloadedEffect
  <2> QED BY <2>1, <2>2, <2>3, CloseSerial
<1>3. CASE Abandon(w) \/ LoseWrite(w)
  BY <1>3, DropKeeps DEF Abandon, LoseWrite
<1> QED BY <1>1, <1>2, <1>3, ClaimSerial, MarkFoundSerial, WriteSerial DEF WorkerStep

\* A retry that alone reads and writes its request finds it resting, and queues it
\* with no attempt used.
LEMMA RetryWriteSerial ==
  ASSUME Serial, TypeInv, SerialInv, NEW h \in Handlers, RetryWrite(h)
  PROVE  SerialInv'
<1> DEFINE i == handler[h].id
<1>1. /\ i \in Ids /\ row[i].status \in Retryable /\ Exists(i)
      /\ UNCHANGED <<worker, phase, starts>> /\ handler' = [handler EXCEPT ![h] = IdleHandler]
  BY DEF RetryWrite, TypeInv, HandsFull, SerialInv, Readers, Exists
<1>2. handler[h].status \in {"QUEUED", "DUPLICATE"}
  BY DEF TypeInv, TypeOK
<1>3. /\ \A j \in Ids : j # i => row'[j] = row[j]
      /\ row'[i].status \in {"QUEUED", "DUPLICATE"} /\ row'[i].attempts = 0
  <2>1. row \in [Ids -> Row]
    BY DEF TypeInv, TypeOK
  <2> QED BY <1>1, <1>2, <2>1 DEF RetryWrite
<1>4. \A w \in Workers : Active(w) => worker[w].id \in Ids /\ worker[w].id # i
  BY <1>1 DEF TypeInv, HandsFull, SerialInv, Snapshots
<1>5. Snapshots'
  BY <1>1, <1>3, <1>4 DEF SerialInv, Snapshots
<1>6. Readers'
  <2>1. \A g \in Handlers : handler'[g] = IdleHandler
    BY <1>1 DEF Serial, TypeInv, TypeOK
  <2> QED BY <2>1 DEF Readers
<1>7. Counts' /\ Alone' /\ Answered'
  BY <1>1, <1>3 DEF SerialInv, Counts, Alone, Answered
<1> QED BY <1>5, <1>6, <1>7 DEF SerialInv

\* A removal takes the row away from whoever works on it.
LEMMA DeleteRowSerial ==
  ASSUME Serial, TypeInv, SerialInv, NEW h \in Handlers, DeleteRow(h)
  PROVE  SerialInv'
<1>1. /\ \A g \in Handlers : handler'[g].pc \in {"remove_file", "idle"}
      /\ UNCHANGED <<worker, phase, starts>>
  BY DEF DeleteRow, Serial, TypeInv, TypeOK
<1>2. \A j \in Ids : row'[j] = row[j] \/ row'[j] = NoRow("DELETED")
  BY DEF DeleteRow, TypeInv, TypeOK
<1>3. \A w \in Workers : Active(w) => worker[w].id \in Ids
  BY DEF TypeInv, HandsFull
<1>4. Readers'
  BY <1>1 DEF Readers
<1>5. Snapshots'
  BY <1>1, <1>2, <1>3 DEF SerialInv, Snapshots
<1>6. Counts' /\ Alone' /\ Answered'
  BY <1>1, <1>2 DEF SerialInv, Counts, Alone, Answered
<1> QED BY <1>4, <1>5, <1>6 DEF SerialInv

\* Every step of a handler keeps SerialInv.
LEMMA HandlerSerial ==
  ASSUME Serial, TypeInv, SerialInv, NEW h \in Handlers, HandlerStep(h)
  PROVE  SerialInv'
<1>1. CASE \E i \in Ids, edit \in Queries \cup {NoQuery}, force \in ForceChoices :
             RetryGet(h, i, edit, force)
  <2>1. PICK i \in Ids, edit \in Queries \cup {NoQuery}, force \in ForceChoices :
               RetryGet(h, i, edit, force)
    BY <1>1
  <2>2. PICK pc \in {"retry_check", "retry_write"}, q \in Queries \cup {NoQuery}, f \in BOOLEAN :
          handler' = [handler EXCEPT ![h] = Holding(pc, i, q, f, NoRelease)]
    <3>1. row[i].query \in Queries \cup {NoQuery} /\ row[i].force \in BOOLEAN /\ force \in BOOLEAN
      BY ForceAssumption DEF TypeInv, TypeOK
    <3> QED BY <2>1, <3>1 DEF RetryGet
  <2>3. row[i].status \in Retryable /\ UNCHANGED <<row, worker, phase, starts>>
    BY <2>1 DEF RetryGet
  <2>4. Holding(pc, i, q, f, NoRelease) \in HandlerState
    BY <2>2
  <2> QED BY <2>2, <2>3, <2>4, HandlerKeeps
<1>2. CASE RetryCheck(h)
  <2>1. PICK s \in {"QUEUED", "DUPLICATE"} : RetryVerdict(h, s)
    BY <1>2 DEF RetryCheck
  <2> DEFINE r == [handler[h] EXCEPT !.pc = "retry_write", !.status = s]
  <2>2. r \in HandlerState /\ r.pc = "retry_write" /\ r.id = handler[h].id
    BY handler[h] \in HandlerState DEF TypeInv, TypeOK
  <2>3. handler' = [handler EXCEPT ![h] = r]
    BY <2>1 DEF RetryVerdict
  <2>4. UNCHANGED <<row, worker, phase, starts>> /\ row[handler[h].id].status \in Retryable
    BY <2>1 DEF RetryVerdict, SerialInv, Readers
  <2> HIDE DEF r
  <2> QED BY <2>2, <2>3, <2>4, HandlerKeeps
<1>3. CASE \E i \in Ids : CancelGet(h, i)
  BY <1>3 DEF CancelGet, Serial
<1>4. CASE CancelWrite(h)
  BY <1>4 DEF CancelWrite, SerialInv, Readers
<1>5. CASE \E i \in Ids : DeleteGet(h, i)
  <2>1. PICK i \in Ids : DeleteGet(h, i)
    BY <1>5
  <2> DEFINE r == Holding("delete_row", i, NoQuery, FALSE, row[i].file)
  <2>2. r \in HandlerState /\ r.pc = "delete_row"
    BY DEF TypeInv, TypeOK
  <2>3. handler' = [handler EXCEPT ![h] = r] /\ UNCHANGED <<row, worker, phase, starts>>
    BY <2>1 DEF DeleteGet, BeginDelete
  <2> HIDE DEF r
  <2> QED BY <2>2, <2>3, HandlerKeeps
<1>6. CASE RemoveFile(h)
  <2>1. IdleHandler \in HandlerState /\ IdleHandler.pc = "idle"
    OBVIOUS
  <2>2. handler' = [handler EXCEPT ![h] = IdleHandler] /\ UNCHANGED <<row, worker, phase, starts>>
    BY <1>6 DEF RemoveFile
  <2> QED BY <2>1, <2>2, HandlerKeeps
<1> QED BY <1>1, <1>2, <1>3, <1>4, <1>5, <1>6, RetryWriteSerial, DeleteRowSerial DEF HandlerStep

\* A new row has used no attempt, and a query of its own.
LEMMA SubmitSerial ==
  ASSUME TypeInv, SerialInv, Submit
  PROVE  SerialInv'
<1>1. /\ UNCHANGED <<worker, handler, phase, starts>>
      /\ \A j \in Ids : \/ row'[j] = row[j]
                        \/ /\ row[j].status = "ABSENT"
                           /\ row'[j].status \in {"QUEUED", "DUPLICATE"} /\ row'[j].attempts = 0
  BY DEF Submit, CreateBatch, NewRow, TypeInv, TypeOK
<1>2. \A w \in Workers : Active(w) => worker[w].id \in Ids
  BY DEF TypeInv, HandsFull
<1>3. \A h \in Handlers : handler[h].pc \in {"retry_check", "retry_write"} => handler[h].id \in Ids
  BY DEF TypeInv, HandsFull
<1>4. Snapshots'
  BY <1>1, <1>2 DEF SerialInv, Snapshots
<1>5. Readers'
  BY <1>1, <1>3 DEF SerialInv, Readers
<1>6. Counts' /\ Alone' /\ Answered'
  BY <1>1 DEF SerialInv, Counts, Alone, Answered
<1> QED BY <1>4, <1>5, <1>6 DEF SerialInv

\* The end of a backoff touches nothing that a snapshot holds.
LEMMA BackoffSerial ==
  ASSUME TypeInv, SerialInv, NEW i \in Ids, BackoffElapses(i)
  PROVE  SerialInv'
<1>1. \A j \in Ids : /\ row'[j].status = row[j].status /\ row'[j].attempts = row[j].attempts
                     /\ row'[j].query = row[j].query /\ row'[j].file = row[j].file
  BY DEF BackoffElapses, WakeUp, TypeInv, TypeOK
<1>2. UNCHANGED <<worker, handler, phase, starts>>
  BY DEF BackoffElapses, WakeUp
<1>3. /\ \A w \in Workers : Active(w) => worker[w].id \in Ids
      /\ \A h \in Handlers : handler[h].pc \in {"retry_check", "retry_write"} => handler[h].id \in Ids
  BY DEF TypeInv, HandsFull
<1>4. Snapshots'
  BY <1>1, <1>2, <1>3 DEF SerialInv, Snapshots
<1>5. Readers'
  BY <1>1, <1>2, <1>3 DEF SerialInv, Readers
<1>6. Counts' /\ Alone' /\ Answered'
  BY <1>1, <1>2 DEF SerialInv, Counts, Alone, Answered
<1> QED BY <1>4, <1>5, <1>6 DEF SerialInv

\* A restart gives every interrupted attempt back, and one more is allowed for.
LEMMA RequeueSerial ==
  ASSUME TypeInv, SerialInv, RequeueInFlight
  PROVE  SerialInv'
<1>1. \A j \in Ids :
        /\ row'[j].attempts = row[j].attempts /\ row'[j].query = row[j].query
        /\ row'[j].file = row[j].file
        /\ \/ row[j].status \in InFlight /\ row'[j].status = "QUEUED"
           \/ row[j].status \notin InFlight /\ row'[j].status = row[j].status
  <2>1. ASSUME NEW j \in Ids
        PROVE  /\ row'[j].attempts = row[j].attempts /\ row'[j].query = row[j].query
    <3>1. row[j] \in Row
      BY DEF TypeInv, TypeOK
    <3>2. row'[j] = IF row[j].status \in InFlight
                      THEN [row[j] EXCEPT !.status = "QUEUED", !.waiting = FALSE] ELSE row[j]
      BY DEF RequeueInFlight, Requeue
    <3> QED BY ONLY <3>1, <3>2
  <2> QED BY <2>1, RequeueEffect
<1>2. UNCHANGED <<worker, handler>> /\ starts' = starts + 1 /\ phase = "down"
  BY DEF RequeueInFlight, Requeue
<1>3. (\A w \in Workers : ~Active(w)) /\ \A h \in Handlers : handler[h].pc = "idle"
  BY <1>2 DEF TypeInv, HandsFull
<1>4. Alone' /\ Snapshots' /\ Readers'
  BY <1>2, <1>3 DEF Alone, Snapshots, Readers
<1>5. Counts'
  <2>1. starts \in Nat /\ MaxAttempts \in Nat /\ \A j \in Ids : row[j].attempts \in Nat
    BY MaxAttemptsAssumption DEF TypeInv, TypeOK
  <2> QED BY <1>1, <1>2, <2>1 DEF SerialInv, Counts
<1>6. Answered'
  BY <1>1, <1>2 DEF SerialInv, Answered
<1> QED BY <1>4, <1>5, <1>6 DEF SerialInv

\* The other steps of the process forget what was held, or change no row and no hand.
LEMMA ProcessSerial ==
  ASSUME TypeInv, SerialInv, CleanTempFiles \/ Shutdown \/ Exit \/ Crash
  PROVE  SerialInv'
<1>1. UNCHANGED <<row, starts>> /\ (phase = "down" => phase' = "down")
  BY DEF CleanTempFiles, FinishRecovery, Shutdown, Exit, Crash
<1>2. \A w \in Workers : worker'[w] = worker[w] \/ worker'[w] = IdleWorker
  BY DEF CleanTempFiles, FinishRecovery, Shutdown, Exit, Crash
<1>3. \A h \in Handlers : handler'[h] = handler[h] \/ handler'[h] = IdleHandler
  BY DEF CleanTempFiles, FinishRecovery, Shutdown, Exit, Crash
<1>4. Alone'
  BY <1>2, IdsAssumption DEF SerialInv, Alone, TypeInv, HandsFull
<1>5. Snapshots' /\ Answered'
  BY <1>1, <1>2 DEF SerialInv, Snapshots, Answered
<1>6. Readers' /\ Counts'
  BY <1>1, <1>3 DEF SerialInv, Readers, Counts
<1> QED BY <1>4, <1>5, <1>6 DEF SerialInv

\* One step of the specification keeps SerialInv.
LEMMA SerialStep ==
  ASSUME Serial, TypeInv, TypeInv', SerialInv, [Next]_vars
  PROVE  SerialInv'
<1>1. CASE \E w \in Workers : WorkerStep(w) \/ LoseWrite(w)
  BY <1>1, WorkerSerial
<1>2. CASE \E h \in Handlers : HandlerStep(h)
  BY <1>2, HandlerSerial
<1>3. CASE UNCHANGED vars \/ \E f \in files : Consume(f)
  <2>1. UNCHANGED <<row, worker, handler, phase, starts>>
    BY <1>3 DEF vars, Consume
  <2> QED BY <2>1 DEF SerialInv, Alone, Snapshots, Readers, Counts, Answered
<1> QED BY <1>1, <1>2, <1>3, SubmitSerial, BackoffSerial, RequeueSerial, ProcessSerial
       DEF Next, ProcessStep

\* Both layers hold in every state of every serial behaviour.
LEMMA SerialCorrect ==
  ASSUME Serial PROVE Spec => [](TypeInv /\ SerialInv)
<1>1. Init => TypeInv /\ SerialInv
  BY TypeInit, SerialInit
<1>2. TypeInv /\ SerialInv /\ [Next]_vars => (TypeInv /\ SerialInv)'
  BY TypeStep, SerialStep
<1> QED BY <1>1, <1>2, PTL DEF Spec

\* What a worker believes about its request when it acts on it is what the table says,
\* and no other worker has the request, unless the request was removed meanwhile.
THEOREM SnapshotsStayFresh ==
  ASSUME Serial PROVE Spec => []SnapshotIsFresh
<1>1. TypeInv /\ SerialInv => SnapshotIsFresh
  BY IdsAssumption DEF TypeInv, HandsFull, SerialInv, Alone, Snapshots, SnapshotIsFresh
<1> QED BY <1>1, SerialCorrect, PTL

\* No request is tried more than RETRY_MAX_ATTEMPTS times, plus once per restart.
THEOREM AttemptsStayBounded ==
  ASSUME Serial PROVE Spec => []AttemptsBounded
<1>1. SerialInv => AttemptsBounded
  BY DEF SerialInv, Counts, AttemptsBounded
<1> QED BY <1>1, SerialCorrect, PTL

\* The file of a DOWNLOADED request answers the query that its row shows.
THEOREM FilesAnswerQueries ==
  ASSUME Serial PROVE Spec => []FileAnswersQuery
<1>1. SerialInv => FileAnswersQuery
  BY DEF SerialInv, Answered, FileAnswersQuery
<1> QED BY <1>1, SerialCorrect, PTL

-----------------------------------------------------------------------------
(* The queue implements the life cycle that model.go documents.            *)

Statuses == [j \in Ids |-> row[j].status]
Tries    == [j \in Ids |-> row[j].attempts]

LifeStep == [Lifecycle!LifeNext]_<<Statuses, Tries>>

\* Nothing is stored yet.
LEMMA LifeStart == Init => Lifecycle!LifeInit
BY DEF Init, Lifecycle!LifeInit

\* A step that changes no status and no count of attempts is none of the life cycle.
LEMMA LifeStutters ==
  ASSUME \A j \in Ids : row'[j].status = row[j].status /\ row'[j].attempts = row[j].attempts
  PROVE  LifeStep
BY DEF LifeStep, Statuses, Tries

\* A step that changes one row changes one status and one count.
LEMMA LifeMoves ==
  ASSUME NEW i \in Ids, NEW s, NEW n,
         \A j \in Ids : j # i => row'[j].status = row[j].status /\ row'[j].attempts = row[j].attempts,
         row'[i].status = s, row'[i].attempts = n
  PROVE  /\ Statuses' = [Statuses EXCEPT ![i] = s]
         /\ Tries' = [Tries EXCEPT ![i] = n]
BY DEF Statuses, Tries

\* The operations of the life cycle that act on one request.
LEMMA LifeOfOne ==
  ASSUME NEW i \in Ids,
         \/ Lifecycle!Begin(i) \/ Lifecycle!Select(i) \/ Lifecycle!Conclude(i)
         \/ Lifecycle!GiveBack(i) \/ Lifecycle!Reopen(i) \/ Lifecycle!Remove(i)
  PROVE  LifeStep
BY DEF LifeStep, Lifecycle!LifeNext

\* What a worker does to a row is a step of the life cycle.
LEMMA WorkerLives ==
  ASSUME TypeInv, SerialInv, NEW w \in Workers, WorkerStep(w) \/ LoseWrite(w)
  PROVE  LifeStep
<1> DEFINE i == worker[w].id
<1>1. ASSUME NEW k \in Ids, Claim(w, k) PROVE LifeStep
  <2>1. /\ row[k].status = "QUEUED" /\ row'[k].status = "SEARCHING"
        /\ row'[k].attempts = row[k].attempts + 1 /\ \A j \in Ids : j # k => row'[j] = row[j]
    BY <1>1 DEF Claim, Due, TypeInv, TypeOK
  <2>2. Lifecycle!Begin(k)
    BY <2>1, LifeMoves DEF Lifecycle!Begin, Statuses, Tries
  <2> QED BY <2>2, LifeOfOne
<1>2. ASSUME NEW r \in Releases, MarkFound(w, r), Exists(i) PROVE LifeStep
  <2>1. PICK k \in Ids : k = i /\ row[k].status = "SEARCHING"
    BY <1>2 DEF MarkFound, TypeInv, HandsFull, SerialInv, Snapshots, Exists
  <2>2. /\ row'[k].status = "FOUND" /\ row'[k].attempts = row[k].attempts
        /\ \A j \in Ids : j # k => row'[j] = row[j]
    BY <1>2, <2>1 DEF MarkFound, TypeInv, TypeOK
  <2>3. Lifecycle!Select(k)
    BY <2>1, <2>2, LifeMoves DEF Lifecycle!Select, Statuses, Tries
  <2> QED BY <2>1, <2>3, LifeOfOne
<1>3. ASSUME NEW s, NEW k \in Ids, row[k].status \in InFlight,
             row'[k].status = s, row'[k].attempts = row[k].attempts,
             \A j \in Ids : j # k => row'[j] = row[j],
             \/ s = "FAILED"
             \/ s = "NOT_FOUND" /\ row[k].status = "SEARCHING"
             \/ s = "DOWNLOADED" /\ row[k].status = "FOUND"
             \/ s = "QUEUED" /\ row[k].attempts < MaxAttempts
      PROVE  LifeStep
  <2>1. /\ Statuses' = [Statuses EXCEPT ![k] = s] /\ UNCHANGED Tries
        /\ Statuses[k] = row[k].status /\ Tries[k] = row[k].attempts
    BY <1>3, LifeMoves DEF Statuses, Tries
  <2>2. Lifecycle!Conclude(k) \/ Lifecycle!GiveBack(k)
    BY <1>3, <2>1
       DEF Lifecycle!Conclude, Lifecycle!GiveBack, Lifecycle!Resting, Lifecycle!Working, Statuses, Tries
  <2> QED BY <1>3, <2>2, LifeOfOne
<1>4. ASSUME NEW s, NEW b, CloseAttempt(w, s, b), Active(w),
             \/ s = "FAILED"
             \/ s = "NOT_FOUND" /\ worker[w].pc = "searching"
             \/ s = "QUEUED" /\ worker[w].attempts < MaxAttempts
      PROVE  LifeStep
  <2>1. CASE \A j \in Ids : row'[j] = row[j]
    BY <2>1, LifeStutters
  <2>2. CASE ~(\A j \in Ids : row'[j] = row[j])
    <3>1. /\ i \in Ids /\ Exists(i) /\ row'[i].status = s /\ row'[i].attempts = row[i].attempts
          /\ \A j \in Ids : j # i => row'[j] = row[j]
      BY <1>4, <2>2, CloseEffect DEF TypeInv, HandsFull
    <3>2. /\ row[i].status = IF worker[w].pc = "searching" THEN "SEARCHING" ELSE "FOUND"
          /\ row[i].attempts = worker[w].attempts
      BY <1>4, <3>1 DEF SerialInv, Snapshots, Exists
    <3> QED BY <1>3, <1>4, <3>1, <3>2
  <2> QED BY <2>1, <2>2
<1>5. CASE MarkDownloaded(w)
  <2>1. CASE \A j \in Ids : row'[j] = row[j]
    BY <2>1, LifeStutters
  <2>2. CASE ~(\A j \in Ids : row'[j] = row[j])
    <3>1. /\ i \in Ids /\ Exists(i) /\ row'[i].status = "DOWNLOADED"
          /\ row'[i].attempts = row[i].attempts
          /\ \A j \in Ids : j # i => row'[j] = row[j]
      BY <1>5, <2>2, MarkDownloadedEffect
         DEF MarkDownloaded, RecordDownload, TypeInv, HandsFull
    <3>2. Active(w) /\ row[i].status = "FOUND"
      BY <1>5, <3>1 DEF MarkDownloaded, RecordDownload, SerialInv, Snapshots, Exists
    <3> QED BY <1>3, <3>1, <3>2
  <2> QED BY <2>1, <2>2
<1>6. CASE TransientError(w)
  <2>1. worker[w].attempts >= MaxAttempts \/ worker[w].attempts < MaxAttempts
    BY MaxAttemptsAssumption DEF TypeInv, TypeOK
  <2> QED BY <1>4, <1>6, <2>1 DEF TransientError, RetryOrFail
<1>7. CASE NothingFound(w) \/ PermanentError(w)
  BY <1>4, <1>7 DEF NothingFound, PermanentError
<1>8. CASE UNCHANGED row
  BY <1>8, LifeStutters
<1>9. BeginWrite(w) \/ FinishWrite(w) \/ Abandon(w) \/ LoseWrite(w)
        \/ (\E r \in Releases : MarkFound(w, r) /\ ~Exists(i)) => UNCHANGED row
  BY DEF BeginWrite, FinishWrite, Abandon, LoseWrite, MarkFound
<1> QED BY <1>1, <1>2, <1>5, <1>6, <1>7, <1>8, <1>9 DEF WorkerStep

\* So is what a handler does: a retry reopens a request at rest, a removal ends it.
LEMMA HandlerLives ==
  ASSUME Serial, TypeInv, SerialInv, NEW h \in Handlers, HandlerStep(h)
  PROVE  LifeStep
<1> DEFINE i == handler[h].id
<1>1. CASE RetryWrite(h)
  <2>1. PICK k \in Ids :
          /\ k = i /\ row[k].status \in Retryable /\ Exists(k)
          /\ handler[h].status \in {"QUEUED", "DUPLICATE"} /\ row \in [Ids -> Row]
    BY <1>1 DEF RetryWrite, TypeInv, TypeOK, HandsFull, SerialInv, Readers, Exists
  <2>2. /\ row'[k].status = handler[h].status /\ row'[k].attempts = 0
        /\ \A j \in Ids : j # k => row'[j] = row[j]
    BY <1>1, <2>1 DEF RetryWrite
  <2>3. /\ Statuses' = [Statuses EXCEPT ![k] = handler[h].status]
        /\ Tries' = [Tries EXCEPT ![k] = 0] /\ Statuses[k] = row[k].status
    <3>1. \A j \in Ids : j # k => row'[j].status = row[j].status /\ row'[j].attempts = row[j].attempts
      BY ONLY <2>2
    <3> QED BY ONLY k \in Ids, <2>2, <3>1, LifeMoves DEF Statuses
  <2>4. Lifecycle!Reopen(k)
    BY <2>1, <2>3 DEF Lifecycle!Reopen, Lifecycle!Resting, Statuses, Tries
  <2> QED BY <2>4, LifeOfOne
<1>2. CASE DeleteRow(h) /\ Exists(i)
  <2>1. PICK k \in Ids :
          /\ k = i /\ row'[k].status = "DELETED" /\ row'[k].attempts = 0
          /\ \A j \in Ids : j # k => row'[j] = row[j]
    BY <1>2 DEF DeleteRow, TypeInv, TypeOK, HandsFull
  <2>2. Lifecycle!Remove(k)
    BY <1>2, <2>1, LifeMoves DEF Lifecycle!Remove, Statuses, Tries, Exists
  <2> QED BY <2>2, LifeOfOne
<1>3. CASE UNCHANGED row
  BY <1>3, LifeStutters
<1>4. ~CancelWrite(h) /\ (DeleteRow(h) /\ ~Exists(i) => UNCHANGED row)
  BY DEF CancelWrite, DeleteRow, SerialInv, Readers
<1> QED BY <1>1, <1>2, <1>3, <1>4
       DEF HandlerStep, RetryGet, CancelGet, DeleteGet, BeginDelete, RetryCheck, RetryVerdict, RemoveFile

\* So are submissions and restarts.
LEMMA OthersLive ==
  ASSUME TypeInv, SerialInv, Submit \/ RequeueInFlight
  PROVE  LifeStep
<1>1. CASE Submit
  <2>1. PICK S \in SUBSET Ids, force \in ForceChoices, now \in 0 .. Cardinality(Ids) :
          \E query \in [S -> Queries] : CreateBatch(S, query, force, now)
    BY <1>1 DEF Submit
  <2> DEFINE new == [j \in S |-> row'[j].status]
  <2>2. /\ \A j \in S : row[j].status = "ABSENT" /\ row[j].attempts = 0
        /\ \A j \in S : row'[j].status \in {"QUEUED", "DUPLICATE"} /\ row'[j].attempts = 0
        /\ \A j \in Ids \ S : row'[j] = row[j]
    BY <2>1 DEF CreateBatch, NewRow, SerialInv, Counts
  <2>3. new \in [S -> {"QUEUED", "DUPLICATE"}]
    BY <2>2
  <2>4. /\ \A j \in S : Statuses[j] = "ABSENT"
        /\ Statuses' = [j \in Ids |-> IF j \in S THEN new[j] ELSE Statuses[j]]
        /\ UNCHANGED Tries
    BY <2>2 DEF Statuses, Tries
  <2> HIDE DEF new
  <2>5. Lifecycle!Admit
    BY <2>3, <2>4 DEF Lifecycle!Admit, Statuses, Tries
  <2> QED BY <2>5 DEF LifeStep, Lifecycle!LifeNext
<1>2. CASE RequeueInFlight
  <2>1. \A j \in Ids : row'[j].attempts = row[j].attempts
    <3>1. \A j \in Ids : row[j] \in Row
      BY DEF TypeInv, TypeOK
    <3> QED BY <1>2, <3>1 DEF RequeueInFlight, Requeue
  <2>2. \A j \in Ids : row'[j].status =
                         IF row[j].status \in Lifecycle!Working THEN "QUEUED" ELSE row[j].status
    BY <1>2, RequeueEffect DEF Lifecycle!Working
  <2>3. Lifecycle!Restart
    BY <2>1, <2>2 DEF Lifecycle!Restart, Statuses, Tries
  <2> QED BY <2>3 DEF LifeStep, Lifecycle!LifeNext
<1> QED BY <1>1, <1>2

\* Every step of the queue is a step of the life cycle, or none.
LEMMA NextLives ==
  ASSUME Serial, TypeInv, SerialInv, [Next]_vars
  PROVE  LifeStep
<1>1. CASE \E w \in Workers : WorkerStep(w) \/ LoseWrite(w)
  BY <1>1, WorkerLives
<1>2. CASE \E h \in Handlers : HandlerStep(h)
  BY <1>2, HandlerLives
<1>3. CASE \E i \in Ids : BackoffElapses(i)
  <2>1. \A j \in Ids : row'[j].status = row[j].status /\ row'[j].attempts = row[j].attempts
    BY <1>3 DEF BackoffElapses, WakeUp, TypeInv, TypeOK
  <2> QED BY <2>1, LifeStutters
<1>4. CASE \/ UNCHANGED vars \/ \E f \in files : Consume(f)
           \/ CleanTempFiles \/ Shutdown \/ Exit \/ Crash
  <2>1. UNCHANGED row
    BY <1>4 DEF vars, Consume, CleanTempFiles, FinishRecovery, Shutdown, Exit, Crash
  <2> QED BY <2>1, LifeStutters
<1> QED BY <1>1, <1>2, <1>3, <1>4, OthersLive DEF Next, ProcessStep

\* The queue implements RequestLifecycle: every status and every count of attempts
\* moves only the way the documented life cycle says.
THEOREM QueueImplementsLifecycle ==
  ASSUME Serial PROVE Spec => FollowsLifecycle
<1>1. Init => Lifecycle!LifeInit
  BY LifeStart
<1>2. TypeInv /\ SerialInv /\ [Next]_vars => [Lifecycle!LifeNext]_(Lifecycle!lifeVars)
  BY NextLives DEF LifeStep, Statuses, Tries, Lifecycle!lifeVars
<1> QED BY <1>1, <1>2, SerialCorrect, PTL DEF Spec, FollowsLifecycle, Lifecycle!LifeSpec

-----------------------------------------------------------------------------
RestStep ==
  \A i \in Ids :
    row[i].status \in Terminal /\ row'[i].status # row[i].status
      => \E h \in Handlers : handler[h].id = i /\ handler'[h] # handler[h]

\* A request at rest moves only by the step of an operator's handler on it.
LEMMA NextRests ==
  ASSUME TypeInv, SerialInv, [Next]_vars
  PROVE  RestStep
<1>1. ASSUME NEW w \in Workers, WorkerStep(w) \/ LoseWrite(w), NEW j \in Ids,
             row[j].status \in Terminal
      PROVE  row'[j].status = row[j].status
  <2>1. j # worker[w].id \/ ~Active(w)
    BY <1>1 DEF SerialInv, Snapshots
  <2>2. ASSUME NEW s, NEW b, CloseAttempt(w, s, b), Active(w) PROVE row'[j] = row[j]
    BY <2>1, <2>2, CloseEffect
  <2>3. CASE NothingFound(w) \/ PermanentError(w) \/ TransientError(w)
    BY <2>2, <2>3 DEF NothingFound, PermanentError, TransientError, RetryOrFail
  <2>4. CASE MarkDownloaded(w)
    BY <2>1, <2>4, MarkDownloadedEffect DEF MarkDownloaded, RecordDownload
  <2>5. CASE \E i \in Ids : Claim(w, i)
    BY <2>5, <1>1 DEF Claim, Due, TypeInv, TypeOK
  <2>6. CASE \E r \in Releases : MarkFound(w, r)
    BY <2>6, <2>1 DEF MarkFound, TypeInv, TypeOK
  <2>7. CASE BeginWrite(w) \/ FinishWrite(w) \/ Abandon(w) \/ LoseWrite(w)
    BY <2>7 DEF BeginWrite, FinishWrite, Abandon, LoseWrite
  <2> QED BY <1>1, <2>3, <2>4, <2>5, <2>6, <2>7 DEF WorkerStep
<1>2. ASSUME NEW h \in Handlers, HandlerStep(h), NEW j \in Ids, row'[j].status # row[j].status
      PROVE  handler[h].id = j /\ handler'[h] # handler[h]
  <2>1. CASE RetryWrite(h)
    <3>1. handler'[h].pc = "idle" /\ handler[h].pc = "retry_write"
      BY <2>1 DEF RetryWrite, TypeInv, TypeOK
    <3>2. handler[h].id = j
      BY <1>2, <2>1 DEF RetryWrite, TypeInv, TypeOK
    <3> QED BY <3>1, <3>2
  <2>2. CASE DeleteRow(h)
    <3>1. handler'[h].pc # "delete_row" /\ handler[h].pc = "delete_row"
      BY <2>2 DEF DeleteRow, TypeInv, TypeOK
    <3>2. handler[h].id = j
      BY <1>2, <2>2 DEF DeleteRow, TypeInv, TypeOK
    <3> QED BY <3>1, <3>2
  <2>3. ~CancelWrite(h) /\ row' # row
    BY <1>2 DEF CancelWrite, SerialInv, Readers
  <2> QED BY <1>2, <2>1, <2>2, <2>3
         DEF HandlerStep, RetryGet, CancelGet, DeleteGet, BeginDelete, RetryCheck, RetryVerdict,
             RemoveFile
<1>3. CASE Submit
  BY <1>3 DEF Submit, CreateBatch, RestStep, TypeInv, TypeOK
<1>4. CASE \E i \in Ids : BackoffElapses(i)
  <2>1. \A j \in Ids : row'[j].status = row[j].status
    BY <1>4 DEF BackoffElapses, WakeUp, TypeInv, TypeOK
  <2> QED BY <2>1 DEF RestStep
<1>5. CASE RequeueInFlight
  BY <1>5, RequeueEffect DEF RestStep
<1>6. CASE \/ UNCHANGED vars \/ \E f \in files : Consume(f)
           \/ CleanTempFiles \/ Shutdown \/ Exit \/ Crash
  <2>1. UNCHANGED row
    BY <1>6 DEF vars, Consume, CleanTempFiles, FinishRecovery, Shutdown, Exit, Crash
  <2> QED BY <2>1 DEF RestStep
<1>7. CASE \E w \in Workers : WorkerStep(w) \/ LoseWrite(w)
  BY <1>1, <1>7 DEF RestStep
<1>8. CASE \E h \in Handlers : HandlerStep(h)
  BY <1>2, <1>8 DEF RestStep
<1> QED BY <1>3, <1>4, <1>5, <1>6, <1>7, <1>8 DEF Next, ProcessStep

\* A terminal status is left only through an explicit operator action.
THEOREM TerminalStatusesRest ==
  ASSUME Serial PROVE Spec => TerminalRests
<1>1. TypeInv /\ SerialInv /\ [Next]_vars => [RestStep]_vars
  BY NextRests
<1> QED BY <1>1, SerialCorrect, PTL DEF Spec, TerminalRests, RestStep

-----------------------------------------------------------------------------
(* No file is left without a row, while nothing was lost or interrupted.   *)

\* A recorded path is that of a DOWNLOADED request: nothing else ever had a file.
PathsRest == \A i \in Ids : row[i].file # NoRelease => row[i].status = "DOWNLOADED"

\* The first start finds an empty directory.
FirstStart == /\ starts = 0 => phase = "down" /\ files = {}
              /\ starts = 1 /\ phase = "recovering" => files = {}

FileInv == PathsRest /\ FirstStart /\ EveryFileRecorded

\* Nothing is stored yet.
LEMMA FileInit == Init => FileInv
BY DEF Init, FileInv, PathsRest, FirstStart, EveryFileRecorded

\* A step that adds no file, keeps the paths of the rows it does not delete, and leaves
\* the workers alone that are about to record theirs.
LEMMA FilesKept ==
  ASSUME TypeInv, EveryFileRecorded, files' \subseteq files,
         phase' = "up" /\ starts' = 1 /\ faults' = 0 => phase = "up" /\ starts = 1 /\ faults = 0,
         \A j \in Ids : \/ row'[j].status = "DELETED"
                        \/ row[j].status # "DELETED" /\ row'[j].file = row[j].file,
         phase' = "up" => \A v \in Workers : worker[v].pc = "saved" => worker'[v] = worker[v]
  PROVE  EveryFileRecorded'
<1>1. \A f \in files : f[1] \in Ids
  BY DEF TypeInv, TypeOK
<1> QED BY <1>1 DEF EveryFileRecorded

\* What a step of a worker does to rows.
LEMMA WorkerRows ==
  ASSUME TypeInv, SerialInv, NEW w \in Workers, WorkerStep(w) \/ LoseWrite(w), NEW j \in Ids
  PROVE  \/ row'[j] = row[j]
         \/ /\ row[j].status \in {"QUEUED", "SEARCHING", "FOUND"}
            /\ row'[j].file = row[j].file /\ ~MarkDownloaded(w)
         \/ /\ MarkDownloaded(w) /\ j = worker[w].id /\ row[j].status = "FOUND"
            /\ row'[j].status = "DOWNLOADED" /\ row'[j].file = worker[w].release
<1>1. CASE \E i \in Ids : Claim(w, i)
  <2>1. PICK i \in Ids : Claim(w, i)
    BY <1>1
  <2>2. row'[j] = row[j] \/ (j = i /\ row[j].status = "QUEUED" /\ row'[j].file = row[j].file)
    BY <2>1 DEF Claim, Due, TypeInv, TypeOK
  <2>3. worker[w].pc = "idle"
    BY <2>1 DEF Claim
  <2> QED BY <2>2, <2>3 DEF MarkDownloaded, RecordDownload
<1>2. CASE \E r \in Releases : MarkFound(w, r)
  <2>1. PICK r \in Releases : MarkFound(w, r)
    BY <1>2
  <2>2. worker[w].pc = "searching"
    BY <2>1 DEF MarkFound
  <2>3. row'[j] = row[j] \/ (j = worker[w].id /\ Exists(j) /\ row'[j].file = row[j].file)
    BY <2>1 DEF MarkFound, TypeInv, TypeOK
  <2>4. j = worker[w].id /\ Exists(j) => row[j].status = "SEARCHING"
    BY <2>2 DEF SerialInv, Snapshots, Exists
  <2> QED BY <2>2, <2>3, <2>4 DEF MarkDownloaded, RecordDownload
<1>3. CASE MarkDownloaded(w)
  <2>1. Active(w) /\ worker[w].pc = "saved"
    BY <1>3 DEF MarkDownloaded, RecordDownload
  <2>2. j = worker[w].id /\ Exists(j) => row[j].status = "FOUND"
    BY <2>1 DEF SerialInv, Snapshots, Exists
  <2> QED BY <1>3, <2>2, MarkDownloadedEffect
<1>4. ASSUME NEW s, NEW b, CloseAttempt(w, s, b), worker[w].pc \in {"searching", "downloading", "writing"}
      PROVE  \/ row'[j] = row[j]
             \/ /\ row[j].status \in {"QUEUED", "SEARCHING", "FOUND"}
                /\ row'[j].file = row[j].file /\ ~MarkDownloaded(w)
  <2>1. \/ row'[j] = row[j]
        \/ j = worker[w].id /\ Exists(j) /\ row'[j].file = row[j].file
    BY <1>4 DEF CloseAttempt, TypeInv, TypeOK
  <2>2. j = worker[w].id /\ Exists(j) => row[j].status \in InFlight
    BY <1>4 DEF SerialInv, Snapshots, Exists
  <2>3. ~MarkDownloaded(w)
    BY <1>4 DEF MarkDownloaded, RecordDownload
  <2> QED BY <2>1, <2>2, <2>3
<1>5. CASE NothingFound(w) \/ PermanentError(w) \/ TransientError(w)
  BY <1>4, <1>5 DEF NothingFound, PermanentError, TransientError, RetryOrFail
<1>6. CASE BeginWrite(w) \/ FinishWrite(w) \/ Abandon(w) \/ LoseWrite(w)
  BY <1>6 DEF BeginWrite, FinishWrite, Abandon, LoseWrite
<1> QED BY <1>1, <1>2, <1>3, <1>5, <1>6 DEF WorkerStep

\* A worker adds a file only with a rename, and then answers for it until it is recorded.
LEMMA WorkerFiles ==
  ASSUME TypeInv, SerialInv, FileInv, NEW w \in Workers, WorkerStep(w) \/ LoseWrite(w)
  PROVE  FileInv'
<1>1. PathsRest'
  BY WorkerRows DEF FileInv, PathsRest
<1>2. FirstStart'
  <2>1. phase \in {"up", "stopping"} /\ UNCHANGED <<phase, starts>>
    BY DEF WorkerStep, Claim, MarkFound, BeginWrite, FinishWrite, MarkDownloaded, RecordDownload,
           NothingFound, PermanentError, TransientError, RetryOrFail, CloseAttempt, Abandon, LoseWrite
  <2> QED BY <2>1 DEF FileInv, FirstStart
<1>3. CASE FinishWrite(w)
  <2>1. /\ \A v \in Workers : v # w => worker'[v] = worker[v]
        /\ worker[w].pc = "writing" /\ worker'[w].pc = "saved"
        /\ worker'[w].id = worker[w].id /\ worker'[w].release = worker[w].release
        /\ files' = files \cup {FinalPath(worker[w].id, worker[w].release)}
        /\ UNCHANGED <<row, phase, starts, faults>>
    BY <1>3 DEF FinishWrite, TypeInv, TypeOK
  <2>2. EveryFileRecorded'
    BY <2>1 DEF FileInv, EveryFileRecorded
  <2> QED BY <1>1, <1>2, <2>2 DEF FileInv
<1>4. CASE MarkDownloaded(w)
  <2> DEFINE i == worker[w].id
  <2>1. /\ \A v \in Workers : v # w => worker'[v] = worker[v] /\ worker[w].pc = "saved"
        /\ UNCHANGED <<files, phase, starts, faults>> /\ i \in Ids
        /\ worker[w].pc = "saved" /\ phase = "up"
    BY <1>4 DEF MarkDownloaded, RecordDownload, TypeInv, TypeOK, HandsFull
  <2>2. \/ row[i].status = "DELETED"
        \/ row'[i].file = worker[w].release /\ worker[w].release # NoRelease /\ row[i].status = "FOUND"
    <3>1. worker[w].release \in Releases
      BY <2>1 DEF TypeInv, HandsFull
    <3>2. row[i].status = "DELETED" \/ row[i].status = "FOUND"
      BY <2>1 DEF SerialInv, Snapshots
    <3>3. row[i].status = "FOUND" => row'[i].file = worker[w].release
      BY <1>4, <2>1 DEF MarkDownloaded, RecordDownload, Exists, TypeInv, TypeOK
    <3> QED BY <3>1, <3>2, <3>3, ReleasesAssumption
  <2>3. \A j \in Ids \ {i} : row'[j] = row[j]
    BY <1>4 DEF MarkDownloaded, RecordDownload, TypeInv, TypeOK
  <2>4. row[i].status = "DELETED" => row'[i] = row[i]
    BY <1>4 DEF MarkDownloaded, RecordDownload, Exists
  <2>5. row[i].status = "FOUND" => row[i].file = NoRelease
    BY <2>1 DEF FileInv, PathsRest
  <2>6. \A v \in Workers : v # w /\ worker[v].pc = "saved" => worker[v].id # i
    BY <2>1 DEF SerialInv, Alone
  <2>7. ASSUME phase = "up" /\ starts = 1 /\ faults = 0, NEW f \in files
        PROVE  \/ row'[f[1]].status = "DELETED"
               \/ row'[f[1]].file # NoRelease /\ f = FinalPath(f[1], row'[f[1]].file)
               \/ \E v \in Workers : /\ worker'[v].pc = "saved"
                                     /\ f = FinalPath(worker'[v].id, worker'[v].release)
    <3>0. f[1] \in Ids
      BY DEF TypeInv, TypeOK
    <3>1. \/ row[f[1]].status = "DELETED"
          \/ row[f[1]].file # NoRelease /\ f = FinalPath(f[1], row[f[1]].file)
          \/ \E v \in Workers : /\ worker[v].pc = "saved"
                                /\ f = FinalPath(worker[v].id, worker[v].release)
      BY <2>7 DEF FileInv, EveryFileRecorded
    <3>2. CASE f[1] # i
      BY <2>1, <2>3, <3>0, <3>1, <3>2
    <3>3. CASE f[1] = i
      BY <2>1, <2>2, <2>4, <2>5, <2>6, <3>1, <3>3
    <3> QED BY <3>2, <3>3
  <2>8. EveryFileRecorded'
    BY <2>1, <2>7 DEF EveryFileRecorded
  <2> QED BY <1>1, <1>2, <2>8 DEF FileInv
<1>5. CASE ~FinishWrite(w) /\ ~MarkDownloaded(w)
  <2>1. files' = files /\ UNCHANGED <<phase, starts>>
    BY <1>5 DEF WorkerStep, Claim, MarkFound, BeginWrite, NothingFound, PermanentError,
                TransientError, RetryOrFail, CloseAttempt, Abandon, LoseWrite
  <2>2. LoseWrite(w) \/ faults' = faults
    BY <1>5 DEF WorkerStep, Claim, MarkFound, BeginWrite, NothingFound, PermanentError,
                TransientError, RetryOrFail, CloseAttempt, Abandon
  <2>3. CASE LoseWrite(w)
    <3>1. faults' # 0
      BY <2>3 DEF LoseWrite, TypeInv, TypeOK
    <3> QED BY <1>1, <1>2, <3>1 DEF FileInv, EveryFileRecorded
  <2>4. CASE ~LoseWrite(w)
    <3>1. phase' = "up" => \A v \in Workers : worker[v].pc = "saved" => worker'[v] = worker[v]
      BY <1>5, <2>4 DEF WorkerStep, Claim, MarkFound, BeginWrite, NothingFound, PermanentError,
                TransientError, RetryOrFail, CloseAttempt, Abandon, TypeInv, TypeOK
    <3>2. \A j \in Ids : \/ row'[j].status = "DELETED"
                         \/ row[j].status # "DELETED" /\ row'[j].file = row[j].file
      BY <1>5, WorkerRows
    <3> QED BY <1>1, <1>2, <2>1, <2>2, <2>4, <3>1, <3>2, FilesKept DEF FileInv
  <2> QED BY <2>3, <2>4
<1> QED BY <1>3, <1>4, <1>5

\* What every other step does to a row.
LEMMA OtherRows ==
  ASSUME TypeInv, SerialInv, PathsRest,
         \/ Submit \/ (\E h \in Handlers : HandlerStep(h)) \/ (\E i \in Ids : BackoffElapses(i))
         \/ (\E f \in files : Consume(f)) \/ ProcessStep \/ UNCHANGED vars,
         NEW j \in Ids
  PROVE  \/ row'[j].status = "DELETED" /\ row'[j].file = NoRelease
         \/ /\ row'[j].file = row[j].file
            /\ \/ row'[j].status = row[j].status
               \/ row[j].status \notin {"DELETED", "DOWNLOADED"}
<1>1. CASE Submit
  <2>1. \/ row'[j] = row[j]
        \/ row[j].status = "ABSENT" /\ row'[j].file = NoRelease
    BY <1>1 DEF Submit, CreateBatch, NewRow
  <2> QED BY <2>1 DEF PathsRest
<1>2. ASSUME NEW h \in Handlers, RetryWrite(h)
      PROVE  /\ row'[j].file = row[j].file
             /\ row'[j].status = row[j].status \/ row[j].status \notin {"DELETED", "DOWNLOADED"}
  <2> DEFINE i == handler[h].id
  <2>1. i \in Ids /\ row[i].status \in Retryable
    BY <1>2 DEF RetryWrite, TypeInv, HandsFull, SerialInv, Readers
  <2>2. row'[j].file = row[j].file /\ (j # i => row'[j] = row[j])
    BY <1>2 DEF RetryWrite, TypeInv, TypeOK
  <2> QED BY <2>1, <2>2
<1>3. ASSUME NEW h \in Handlers, DeleteRow(h) PROVE row'[j] = row[j] \/ row'[j] = NoRow("DELETED")
  BY <1>3 DEF DeleteRow, TypeInv, TypeOK
<1>4. ASSUME NEW h \in Handlers, HandlerStep(h), ~RetryWrite(h), ~DeleteRow(h)
      PROVE  row'[j] = row[j]
  BY <1>4 DEF HandlerStep, RetryGet, RetryCheck, RetryVerdict, CancelGet, CancelWrite, DeleteGet,
              BeginDelete, RemoveFile, SerialInv, Readers
<1>5. CASE \E i \in Ids : BackoffElapses(i)
  BY <1>5 DEF BackoffElapses, WakeUp, TypeInv, TypeOK
<1>6. CASE RequeueInFlight
  BY <1>6, RequeueEffect
<1>7. CASE \/ UNCHANGED vars \/ \E f \in files : Consume(f)
           \/ CleanTempFiles \/ Shutdown \/ Exit \/ Crash
  BY <1>7 DEF vars, Consume, CleanTempFiles, FinishRecovery, Shutdown, Exit, Crash
<1>8. CASE \E h \in Handlers : HandlerStep(h)
  BY <1>2, <1>3, <1>4, <1>8
<1> QED BY <1>1, <1>5, <1>6, <1>7, <1>8 DEF ProcessStep

\* No other step adds a file, and only a first start begins with nothing recorded.
LEMMA OtherFiles ==
  ASSUME TypeInv, SerialInv, FileInv,
         \/ Submit \/ (\E h \in Handlers : HandlerStep(h)) \/ (\E i \in Ids : BackoffElapses(i))
         \/ (\E f \in files : Consume(f)) \/ ProcessStep \/ UNCHANGED vars
  PROVE  FileInv'
<1>1. \A j \in Ids : \/ row'[j].status = "DELETED" /\ row'[j].file = NoRelease
                     \/ /\ row'[j].file = row[j].file
                        /\ \/ row'[j].status = row[j].status
                           \/ row[j].status \notin {"DELETED", "DOWNLOADED"}
  BY OtherRows DEF FileInv
<1>2. PathsRest'
  BY <1>1 DEF FileInv, PathsRest
<1>3. CASE Submit \/ (\E h \in Handlers : HandlerStep(h)) \/ (\E i \in Ids : BackoffElapses(i))
           \/ (\E f \in files : Consume(f)) \/ UNCHANGED vars
  <2>a. /\ files' \subseteq files /\ UNCHANGED <<worker, phase, starts>>
        /\ faults' = faults \/ faults' = faults + 1
    <3>1. CASE Submit \/ UNCHANGED vars
      BY <3>1 DEF Submit, CreateBatch, vars
    <3>2. CASE \E i \in Ids : BackoffElapses(i)
      BY <3>2 DEF BackoffElapses, WakeUp
    <3>3. CASE \E f \in files : Consume(f)
      BY <3>3 DEF Consume
    <3>4. ASSUME NEW h \in Handlers, HandlerStep(h)
          PROVE  /\ files' \subseteq files /\ UNCHANGED <<worker, phase, starts>>
                 /\ faults' = faults \/ faults' = faults + 1
      <4>1. CASE RetryCheck(h) \/ RetryWrite(h) \/ CancelWrite(h) \/ DeleteRow(h) \/ RemoveFile(h)
        BY <4>1 DEF RetryCheck, RetryVerdict, RetryWrite, CancelWrite, DeleteRow, RemoveFile
      <4>2. ASSUME NEW i \in Ids,
                   \/ \E edit \in Queries \cup {NoQuery}, force \in ForceChoices :
                        RetryGet(h, i, edit, force)
                   \/ CancelGet(h, i) \/ DeleteGet(h, i)
            PROVE  UNCHANGED <<files, worker, phase, starts, faults>>
        BY <4>2 DEF RetryGet, CancelGet, DeleteGet, BeginDelete
      <4> QED BY <3>4, <4>1, <4>2 DEF HandlerStep
    <3> QED BY <1>3, <3>1, <3>2, <3>3, <3>4
  <2>1. files' \subseteq files /\ UNCHANGED <<worker, phase, starts>>
    BY <2>a
  <2>0. faults' = 0 => faults = 0
    <3>1. faults' = faults \/ faults' = faults + 1
      BY <2>a
    <3>2. faults \in Nat
      BY DEF TypeInv, TypeOK
    <3> QED BY ONLY <3>1, <3>2
  <2>2. FirstStart'
    BY <2>1 DEF FileInv, FirstStart
  <2>3. \A j \in Ids : \/ row'[j].status = "DELETED"
                       \/ row[j].status # "DELETED" /\ row'[j].file = row[j].file
    BY <1>1
  <2> QED BY <1>2, <2>0, <2>1, <2>2, <2>3, FilesKept DEF FileInv
<1>4. CASE RequeueInFlight
  <2>1. phase = "down" /\ phase' = "recovering" /\ starts' = starts + 1 /\ files' = files
    BY <1>4 DEF RequeueInFlight, Requeue
  <2>2. starts \in Nat
    BY DEF TypeInv, TypeOK
  <2> QED BY <1>2, <2>1, <2>2 DEF FileInv, FirstStart, EveryFileRecorded
<1>5. CASE CleanTempFiles
  <2>1. phase = "recovering" /\ phase' = "up" /\ UNCHANGED <<files, starts, faults>>
    BY <1>5 DEF CleanTempFiles, FinishRecovery
  <2> QED BY <1>2, <2>1 DEF FileInv, FirstStart, EveryFileRecorded
<1>6. CASE Shutdown \/ Exit \/ Crash
  <2>1. phase # "down" /\ phase' \in {"stopping", "down"} /\ UNCHANGED <<files, starts>>
    BY <1>6 DEF Shutdown, Exit, Crash
  <2> QED BY <1>2, <2>1 DEF FileInv, FirstStart, EveryFileRecorded
<1> QED BY <1>3, <1>4, <1>5, <1>6 DEF ProcessStep

\* Until a restart, a lost write or a removal, every file in the directory is recorded
\* by its row, or is about to be by the worker that saved it.
THEOREM FilesAreRecorded ==
  ASSUME Serial PROVE Spec => []EveryFileRecorded
<1>1. Init => FileInv
  BY FileInit
<1>2. TypeInv /\ SerialInv /\ FileInv /\ [Next]_vars => FileInv'
  BY WorkerFiles, OtherFiles DEF Next
<1>3. FileInv => EveryFileRecorded
  BY DEF FileInv
<1> QED BY <1>1, <1>2, <1>3, SerialCorrect, PTL DEF Spec
=============================================================================
