------------------------------ MODULE JobQueue ------------------------------
(***************************************************************************)
(* The request queue and everything that touches it: the `requests` table  *)
(* (internal/storage), the worker pool (internal/worker), the operator's   *)
(* handlers (internal/web), the .torrent directory, and the process itself,*)
(* which may be stopped or killed at any point and started again.          *)
(*                                                                         *)
(* Store.Open allows one database connection, so one SQL statement, or one *)
(* transaction, is one atomic step.  Between two statements anybody else   *)
(* may run: a worker keeps the row it claimed as a snapshot, and Retry,    *)
(* Cancel and Delete act on a row they read in an earlier statement.       *)
(***************************************************************************)
EXTENDS Naturals, FiniteSets

CONSTANTS
  Ids,              \* the request ids (ULIDs, never reused) that may be created
  Workers,          \* the goroutines of the pool (WORKERS)
  Handlers,         \* the HTTP requests the server may be serving at once
  Queries,          \* normalized queries
  Releases,         \* what a tracker can offer
  Answers,          \* Answers[q]: the releases a search for q may rank first
  NoQuery,          \* "" as a query
  NoRelease,        \* "" as a file path
  NoId,             \* an idle worker or handler has no request
  TempNames,        \* bound: the names os.CreateTemp may pick, .torrent-*.tmp
  NoTemp,           \* a worker that is not writing has no temporary file
  MaxAttempts,      \* RETRY_MAX_ATTEMPTS
  CheckDuplicates,  \* DUPLICATE_CHECK_ENABLED
  Operations,       \* what the outside world may do: OperationNames or fewer
  ForceChoices,     \* bound: what the Force checkbox may say, BOOLEAN or {FALSE}
  MaxStarts,        \* bound: how many times the process is started
  MaxFaults,        \* bound: how many database writes of workers are lost, and
                    \* how many .torrent files a handler fails to remove
  MaxRefused        \* bound: how many temporary files may refuse to be removed

OperationNames == {"create", "retry", "cancel", "delete", "consume"}

ASSUME QueriesAssumption == NoQuery \notin Queries
ASSUME ReleasesAssumption == NoRelease \notin Releases
ASSUME IdsAssumption == NoId \notin Ids
ASSUME TempsAssumption == NoTemp \notin TempNames
ASSUME AnswersAssumption == Answers \in [Queries -> SUBSET Releases]
ASSUME MaxAttemptsAssumption == MaxAttempts \in Nat \ {0}
ASSUME CheckAssumption == CheckDuplicates \in BOOLEAN
ASSUME ForceAssumption == ForceChoices \subseteq BOOLEAN
ASSUME BoundsAssumption == MaxStarts \in Nat \ {0} /\ MaxFaults \in Nat /\ MaxRefused \in Nat

VARIABLES
  row,       \* the requests table: one record per id, see Row
  worker,    \* what each worker goroutine holds in its local variables
  handler,   \* what each running HTTP handler holds in its local variables
  files,     \* the .torrent files in TORRENT_FILES_DIR, as <<id, release>>
  consumed,  \* history: the files a download client has taken
  temps,     \* the temporary files on disk
  refused,   \* history: those the file system has refused to remove
  phase,     \* the process: "down", "recovering", "up", "stopping"
  starts,    \* history: how many times the process was started
  faults,    \* history: how many writes were lost and removals failed
  stranded   \* history: the requests whose worker lost a write in this run

vars == <<row, worker, handler, files, consumed, temps, refused, phase, starts, faults, stranded>>

-----------------------------------------------------------------------------
(* The statuses of internal/storage/model.go. NEW is declared there and    *)
(* nothing ever writes it.  ABSENT and DELETED stand for "no such row".    *)

InFlight    == {"SEARCHING", "FOUND"}
Terminal    == {"DOWNLOADED", "NOT_FOUND", "FAILED", "DUPLICATE", "CANCELLED"}
Cancellable == {"NEW", "QUEUED"}
Status      == {"NEW", "QUEUED"} \cup InFlight \cup Terminal

RetryDownloaded == Terminal   \* mutant: DOWNLOADED can be retried as well
RetryAnything   == Status   \* mutant: work in flight can be retried as well
Retryable   == {"FAILED", "NOT_FOUND", "CANCELLED", "DUPLICATE"}

Row == [status   : Status \cup {"ABSENT", "DELETED"},
        query    : Queries \cup {NoQuery},     \* normalized_query
        force    : BOOLEAN,
        attempts : Nat,                        \* attempt_count
        waiting  : BOOLEAN,                    \* next_attempt_at is in the future
        file     : Releases \cup {NoRelease},  \* file_path, up to FinalPath
        created  : Nat]                        \* created_at, which only orders rows

FreshRow(status, query, force, created) ==
  [status |-> status, query |-> query, force |-> force, attempts |-> 0,
   waiting |-> FALSE, file |-> NoRelease, created |-> created]

NoRow(status) == FreshRow(status, NoQuery, FALSE, 0)

Exists(i) == row[i].status \in Status

(* A worker: idle; searching the trackers; downloading the release it      *)
(* recorded; writing the temporary file; or with the file renamed in place.*)
WorkerState == [pc       : {"idle", "searching", "downloading", "writing", "saved"},
                id       : Ids \cup {NoId},
                query    : Queries \cup {NoQuery},
                attempts : Nat,
                release  : Releases \cup {NoRelease},
                temp     : TempNames \cup {NoTemp}]

IdleWorker == [pc |-> "idle", id |-> NoId, query |-> NoQuery, attempts |-> 0,
               release |-> NoRelease, temp |-> NoTemp]

(* A handler, between two statements of Store.Retry, Cancel or Delete.     *)
HandlerState == [pc     : {"idle", "retry_check", "retry_write", "cancel_write",
                           "delete_row", "remove_file"},
                 id     : Ids \cup {NoId},
                 query  : Queries \cup {NoQuery},
                 force  : BOOLEAN,
                 status : {"QUEUED", "DUPLICATE"},
                 file   : Releases \cup {NoRelease}]

Holding(pc, id, query, force, file) ==
  [pc |-> pc, id |-> id, query |-> query, force |-> force, status |-> "QUEUED", file |-> file]

IdleHandler == Holding("idle", NoId, NoQuery, FALSE, NoRelease)

Init == /\ row = [i \in Ids |-> NoRow("ABSENT")]
        /\ worker = [w \in Workers |-> IdleWorker]
        /\ handler = [h \in Handlers |-> IdleHandler]
        /\ files = {} /\ consumed = {} /\ temps = {} /\ refused = {}
        /\ phase = "down" /\ starts = 0 /\ faults = 0 /\ stranded = {}

\* The file name holds the request id, so it is unique to the request.
FinalPath(i, r) == <<i, r>>

\* duplicateOf: a DOWNLOADED request other than the excluded one has this query.
HasDuplicate(q, exclude) ==
  \E i \in Ids \ {exclude} : row[i].status = "DOWNLOADED" /\ row[i].query = q

Serving == phase \in {"up", "stopping"}
Active(w) == worker[w].pc # "idle"

-----------------------------------------------------------------------------
(* Submissions: Store.CreateBatch, and Store.CreateTraktRequests, whose    *)
(* rows are made the same way.  One transaction, one created_at, which is  *)
(* no older than any other: the clock counts whole seconds.                *)

NewRow(q, force, now) ==
  FreshRow(IF CheckDuplicates /\ ~force /\ HasDuplicate(q, NoId) THEN "DUPLICATE" ELSE "QUEUED",
           q, force, now)

Newest(now) == /\ \A i \in Ids : row[i].created <= now
               /\ \/ now = 0
                  \/ \E i \in Ids : row[i].created + 1 >= now

CreateBatch(S, query, force, now) ==
  /\ "create" \in Operations
  /\ Serving
  /\ S # {} /\ \A i \in S : row[i].status = "ABSENT"
  /\ Newest(now)
  /\ row' = [i \in Ids |-> IF i \in S THEN NewRow(query[i], force, now) ELSE row[i]]
  /\ UNCHANGED <<worker, handler, files, consumed, temps, refused, phase, starts, faults, stranded>>

-----------------------------------------------------------------------------
(* The worker pool: Pool.run and Pool.process.                             *)

DueOrFailed(i) == row[i].status \in {"QUEUED", "FAILED"} /\ ~row[i].waiting  \* mutant
Due(i) == row[i].status = "QUEUED" /\ ~row[i].waiting

\* ClaimNext: the oldest due request; rows of the same second come in any order.
Claim(w, i) ==
  /\ phase = "up"
  /\ worker[w].pc = "idle"
  /\ Due(i)
  /\ \A j \in Ids : Due(j) => row[i].created <= row[j].created
  /\ row' = [row EXCEPT ![i].status = "SEARCHING", ![i].attempts = @ + 1]
  /\ worker' = [worker EXCEPT ![w] = [pc |-> "searching", id |-> i, query |-> row[i].query,
                                      attempts |-> row[i].attempts + 1,
                                      release |-> NoRelease, temp |-> NoTemp]]
  /\ UNCHANGED <<handler, files, consumed, temps, refused, phase, starts, faults, stranded>>

\* MarkFound, with the best candidate of the merged search results. A row
\* that is gone answers ErrNotFound and the worker drops the request.
MarkFound(w, r) ==
  LET i == worker[w].id IN
  /\ phase = "up"
  /\ worker[w].pc = "searching"
  /\ r \in Answers[worker[w].query]
  /\ IF Exists(i)
       THEN /\ row' = [row EXCEPT ![i].status = "FOUND"]
            /\ worker' = [worker EXCEPT ![w].pc = "downloading", ![w].release = r]
       ELSE /\ worker' = [worker EXCEPT ![w] = IdleWorker]
            /\ UNCHANGED row
  /\ UNCHANGED <<handler, files, consumed, temps, refused, phase, starts, faults, stranded>>

\* os.Remove of temporary files, whose error nobody looks at: the file system may
\* refuse any that is there, and those stay on disk.
Unlink(old) ==
  \E stay \in SUBSET (old \cap temps) :
    /\ temps' = temps \ (old \ stay)
    /\ refused' = (refused \ old) \cup stay
    /\ Cardinality(refused') <= MaxRefused

Temp(w) == {worker[w].temp} \ {NoTemp}

\* Client.Download, the body read and verified: os.CreateTemp, under a name that is
\* not taken.
BeginWrite(w) ==
  /\ Serving
  /\ worker[w].pc = "downloading"
  /\ \E t \in TempNames \ temps :
        /\ worker' = [worker EXCEPT ![w].pc = "writing", ![w].temp = t]
        /\ temps' = temps \cup {t}
  /\ UNCHANGED <<row, handler, files, consumed, refused, phase, starts, faults, stranded>>

\* Client.Download: os.Rename over whatever carries the same name.
FinishWrite(w) ==
  /\ Serving
  /\ worker[w].pc = "writing"
  /\ worker' = [worker EXCEPT ![w].pc = "saved", ![w].temp = NoTemp]
  /\ temps' = temps \ Temp(w)
  /\ files' = files \cup {FinalPath(worker[w].id, worker[w].release)}
  /\ UNCHANGED <<row, handler, consumed, refused, phase, starts, faults, stranded>>

RecordDownload(w, step) ==
  LET i == worker[w].id IN
  /\ phase = "up"
  /\ worker[w].pc = step
  /\ row' = IF Exists(i)
              THEN [row EXCEPT ![i].status = "DOWNLOADED", ![i].file = worker[w].release,
                               ![i].waiting = FALSE]
              ELSE row
  /\ worker' = [worker EXCEPT ![w] = IdleWorker]
  /\ UNCHANGED <<handler, files, consumed, temps, refused, phase, starts, faults, stranded>>

MarkBeforeRename(w) == RecordDownload(w, "writing") \/ RecordDownload(w, "saved") \* mutant
MarkDownloaded(w) == RecordDownload(w, "saved")

\* The three ways handleError closes an attempt; each is one UPDATE, and the
\* deferred os.Remove takes the temporary file away before it.
CloseAttempt(w, status, waiting) ==
  LET i == worker[w].id IN
  /\ phase = "up"
  /\ row' = IF Exists(i)
              THEN [row EXCEPT ![i].status = status, ![i].waiting = waiting]
              ELSE row
  /\ worker' = [worker EXCEPT ![w] = IdleWorker]
  /\ Unlink(Temp(w))
  /\ UNCHANGED <<handler, files, consumed, phase, starts, faults, stranded>>

\* Every tracker answered and none has the movie: MarkNotFound.
NothingFound(w) == /\ worker[w].pc = "searching"
                   /\ CloseAttempt(w, "NOT_FOUND", FALSE)

\* An error that repeating cannot cure, in the search, the download or the
\* write of the temporary file: MarkFailed.
PermanentError(w) == /\ worker[w].pc \in {"searching", "downloading", "writing"}
                     /\ CloseAttempt(w, "FAILED", FALSE)

\* An error worth repeating, a timeout of the attempt included: MarkFailed once
\* the attempts are used up, else ScheduleRetry.
RetryOrFail(w, limit) == /\ worker[w].pc \in {"searching", "downloading"}
                         /\ IF worker[w].attempts >= limit
                              THEN CloseAttempt(w, "FAILED", FALSE)
                              ELSE CloseAttempt(w, "QUEUED", TRUE)

OneTryTooMany(w)  == RetryOrFail(w, MaxAttempts + 1)  \* mutant
TransientError(w) == RetryOrFail(w, MaxAttempts)

WakeUp(i) ==
  /\ row[i].waiting
  /\ row' = [row EXCEPT ![i].waiting = FALSE]
  /\ UNCHANGED <<worker, handler, files, consumed, temps, refused, phase, starts, faults, stranded>>

\* next_attempt_at is reached. The schedule is in the row: a restart keeps it.
SleepInMemory(i)  == starts = 1 /\ WakeUp(i)  \* mutant: a restart loses the backoff
BackoffElapses(i) == WakeUp(i)

\* The database refuses the write that process or handleError is about to do:
\* the error is logged, the worker goes on, and the row keeps its status.
LoseWrite(w) ==
  /\ phase = "up"
  /\ Active(w)
  /\ faults < MaxFaults
  /\ faults' = faults + 1
  /\ stranded' = stranded \cup {worker[w].id}
  /\ worker' = [worker EXCEPT ![w] = IdleWorker]
  /\ Unlink(Temp(w))
  /\ UNCHANGED <<row, handler, files, consumed, phase, starts>>

-----------------------------------------------------------------------------
(* The operator: Store.Retry (plain, edited, forced, single or one row of a*)
(* batch), Store.Cancel and Store.Delete. A rejected call changes nothing. *)

RetryGet(h, i, edit, force) ==
  LET q == IF edit = NoQuery THEN row[i].query ELSE edit
      f == row[i].force \/ force
  IN
  /\ "retry" \in Operations
  /\ Serving
  /\ handler[h].pc = "idle"
  /\ row[i].status \in Retryable
  /\ handler' = [handler EXCEPT ![h] =
                   Holding(IF CheckDuplicates /\ ~f THEN "retry_check" ELSE "retry_write",
                           i, q, f, NoRelease)]
  /\ UNCHANGED <<row, worker, files, consumed, temps, refused, phase, starts, faults, stranded>>

RetryVerdict(h, verdict) ==
  /\ Serving
  /\ handler[h].pc = "retry_check"
  /\ handler' = [handler EXCEPT ![h].pc = "retry_write", ![h].status = verdict]
  /\ UNCHANGED <<row, worker, files, consumed, temps, refused, phase, starts, faults, stranded>>

KeepStatus(h) == RetryVerdict(h, row[handler[h].id].status)  \* mutant
RetryCheck(h) == RetryVerdict(h, IF HasDuplicate(handler[h].query, handler[h].id)
                                   THEN "DUPLICATE" ELSE "QUEUED")

RetryWrite(h) ==
  LET i == handler[h].id IN
  /\ Serving
  /\ handler[h].pc = "retry_write"
  /\ row' = IF Exists(i)
              THEN [row EXCEPT ![i].status = handler[h].status, ![i].query = handler[h].query,
                               ![i].force = handler[h].force, ![i].attempts = 0,
                               ![i].waiting = FALSE]
              ELSE row
  /\ handler' = [handler EXCEPT ![h] = IdleHandler]
  /\ UNCHANGED <<worker, files, consumed, temps, refused, phase, starts, faults, stranded>>

CancelGet(h, i) ==
  /\ "cancel" \in Operations
  /\ Serving
  /\ handler[h].pc = "idle"
  /\ row[i].status \in Cancellable
  /\ handler' = [handler EXCEPT ![h] = Holding("cancel_write", i, NoQuery, FALSE, NoRelease)]
  /\ UNCHANGED <<row, worker, files, consumed, temps, refused, phase, starts, faults, stranded>>

CancelWrite(h) ==
  LET i == handler[h].id IN
  /\ Serving
  /\ handler[h].pc = "cancel_write"
  /\ row' = IF Exists(i)
              THEN [row EXCEPT ![i].status = "CANCELLED", ![i].waiting = FALSE]
              ELSE row
  /\ handler' = [handler EXCEPT ![h] = IdleHandler]
  /\ UNCHANGED <<worker, files, consumed, temps, refused, phase, starts, faults, stranded>>

BeginDelete(h, i, pc) ==
  /\ "delete" \in Operations
  /\ Serving
  /\ handler[h].pc = "idle"
  /\ Exists(i)
  /\ handler' = [handler EXCEPT ![h] = Holding(pc, i, NoQuery, FALSE, row[i].file)]
  /\ UNCHANGED <<row, worker, files, consumed, temps, refused, phase, starts, faults, stranded>>

DeleteFileOnly(h, i) == BeginDelete(h, i, "remove_file")  \* mutant: the row stays
DeleteGet(h, i) == BeginDelete(h, i, "delete_row")

DeleteRow(h) ==
  LET i == handler[h].id IN
  /\ Serving
  /\ handler[h].pc = "delete_row"
  /\ IF Exists(i)
       THEN /\ row' = [row EXCEPT ![i] = NoRow("DELETED")]
            /\ handler' = [handler EXCEPT ![h].pc = "remove_file"]
       ELSE /\ handler' = [handler EXCEPT ![h] = IdleHandler]
            /\ UNCHANGED row
  /\ UNCHANGED <<worker, files, consumed, temps, refused, phase, starts, faults, stranded>>

\* removeTorrentFile, on the path that Delete read; a file that is gone is fine, and
\* one that cannot be removed stays: the operator is told, the row is gone all the same.
RemoveFile(h) ==
  LET f == FinalPath(handler[h].id, handler[h].file) IN
  /\ Serving
  /\ handler[h].pc = "remove_file"
  /\ \/ files' = files \ {f} /\ UNCHANGED faults
     \/ f \in files /\ faults < MaxFaults /\ faults' = faults + 1 /\ UNCHANGED files
  /\ handler' = [handler EXCEPT ![h] = IdleHandler]
  /\ UNCHANGED <<row, worker, consumed, temps, refused, phase, starts, stranded>>

\* The download client of the NAS takes a .torrent out of the directory.
Consume(f) ==
  /\ "consume" \in Operations
  /\ f \in files
  /\ files' = files \ {f}
  /\ consumed' = consumed \cup {f}
  /\ UNCHANGED <<row, worker, handler, temps, refused, phase, starts, faults, stranded>>

-----------------------------------------------------------------------------
(* The process: main.run, Pool.Recover, shutdown by signal, and a kill.    *)

\* Store.RequeueInFlight, before any worker runs.
Requeue(statuses) ==
  /\ phase = "down"
  /\ starts < MaxStarts
  /\ row' = [i \in Ids |-> IF row[i].status \in statuses
                             THEN [row[i] EXCEPT !.status = "QUEUED", !.waiting = FALSE]
                             ELSE row[i]]
  /\ phase' = "recovering"
  /\ starts' = starts + 1
  /\ stranded' = {}
  /\ UNCHANGED <<worker, handler, files, consumed, temps, refused, faults>>

ForgetFound     == Requeue({"SEARCHING"})              \* mutant
RequeueFailed   == Requeue(InFlight \cup {"FAILED"})   \* mutant
RequeueInFlight == Requeue(InFlight)

\* The pool starts whatever became of the cleanup, whose failure is only logged.
FinishRecovery(old) ==
  /\ phase = "recovering"
  /\ Unlink(old)
  /\ phase' = "up"
  /\ UNCHANGED <<row, worker, handler, files, consumed, starts, faults, stranded>>

KeepTempFiles  == FinishRecovery({})  \* mutant
CleanTempFiles == FinishRecovery(temps)

\* SIGTERM cancels the context: no claim and no write of a worker succeeds any more.
Shutdown ==
  /\ phase = "up"
  /\ starts < MaxStarts
  /\ phase' = "stopping"
  /\ UNCHANGED <<row, worker, handler, files, consumed, temps, refused, starts, faults, stranded>>

\* handleError under a cancelled context, or a write refused because of it.
Abandon(w) ==
  /\ phase = "stopping"
  /\ Active(w)
  /\ worker' = [worker EXCEPT ![w] = IdleWorker]
  /\ Unlink(Temp(w))
  /\ UNCHANGED <<row, handler, files, consumed, phase, starts, faults, stranded>>

\* main.run returns once the workers are done; Shutdown gave handlers ten seconds.
Exit ==
  /\ phase = "stopping"
  /\ \A w \in Workers : ~Active(w)
  /\ phase' = "down"
  /\ handler' = [h \in Handlers |-> IdleHandler]
  /\ UNCHANGED <<row, worker, files, consumed, temps, refused, starts, faults, stranded>>

\* The process dies. What is on disk stays, a recovery that was cut short too.
Crash ==
  /\ phase # "down"
  /\ starts < MaxStarts
  /\ phase' = "down"
  /\ worker' = [w \in Workers |-> IdleWorker]
  /\ handler' = [h \in Handlers |-> IdleHandler]
  /\ UNCHANGED <<row, files, consumed, temps, refused, starts, faults, stranded>>

-----------------------------------------------------------------------------
WorkerStep(w) == \/ \E i \in Ids : Claim(w, i)
                 \/ \E r \in Releases : MarkFound(w, r)
                 \/ BeginWrite(w) \/ FinishWrite(w) \/ MarkDownloaded(w)
                 \/ NothingFound(w) \/ PermanentError(w) \/ TransientError(w)
                 \/ Abandon(w)

HandlerStep(h) ==
  \/ \E i \in Ids : \/ \E edit \in Queries \cup {NoQuery}, force \in ForceChoices :
                         RetryGet(h, i, edit, force)
                    \/ CancelGet(h, i)
                    \/ DeleteGet(h, i)
  \/ RetryCheck(h) \/ RetryWrite(h) \/ CancelWrite(h) \/ DeleteRow(h) \/ RemoveFile(h)

ProcessStep == RequeueInFlight \/ CleanTempFiles \/ Shutdown \/ Exit \/ Crash

\* created_at is bounded by the number of rows: see Newest.
Submit == \E S \in SUBSET Ids, force \in ForceChoices, now \in 0 .. Cardinality(Ids) :
            \E query \in [S -> Queries] : CreateBatch(S, query, force, now)

Next == \/ Submit
        \/ \E w \in Workers : WorkerStep(w) \/ LoseWrite(w)
        \/ \E h \in Handlers : HandlerStep(h)
        \/ \E i \in Ids : BackoffElapses(i)
        \/ \E f \in files : Consume(f)
        \/ ProcessStep

Spec == Init /\ [][Next]_vars

(* Goroutines run, an attempt is bounded by its timeout, an idle worker    *)
(* polls every idlePoll, backoffs elapse, and Docker restarts the process. *)
(* Nobody has to act as operator, to stop the process or to lose a write.  *)
Fairness == /\ \A w \in Workers : WF_vars(WorkerStep(w))
            /\ \A i \in Ids : WF_vars(BackoffElapses(i))
            /\ WF_vars(RequeueInFlight) /\ WF_vars(CleanTempFiles) /\ WF_vars(Exit)

FairSpec == Spec /\ Fairness

-----------------------------------------------------------------------------
(* Properties that no interleaving, crash or lost write may break.         *)

\* Every variable has its type, and idle goroutines hold nothing.
TypeOK ==
  /\ row \in [Ids -> Row]
  /\ worker \in [Workers -> WorkerState]
  /\ handler \in [Handlers -> HandlerState]
  /\ files \subseteq Ids \X Releases
  /\ consumed \subseteq Ids \X Releases
  /\ temps \subseteq TempNames /\ refused \subseteq temps
  /\ phase \in {"down", "recovering", "up", "stopping"}
  /\ starts \in Nat /\ faults \in Nat
  /\ stranded \subseteq Ids

\* SEARCHING and FOUND are steps, not resting states (model.go): while the
\* process serves, a row in one of them is in the hands of a worker that will
\* move it on, whatever the operator, the clock and the restarts before did.
\* Only a write that the database refused may leave a row behind.
InFlightHasWorker ==
  phase = "up" =>
    \A i \in Ids : row[i].status \in InFlight =>
      i \in stranded \/ \E w \in Workers : Active(w) /\ worker[w].id = i

\* DOWNLOADED means the .torrent was saved (model.go), and a recorded path names
\* a file that only a download client has taken: no Remove of another request,
\* no late answer and no restart takes the file away from its row.
DownloadedIsOnDisk ==
  \A i \in Ids :
    /\ row[i].status = "DOWNLOADED" => row[i].file # NoRelease
    /\ row[i].file # NoRelease => FinalPath(i, row[i].file) \in files \cup consumed

\* A temporary file on disk is being written by one worker, whose file no cleanup and
\* no other worker's removal takes away; any other, whatever interrupted its
\* download, has outlived an attempt to remove it that the file system refused.
NoStaleTemp ==
  Serving =>
    /\ \A t \in temps \ refused : \E w \in Workers : t \in Temp(w)
    /\ \A w \in Workers : Temp(w) \subseteq temps \ refused
    /\ \A v, w \in Workers : v # w => Temp(v) \cap Temp(w) = {}

\* What the goroutines hold has its type: whoever acts has a request, whoever
\* downloads has a release, and nobody holds anything while the process is down.
HandsFull ==
  /\ \A w \in Workers :
       /\ IF Active(w) THEN worker[w].id \in Ids ELSE worker[w] = IdleWorker
       /\ worker[w].pc \in {"downloading", "writing", "saved"} => worker[w].release \in Releases
       /\ (worker[w].pc = "writing") <=> (worker[w].temp # NoTemp)
       /\ ~Serving => ~Active(w)
  /\ \A h \in Handlers :
       /\ handler[h].pc # "idle" => handler[h].id \in Ids
       /\ ~Serving => handler[h].pc = "idle"

\* Rows, hands and files agree: a saved file is there unless its request was removed
\* meanwhile, only the file of a request that is gone is being unlinked, a row
\* that is gone records no file, and recovery leaves nothing in flight.
HandsAgree ==
  /\ \A w \in Workers : worker[w].pc = "saved" =>
       \/ FinalPath(worker[w].id, worker[w].release) \in files \cup consumed
       \/ row[worker[w].id].status = "DELETED"
  /\ \A h \in Handlers : handler[h].pc = "remove_file" => row[handler[h].id].status = "DELETED"
  /\ \A i \in Ids : ~Exists(i) => row[i].file = NoRelease
  /\ phase = "recovering" => \A i \in Ids : row[i].status \notin InFlight

-----------------------------------------------------------------------------
(* Properties that need the operator's calls to come one at a time and not *)
(* to cancel: MCJobQueue's serial runs. The cancel_race run breaks them.   *)

\* The snapshot a worker took at its claim still tells the truth when the worker
\* acts on it: nobody else has the request, and its row still has the query, the
\* attempt and the status the worker believes in (unless it was removed).
SnapshotIsFresh ==
  phase = "up" =>
    \A w \in Workers : Active(w) =>
      LET i == worker[w].id IN
      /\ \A v \in Workers \ {w} : worker[v].id # i
      /\ \/ row[i].status = "DELETED"
         \/ /\ row[i].status = IF worker[w].pc = "searching" THEN "SEARCHING" ELSE "FOUND"
            /\ row[i].attempts = worker[w].attempts
            /\ row[i].query = worker[w].query

\* A terminal status is "a resting state that no worker will pick up again without
\* an explicit operator action" (model.go): only the step of an operator's
\* handler on that very request may change it.
TerminalRests ==
  [][\A i \in Ids :
       row[i].status \in Terminal /\ row'[i].status # row[i].status
         => \E h \in Handlers : handler[h].id = i /\ handler'[h] # handler[h]]_vars

\* A request is tried at most RETRY_MAX_ATTEMPTS times, plus once per restart:
\* RequeueInFlight gives an interrupted attempt back without counting it off.
AttemptsBounded ==
  \A i \in Ids : row[i].attempts > 0 => row[i].attempts < MaxAttempts + starts

\* The file of a DOWNLOADED request answers the query its row shows, edits included.
FileAnswersQuery ==
  \A i \in Ids : row[i].status = "DOWNLOADED" => row[i].file \in Answers[row[i].query]

\* Without a restart, a lost write or a removal, every .torrent in the directory
\* is recorded by its request, or is about to be by the worker that saved it.
EveryFileRecorded ==
  phase = "up" /\ starts = 1 /\ faults = 0 =>
    \A f \in files : LET i == f[1] IN
      \/ row[i].status = "DELETED"
      \/ row[i].file # NoRelease /\ f = FinalPath(i, row[i].file)
      \/ \E w \in Workers : /\ worker[w].pc = "saved"
                            /\ f = FinalPath(worker[w].id, worker[w].release)

\* The statuses and attempts of the table follow the documented life cycle.
Lifecycle == INSTANCE RequestLifecycle
               WITH status <- [i \in Ids |-> row[i].status],
                    tries  <- [i \in Ids |-> row[i].attempts]
FollowsLifecycle == Lifecycle!LifeSpec

-----------------------------------------------------------------------------
(* What the repository says and the code does not keep.                    *)

\* "Remove this request and its .torrent file?" (jobs.html): once the removal is
\* over and nobody works on the request any more, no file of it is left.
RemoveTakesTheFile ==
  \A i \in Ids :
    /\ row[i].status = "DELETED"
    /\ \A h \in Handlers : handler[h].id # i
    /\ \A w \in Workers : worker[w].id # i
    => \A f \in files : f[1] # i

-----------------------------------------------------------------------------
(* Liveness, under FairSpec and with no lost writes.                       *)

\* A queued request reaches an answer, or is removed, through every retry, backoff
\* and restart, and although an older request is always served first.
EventuallySettles ==
  \A i \in Ids : row[i].status = "QUEUED" ~> row[i].status \in Terminal \cup {"DELETED"}
=============================================================================
