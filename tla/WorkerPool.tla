----------------------------- MODULE WorkerPool -----------------------------
(***************************************************************************)
(* The life of the worker goroutines (internal/worker, cmd/server): how an *)
(* idle worker learns of work, what one attempt makes of the answers of    *)
(* all trackers, and how the pool ends.  JobQueue has the table in detail  *)
(* and lets a worker find work at any time; here are the wake channel, the *)
(* poll, the search round and the shutdown, over an abstract table.        *)
(*                                                                         *)
(* The run of the process begins after Recover.  Cancel and Delete, which  *)
(* only take work away, and lost writes are left to JobQueue.              *)
(***************************************************************************)
EXTENDS Ranking

CONSTANTS
  Requests,     \* the rows of the table
  Workers,      \* the goroutines of the pool (WORKERS)
  Handlers,     \* the HTTP requests that submit or retry work
  Syncer,       \* the goroutine of the trakt sync, which submits work as well
  NoRequest,    \* an idle worker has no request
  MaxAttempts,  \* RETRY_MAX_ATTEMPTS
  Recovered,    \* bound: the requests that may be there when the process starts
  Pages,        \* the result pages a tracker may answer with
  MaxSubmits,   \* bound: how many transactions submit work
  MaxFaults     \* bound: how many claims the database refuses

ASSUME RequestsAssumption == NoRequest \notin Requests
ASSUME WorkersAssumption == Workers # {}
ASSUME AttemptsAssumption == MaxAttempts \in Nat \ {0}
ASSUME PagesAssumption == Pages \subseteq Seq(Release)
ASSUME PoolBounds == MaxSubmits \in Nat /\ MaxFaults \in Nat

VARIABLES
  row,      \* the requests table, as far as the pool depends on it
  delay,    \* the delay a waiting request was given, before the jitter; 0 for the others
  worker,   \* where each worker goroutine is, and what it holds
  token,    \* the wake channel, which has room for one signal
  caller,   \* the goroutines that submit work: "idle", or "notifying" next
  server,   \* Server.Start: "serving"; "failed" to listen; "stopped"
  signal,   \* SIGTERM came: the context of workers and syncer is cancelled
  exited,   \* main.run has returned
  missed,   \* history: the last look at the queue was refused by the database
  submits,  \* history: transactions that submitted work
  faults,   \* history: claims the database refused
  round     \* history: the search round that the last step ended, or NoRound

process  == <<server, signal, exited>>
poolVars == <<row, delay, worker, token, caller, process, missed, submits, faults, round>>

Callers == Handlers \cup {Syncer}

(* A row: "due" since it was submitted, or since before this run of the    *)
(* process; "waiting" for its backoff to elapse, "retry" once it has;      *)
(* "held" by a worker (SEARCHING, FOUND); or closed.                       *)
Closed == {"DOWNLOADED", "NOT_FOUND", "FAILED"}
Row == [at       : {"absent", "due", "waiting", "retry", "held"} \cup Closed,
        attempts : Nat]    \* attempt_count, which matters until the request is closed

NewRow(at, attempts) == [at |-> at, attempts |-> attempts]

(* A worker: about to claim; resting, between a claim that brought nothing *)
(* and the select; asleep in it; searching for the request it claimed;     *)
(* downloading the release it recorded; or gone.                           *)
Worker == [pc       : {"claiming", "resting", "asleep", "searching", "downloading", "gone"},
           request  : Requests \cup {NoRequest},
           attempts : Nat]

Busy(w)   == worker[w].pc \in {"searching", "downloading"}
Holding(pc, r, attempts) == [pc |-> pc, request |-> r, attempts |-> attempts]
At(pc)    == Holding(pc, NoRequest, 0)

(* A search round: what every tracker answered, the merged candidates, and *)
(* what became of the request.                                             *)
NoRound == [outcomes |-> << >>, candidates |-> << >>, attempts |-> 0, at |-> "absent"]

\* pool.Start on whatever Recover left: rows without a schedule, and rows with one.
PoolInit ==
  /\ row \in [Requests -> {NewRow("absent", 0)}
                           \cup {NewRow("due", n)     : n \in 0 .. MaxAttempts}
                           \cup {NewRow("waiting", n) : n \in 1 .. MaxAttempts - 1}]
  /\ \A r \in Requests \ Recovered : row[r].at = "absent"
  /\ delay = [r \in Requests |-> IF row[r].at = "waiting" THEN Backoff(row[r].attempts) ELSE 0]
  /\ worker = [w \in Workers |-> At("claiming")]
  /\ token = FALSE
  /\ caller = [c \in Callers |-> "idle"]
  /\ server \in {"serving", "failed"} /\ signal = FALSE /\ exited = FALSE
  /\ missed = FALSE /\ submits = 0 /\ faults = 0 /\ round = NoRound

Goto(w, pc) == worker' = [worker EXCEPT ![w] = At(pc)]

-----------------------------------------------------------------------------
(* Submissions: CreateBatch, Retry and CreateTraktRequests, then Notify.   *)

\* The syncer stops with the context. A handler that serves a request goes on, and
\* a batch action submits one row after the other before it notifies.
MaySubmit(c) == /\ ~exited
                /\ IF c = Syncer THEN ~signal /\ caller[c] = "idle"
                                 ELSE server \in {"serving", "stopped"}

Submit(c, S) ==
  /\ MaySubmit(c)
  /\ submits < MaxSubmits
  /\ S # {} /\ \A r \in S : row[r].at \in {"absent", "NOT_FOUND", "FAILED"}
  /\ row' = [r \in Requests |-> IF r \in S THEN NewRow("due", 0) ELSE row[r]]
  /\ caller' = [caller EXCEPT ![c] = "notifying"]
  /\ submits' = submits + 1 /\ round' = NoRound
  /\ UNCHANGED <<delay, worker, token, process, missed, faults>>

Signalled(c, fill) ==
  /\ ~exited
  /\ caller[c] = "notifying"
  /\ caller' = [caller EXCEPT ![c] = "idle"]
  /\ token' = (token \/ fill) /\ round' = NoRound
  /\ UNCHANGED <<row, delay, worker, process, missed, submits, faults>>

\* Notify never blocks: a full channel already tells what it has to tell.
NotifyUnbuffered(c) == Signalled(c, \E w \in Workers : worker[w].pc = "asleep")  \* mutant
Notify(c)           == Signalled(c, TRUE)

-----------------------------------------------------------------------------
(* Pool.run: claim, or rest, sleep, and look again.                        *)

Due(r) == row[r].at \in {"due", "retry"}

\* Which of the due requests is the oldest is JobQueue's concern.
Claim(w, r) ==
  /\ ~signal
  /\ worker[w].pc = "claiming"
  /\ Due(r)
  /\ row' = [row EXCEPT ![r].at = "held", ![r].attempts = @ + 1]
  /\ worker' = [worker EXCEPT ![w] = Holding("searching", r, row[r].attempts + 1)]
  /\ missed' = FALSE
  /\ UNCHANGED <<delay, token, caller, process, submits, faults>>

FindNothing(w) ==
  /\ ~signal
  /\ worker[w].pc = "claiming"
  /\ \A r \in Requests : ~Due(r)
  /\ Goto(w, "resting")
  /\ missed' = FALSE
  /\ UNCHANGED <<row, delay, token, caller, process, submits, faults>>

ClaimFails(w) ==
  /\ ~signal
  /\ worker[w].pc = "claiming"
  /\ faults < MaxFaults
  /\ faults' = faults + 1
  /\ missed' = TRUE /\ round' = NoRound
  /\ Goto(w, "resting")
  /\ UNCHANGED <<row, delay, token, caller, process, submits>>

\* The timer is reset, and the select begins.
Sleep(w) ==
  /\ worker[w].pc = "resting"
  /\ Goto(w, "asleep")
  /\ UNCHANGED <<row, delay, token, caller, process, missed, submits, faults>>

Wake(w) ==
  /\ worker[w].pc = "asleep"
  /\ token
  /\ token' = FALSE
  /\ Goto(w, "claiming")
  /\ UNCHANGED <<row, delay, caller, process, missed, submits, faults>>

\* The timer fires after idlePoll.
TimerNotReset(w) == Wake(w)   \* mutant: it fires only once
Poll(w) ==
  /\ worker[w].pc = "asleep"
  /\ Goto(w, "claiming")
  /\ UNCHANGED <<row, delay, token, caller, process, missed, submits, faults>>

\* ctx.Done in the select, and ctx.Err after the claim: a request that was claimed
\* in the meantime stays SEARCHING, for the next start.
Return(w, places) ==
  /\ signal
  /\ worker[w].pc \in places
  /\ Goto(w, "gone")
  /\ UNCHANGED <<row, delay, token, caller, process, missed, submits, faults>>

ReturnFromSelect(w) == Return(w, {"asleep"})   \* mutant: wg.Done on that way out only
Leave(w)            == Return(w, {"claiming", "searching", "asleep"})

-----------------------------------------------------------------------------
(* Pool.searchAll: what a round can bring, whatever order the goroutines   *)
(* end in. The deadline of the attempt fails whoever has not answered yet. *)

Arrivals == {o \in [Trackers -> Trackers] : \A t, u \in Trackers : o[t] = o[u] => t = u}
Answers  == {Found(page) : page \in Pages} \cup {Failed(e) : e \in {"transient", "permanent"}}

Rounds == {[outcomes |-> outcomes, candidates |-> Merge(outcomes, arrival)] :
             outcomes \in [Trackers -> Answers], arrival \in Arrivals}

-----------------------------------------------------------------------------
(* Pool.process: the search round, the download, and handleError.          *)

\* The row of the worker's request is written, and the worker claims again.
Record(w, at, attempts) ==
  /\ row' = [row EXCEPT ![worker[w].request] = NewRow(at, attempts)]
  /\ Goto(w, "claiming")

Close(w, at) == Record(w, at, 0) /\ UNCHANGED delay

\* handleError on a live context.
HandleError(w, err) ==
  IF err = "transient" /\ worker[w].attempts < MaxAttempts
    THEN /\ Record(w, "waiting", worker[w].attempts)
         /\ delay' = [delay EXCEPT ![worker[w].request] = Backoff(worker[w].attempts)]
    ELSE Close(w, IF err = "no_results" THEN "NOT_FOUND" ELSE "FAILED")

\* searchAll, then MarkFound of the best candidate, or handleError.
Search(w, all) ==
  /\ ~signal
  /\ worker[w].pc = "searching"
  /\ IF all.candidates # << >>
       THEN /\ worker' = [worker EXCEPT ![w].pc = "downloading"]
            /\ UNCHANGED <<row, delay>>
       ELSE HandleError(w, combineFailures(all.outcomes))
  /\ round' = [outcomes |-> all.outcomes, candidates |-> all.candidates,
               attempts |-> worker[w].attempts, at |-> row'[worker[w].request].at]
  /\ UNCHANGED <<token, caller, process, missed, submits, faults>>

\* Client.Download from the winner's tracker and MarkDownloaded, or handleError.
Download(w) ==
  /\ ~signal
  /\ worker[w].pc = "downloading"
  /\ \/ Close(w, "DOWNLOADED")
     \/ \E err \in {"transient", "permanent"} : HandleError(w, err)
  /\ UNCHANGED <<token, caller, process, missed, submits, faults>>

\* handleError on a cancelled context, or a write refused because of it: the row
\* stays in flight, for the next start.
Abandon(w) ==
  /\ signal
  /\ Busy(w)
  /\ Goto(w, "claiming")
  /\ UNCHANGED <<row, delay, token, caller, process, missed, submits, faults>>

BackoffElapses(r) ==
  /\ ~exited
  /\ row[r].at = "waiting"
  /\ row' = [row EXCEPT ![r].at = "retry"]
  /\ delay' = [delay EXCEPT ![r] = 0] /\ round' = NoRound
  /\ UNCHANGED <<worker, token, caller, process, missed, submits, faults>>

-----------------------------------------------------------------------------
(* main.run and Server.Start.                                              *)

Process(newServer, newSignal, newExited) ==
  /\ server' = newServer /\ signal' = newSignal /\ exited' = newExited
  /\ round' = NoRound
  /\ UNCHANGED <<row, delay, worker, token, caller, missed, submits, faults>>

Signal == ~signal /\ Process(server, TRUE, exited)

\* ctx.Done in Server.Start: Shutdown gives running handlers ten seconds.
StopServer == /\ signal /\ server = "serving"
              /\ Process("stopped", signal, exited)

\* pool.Wait and syncer.Wait. A server that could not listen cancels nothing: its
\* error is reported only after a signal, for until then Wait does not return.
Exit == /\ ~exited /\ server \in {"failed", "stopped"}
        /\ \A w \in Workers : worker[w].pc = "gone"
        /\ signal /\ caller[Syncer] = "idle"
        /\ Process(server, signal, TRUE)

-----------------------------------------------------------------------------
RunStep(w) == /\ \/ \E r \in Requests : Claim(w, r)
                 \/ FindNothing(w) \/ Sleep(w) \/ Wake(w) \/ Poll(w) \/ Leave(w)
                 \/ Download(w) \/ Abandon(w)
              /\ round' = NoRound

SearchStep(w) == \E all \in Rounds : Search(w, all)

PoolNext ==
  \/ \E c \in Callers : Notify(c) \/ \E S \in SUBSET Requests : Submit(c, S)
  \/ \E w \in Workers : RunStep(w) \/ SearchStep(w) \/ ClaimFails(w)
  \/ \E r \in Requests : BackoffElapses(r)
  \/ Signal \/ StopServer \/ Exit

PoolSpec == PoolInit /\ [][PoolNext]_poolVars

(* Goroutines run, an attempt is bounded by its deadline, the timer fires, *)
(* and whoever stored work goes on to notify. Nobody has to submit work or *)
(* to stop the process.                                                    *)
PoolFairness == /\ \A w \in Workers : WF_poolVars(RunStep(w)) /\ WF_poolVars(SearchStep(w))
                /\ \A c \in Callers : WF_poolVars(Notify(c))
                /\ \A r \in Requests : WF_poolVars(BackoffElapses(r))
                /\ WF_poolVars(StopServer) /\ WF_poolVars(Exit)

PoolFairSpec == PoolSpec /\ PoolFairness

-----------------------------------------------------------------------------
(* Properties.                                                             *)

PoolShape ==
  /\ row \in [Requests -> Row]
  /\ worker \in [Workers -> Worker]
  /\ \A w \in Workers : Busy(w) => worker[w].request \in Requests
  /\ token \in BOOLEAN /\ signal \in BOOLEAN /\ exited \in BOOLEAN /\ missed \in BOOLEAN
  /\ caller \in [Callers -> {"idle", "notifying"}]
  /\ server \in {"serving", "failed", "stopped"}
  /\ submits \in Nat /\ faults \in Nat

\* Every variable has its type, a working worker has a request, and no delay passes
\* RETRY_MAX_BACKOFF_SECONDS.
PoolTypeOK == PoolShape /\ delay \in [Requests -> 0 .. MaxBackoffSeconds]

\* "Notify() makes new work visible immediately" (worker.go): as long as submitted
\* work is due, somebody will look for it without the help of the poll. Either the
\* signal is in the channel or about to be sent, or a worker is on its feet and
\* claims before it sleeps. Only a refused claim leaves work to the poll.
NoLostWakeup ==
  (\E r \in Requests : row[r].at = "due") /\ ~signal =>
    \/ token \/ missed
    \/ \E c \in Callers : caller[c] = "notifying"
    \/ \E w \in Workers : worker[w].pc = "claiming" \/ Busy(w)

\* The winner of a round is best among everything any tracker offered, and among its
\* equals it comes from the tracker configured first: "the winner does not change
\* between two runs of the same search" (worker.go), however the answers arrive;
\* and "a tracker that is down must not withhold a release".
WinnerIsBest ==
  \A t \in DOMAIN round.outcomes : \A k \in DOMAIN round.outcomes[t].page :
    LET c    == [tracker |-> t, release |-> round.outcomes[t].page[k]]
        best == round.candidates[1]
    IN  /\ round.candidates # << >> /\ round.at = "held"
        /\ ~Better(c, best)
        /\ ~Better(best, c) => best.tracker <= t

\* A round without a release closes its request only for a reason (worker.go): it is
\* NOT_FOUND exactly when every tracker answered and had nothing, and FAILED only
\* when no failure is worth repeating or the attempts are used up.
ClosedForAReason ==
  round # NoRound /\ round.candidates = << >> =>
    LET errs == {round.outcomes[t].err : t \in Trackers} IN
    /\ round.at = "NOT_FOUND" <=> errs = {"no_results"}
    /\ round.at = "FAILED" => "transient" \notin errs \/ round.attempts >= MaxAttempts
    /\ round.at = "waiting" => round.attempts < MaxAttempts

\* The schedule of the README (3s, 6s, 12s, ...): each further attempt waits twice as
\* long, up to the cap, for every request, also one that a restart has recovered.
DelaysDouble ==
  \A r \in Requests : row[r].at = "waiting" =>
    delay[r] = Min({BaseSeconds * 2 ^ (row[r].attempts - 1), MaxBackoffSeconds})

\* Due work, and work that waits for its backoff, is taken up, unless the process
\* is told to stop.
WorkIsTaken ==
  \A r \in Requests : row[r].at \in {"due", "waiting", "retry"} ~> row[r].at = "held" \/ signal

\* A process that is told to stop ends, in the middle of attempts, with workers
\* asleep, with work left, and also when it never got to listen.
StopsWhenTold == signal ~> exited
=============================================================================
