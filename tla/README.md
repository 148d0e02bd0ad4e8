# Verification of movie-torrent-downloader

The service takes movie titles from a web form or from a trakt.tv watchlist,
searches one or more torrent trackers for each, ranks what it finds and saves the
best `.torrent` into a directory that a download client watches. This directory
holds TLA+ models of its concurrent and failure-prone core, TLC runs that check
them, and TLAPS proofs about each of them. `PROJECT.json` maps every definition to the
lines it models and lists runs, mutants, findings, hazards and theorems.

## 1. The system

| component | source | state it keeps | operations |
|---|---|---|---|
| request store | `internal/storage` | `requests` and `trakt_movies` in SQLite, one connection | CreateBatch, CreateTraktRequests, ClaimNext, Mark*, ScheduleRetry, RequeueInFlight, Retry, Cancel, Delete |
| worker pool | `internal/worker` | per goroutine: the claimed request, the chosen release, the temporary file; a wake channel of one | Recover, run, process, handleError, Notify |
| operator's handlers | `internal/web` | per HTTP request: the row it read | create, retry (plain, edited, forced), cancel, delete, one action on a selection |
| process | `cmd/server` | whether it is recovering, serving or stopping | start, SIGTERM, exit, kill |
| tracker client | `internal/tracker` | cookie session, two singleflight keys, rate limiter | EnsureSession, Search, Download |
| ranking, names | `internal/media` | none | Better, NormalizeQuery, Filename |
| trakt sync | `internal/trakt` | failure streak; the cursor is derived from `trakt_movies` | run, SyncOnce, collect, signalFailure |
| healthcheck | `internal/healthcheck` | none | Success, Fail |
| configuration | `internal/config` | none after start | Load, Validate |

How they interact. Handlers and the trakt sync insert rows and wake the pool; workers
claim rows in creation order, search every tracker with that tracker's shared client,
and write their progress back to the row; handlers change and delete rows under the
workers' feet; the directory of `.torrent` files is written by workers and emptied by
handlers and by the external download client. The one database connection makes a
statement, or a transaction, atomic, and nothing more.

What is hard, and what would make it correct:

* **Queue.** A worker acts for minutes on a snapshot; Retry, Cancel and Delete check in
  one statement and write in another; the process may die between any two steps; a
  write may be refused. Correct means: no request is forgotten in SEARCHING or FOUND, a
  DOWNLOADED row has its file, a terminal row rests, attempts are bounded, and every
  queued request is eventually answered.
* **Pool.** Workers sleep on a channel that holds one signal, and several goroutines fill
  it; an attempt asks all trackers at once and must turn their answers and failures into
  one verdict; a signal may arrive at any step. Correct means: new work is not left to the
  poll, the best release wins whatever the order of the answers, a request is closed only
  for a reason, retries wait as long as documented, and the process ends when told.
* **Tracker session.** Many searches, one session that may be lost at any request.
  Correct means: a logged-out page is never an answer, nobody waits for a login that
  nobody performs, a search fails for good only for a reason.
* **Trakt sync.** The list is edited while it is paged, runs fail half way, the cursor
  has whole seconds. Correct means: each movie once, none passed over, all eventually.

## 2. The modules

| module | models |
|---|---|
| `RequestLifecycle` | abstract specification: what `model.go` promises about one request |
| `JobQueue` | store, pool, handlers, directory and process together; the queue's properties |
| `JobQueueProofs` | TLAPS: the invariants of `JobQueue` for every value of its constants |
| `SerialQueueProofs` | TLAPS: the serial properties of `JobQueue`, and that it implements `RequestLifecycle` |
| `MCJobQueue` | operation sets, answers and symmetry for the `queue_*`, `cancel_race` and `remove_orphan` runs |
| `Ranking` | pure decisions of an attempt: `Better`, the stable sorts, the merge, `combineFailures`, `Backoff` |
| `RankingProofs` | TLAPS: the order behind the choice of a release, the winner of a merge, the delays of `Backoff` |
| `WorkerPool`, `MCWorkerPool` | wake channel, timer, search round, verdict, shutdown, over an abstract table; built from `Ranking`; the `worker_pool` run |
| `WorkerPoolProofs` | TLAPS: all safety properties of `WorkerPool` |
| `TraktSync`, `MCTraktSync` | the watchlist, the runs over it, the bookkeeping, the monitor; the `trakt_*` runs |
| `TraktSyncProofs` | TLAPS: all safety properties of `TraktSync` |
| `TrackerSession`, `MCTrackerSession` | one tracker client under several searches; the `tracker_session` and `one_login` runs |
| `TrackerSessionProofs` | TLAPS: the safety properties of `TrackerSession`, and the bound on logins |
| `NumberFacts` | TLAPS: minima, maxima, counting, recursion and powers of two, for the proofs above |

### JobQueue

`row` is the `requests` table (only the columns control depends on; `attempts` is
`attempt_count`, `waiting` is a `next_attempt_at` in the future, `file` is
`file_path`). `ABSENT` and `DELETED` stand for "no such row": ULIDs are never reused.
`worker` and `handler` are the local variables of goroutines between two statements.
`files` is the output directory, `temps` the names of the half-written `.torrent-*.tmp` on
disk, `phase` the process. `consumed`, `refused`, `starts`, `faults` and `stranded` are
history; `refused` are the temporary files that outlived an attempt to remove them.

One action is one SQL statement or transaction together with what the goroutine does
around it without interruption: `Claim` is ClaimNext; `MarkFound` the search's success
and its UPDATE; `BeginWrite`/`FinishWrite` the two halves of Download with the
temporary file between them; `MarkDownloaded`, `NothingFound`, `PermanentError`,
`TransientError` the ends of `process` and `handleError`; `LoseWrite` an UPDATE that the
database refuses (logged and dropped). `RetryGet`-`RetryCheck`-`RetryWrite`,
`CancelGet`-`CancelWrite` and `DeleteGet`-`DeleteRow`-`RemoveFile` are the handlers.
The writes have no condition but the id, as in the code, so they act on whatever the
row has become. `RequeueInFlight` and `CleanTempFiles` are the two steps of Recover,
either of which a `Crash` may cut off. Nobody looks at the error of `os.Remove`, neither in
Download's deferred cleanup nor in Recover, which goes on to start the pool
(`worker.go:69-72`, 358): `Unlink` may leave any of the files on disk, `MaxRefused` bounds how
many, and `NoStaleTemp` says whose a temporary file then is. A cleanup that fails altogether
is the case in which all of them stay. `os.CreateTemp` picks a name that is not taken, so a
leftover never becomes another download's file. `RemoveFile` may fail as well. `Shutdown`, `Abandon` and `Exit` are the orderly
end, `Crash` the kill. A kill between rename and MarkDownloaded is an ordinary
interleaving here.

Trakt submissions create rows exactly as `CreateBatch` does, so `JobQueue` has one
`Submit`; the bookkeeping that only they have is in `TraktSync`.

### WorkerPool and Ranking

`JobQueue` lets an idle worker look at the table at any time and lets an attempt end in
any way. `WorkerPool` is the other half: it keeps only what `ClaimNext` tells apart of a
row (submitted work that is `due`, a `waiting` retry, a `retry` whose backoff has elapsed,
a row `held` in flight) and models what leads a worker to it. `token` is the wake channel;
`worker[w].pc` distinguishes `claiming`, `resting` (the claim brought nothing, the select
has not begun) and `asleep`, because a submission may fall between any two of them.
`Submit` is the transaction and `Notify` the signal after it, two steps of one
`caller`, so a worker may find the row before the signal. `Claim`, `FindNothing`,
`ClaimFails`, `Sleep`, `Wake`, `Poll` and `Leave` are the loop of `run`. The two returns of
`run` are one action, and a request claimed at the moment of a signal stays in flight.

`Search` is `searchAll` with everything process does of it. `Rounds` enumerates what every
tracker may answer (a page, silence, a failure) and every order in which the goroutines may
end; `Merge` fills the slots, reads them in configuration order and sorts. The order of the
answers is an argument of `Merge` although the code makes it irrelevant: that it is
irrelevant is what `WinnerIsBest` says, and the mutant that appends the answers as they
arrive breaks it. `round` is history: what the last step's round was and what became of it.
`HandleError` is `handleError`, with `combineFailures` and `Backoff` from `Ranking`.

`Signal` cancels the context at any time. `server` is `failed` from the start when the
port cannot be opened: `Start` then returns with the context still alive, and `Exit`
(pool.Wait and syncer.Wait) is possible only after a signal. Handlers may outlive the
server (`Shutdown` gives up after ten seconds), so they may submit after it stopped.

The two modules overlap in the statements of the table and share no state: `JobQueue` has
the races on a row, which need the handlers' half-finished calls, and `WorkerPool` the
order of sleeping, waking and deciding, which needs only that somebody stores a row.

### TraktSync

`list` is the watchlist on trakt, newest first, with `listed_at` in whole seconds
(`clock`). `run` holds collect's local variables; `made` the rows of `trakt_movies` in
the order of their insertion, and `created` the `created_at` of their requests, in seconds:
one for all rows of a run, and no less than those of earlier runs (`Insert`; the wall clock
is taken not to run backwards). `FetchPage` is one iteration of collect's loop, `SaveRun`
the transaction and the success signal, `SignalFailure` a run that failed anywhere,
`StopProcess` a stop. The owner edits the list at any time (`AddToList`,
`RemoveFromList`); `RemoveWhilePaging` says whether removals may fall inside a run, and
`AddsWhilePaging` how many additions may (`run.added`, history, counts them).

What a loop keeps of a page is written by positions: `Keep` numbers the positions that stay
in increasing order, `Without` keeps those of other movies. `SelectSeq` would say the same
in a form that the provers cannot use.

Two orders have to be told apart. `InsertedInListOrder` is about the slice that collect
returns and the order in which its rows go into the table. The order in which the queue
*serves* them is another matter: `ClaimNext` sorts by `created_at` and nothing else
(`store.go:354`), the rows of one run are equal there (`store.go:213`, 236), and SQL leaves
equal rows in no order. Without statistics SQLite happens to return them as inserted; a plan
that reads `idx_requests_created`, which is kept in descending order, from its end returns a
run's rows newest first. So the comments at `sync.go:229-230` and 295-296, by which
the queue serves a run in the order of the additions, promise more than the code makes sure
of. No run shows it, since the choice is SQLite's; `JobQueue!Claim` lets equal rows come in
any order, and `RunsServedInListOrder`, which is proved, is what `created_at` does guarantee:
the order from run to run.

### TrackerSession

Each search is a Search call and the request of the Download after it. `flight` holds the
leader of each singleflight key, `search[s].at` the next request of a search or `wait`.
The leader's outcome is delivered to everybody aboard in one step (`Land`). A search
whose context ended can only fail its next request, and a waiter does not look at its
context: that is singleflight's `Do`. Every page that is searched for markers (`Answer`)
shows the one of a member, the one of a guest, or is unclear: it shows neither, like a
maintenance page behind a 200, or both, which comes to the same in both functions. For
`looksLoggedOut` an unclear page is no lost session, so a search takes it at its word, in
general an empty list, and closes the request as NOT_FOUND; for `isLoggedIn` it is no session,
so it provokes a login and, after the login, `ErrLoginFailed`, which `errors.go:14-16`
explains by rejected credentials only. `parseResults` (`Found`) looks at no marker. Nor does
`Download`: it judges the body, and one that is no torrent, is empty or is too large is
`ErrInvalidTorrent` for good, whether the session is gone or not (`client.go:175-180`). What
holds all the same say `GuestsGetNoAnswer` and `RefusedForAReason`, which is about logins only.
`since` is history: expiries seen when a search,
or a flight it shared, began. `accepts` is chosen once: the configured credentials may be
wrong.

## 3. The runs

| run | what it shows | bounds |
|---|---|---|
| `queue_races` | type, `InFlightHasWorker`, `DownloadedIsOnDisk`, `NoStaleTemp`, `HandsAgree` under every race | 1 request, 2 workers, 2 handlers, 2 releases, 2 temporary names, 2 starts, 1 write or removal that fails, 1 refused removal of a temporary file, 2 attempts |
| `queue_serial` | `SnapshotIsFresh`, `AttemptsBounded`, `FileAnswersQuery`, `EveryFileRecorded`, `TerminalRests`, and the refinement `FollowsLifecycle` | 2 requests, 2 workers, 1 handler, 2 queries, 2 starts |
| `queue_live` | `EventuallySettles` | 2 requests, 1 worker, 1 handler, 2 starts |
| `worker_pool` | `NoLostWakeup`, `WinnerIsBest`, `ClosedForAReason`, `DelaysDouble`, `WorkIsTaken`, `StopsWhenTold` | 2 requests (1 recovered), 2 workers, 1 handler and the syncer, 2 trackers of one priority with 2 pages, 3 attempts, 1 submission, 1 refused claim |
| `trakt_runs` | `ScheduledOnce`, `NothingPassedOver`, `InsertedInListOrder`, `NoFalseAlarm`, `EventuallyScheduled` when the list fits a run | 3 movies (1 unusable), 3 pages of 1, 3 seconds, 1 addition during a run, 2 failures, 1 stop |
| `tracker_session` | `FlightsAreLed`, `GuestsGetNoAnswer`, `RefusedForAReason`, `EverySearchEnds` | 3 searches, 2 expiries, 1 failed request, ended context or unclear page |
| `cancel_race` | **violation** of `TerminalRests` | 1 request, 1 worker, 1 handler |
| `remove_orphan` | **violation** of `RemoveTakesTheFile` | the same |
| `trakt_window` | **violation** of `EventuallyScheduled` for a list longer than a run's window | 3 movies, 2 pages of 1 |
| `trakt_shift` | **violation** of `NothingPassedOver` with a removal between two pages | 3 movies, pages of 1 |
| `trakt_order` | **violation** of `InsertedInListOrder` with more additions during a run than a page holds | 3 movies, 3 pages of 1, 2 additions during a run |
| `one_login` | **violation** of `OneLoginPerExpiry` | 2 searches, 1 expiry |

Why the bounds are enough. The races on the queue are between parties that hold the
*same* request, so one request with two workers and two handlers meets them all
(two workers reach one request only through two operator calls, cancel and retry, or
two retries). Order between requests (oldest first, duplicates, starvation) needs two.
Two attempts exercise both branches of handleError; two starts put a crash before and
after every step and a recovery after it. Two temporary names let two workers write at once,
or one write beside a leftover; the other queue runs have no refused removal and no more
names than workers that write. In `worker_pool` one submission may store both requests, and the recovered request may be
due, waiting or absent: a single signal then serves two due rows and two sleeping workers.
One `Notify` wakes one worker; a second due row is claimed by the same worker after its
attempt, or by the other at its next poll (`worker.go:30-33`), and `NoLostWakeup` says no
more than that. A second signal that finds the channel full does not occur with one
submission; that dropping it loses nothing is what `WakeupNeverLost` proves for any number. Two equal trackers with a page that lists the lesser release first are the
least that tells a stable merge from an unstable one, and one tracker from another. Three
attempts give two delays, the second of them capped (2, then 3 rather than 4).

Three searches are a leader, one that shares
its flight and one that comes too late; two expiries are needed to lose the session
again during the repeated search. Pages of one put a page boundary between any two
entries, which is where an edit of the list does its work, and an empty page ends the list;
three of them are a first, an interior and a last page. Three seconds give entries older
than, in and newer than the cursor's. The premises of the theorems about `TraktSync` (section
5) hold in `trakt_runs`; `trakt_shift`, `trakt_window` and `trakt_order` drop one of them each.

Two settings of the queue. In `queue_races` the operator's calls overlap and
cancel, and some properties do not hold: Cancel's unconditional UPDATE can put a
terminal status on a row in flight, a Retry may then queue it again and two workers hold
it. `queue_serial` checks the properties that this one hazard breaks, with one
call at a time and without Cancel: it shows that nothing else breaks them.
`cancel_race` shows the hazard in its smallest form.

Symmetry is used only in runs without liveness (workers, handlers, ids and releases are
interchangeable there). Deadlock checking is off: each system stops when the
bounds are used up, or rests when nobody submits.

Every property of a passing run has a mutant: a definition with a plausible bug, under
which TLC finds the property violated. The mutants stand before the definition they
change (`RetryAnything`, `MarkBeforeRename`, `ReplyUnchecked`, ...).

### Fairness

* `JobQueue!FairSpec`: weak fairness of each worker's steps (goroutines run, an attempt
  has a timeout, an idle worker polls every two seconds, so the wake channel is not
  needed for progress), of each backoff's end, and of restart, recovery and exit
  (Docker restarts the service). No fairness for operators, handlers, lost writes or
  crashes, of which there are finitely many. `queue_live` excludes lost writes: such a
  row rests until the next restart, which need not come.
* `WorkerPool!PoolFairSpec`: weak fairness of each worker's loop and of its search round
  (an attempt has a deadline, the timer fires), of each pending `Notify` (the goroutine
  that stored work runs on), of each backoff's end, and of the server's and the process's
  end once a signal came. Nobody has to submit or to send a signal, and `WorkIsTaken`
  leaves work alone after one.
* `TraktSync!TraktFairSpec`: weak fairness of the sync's own steps (a ticker starts
  runs for ever and the HTTP client has a timeout). Runs fail finitely often.
* `TrackerSession!TrackerFairSpec`: weak fairness of each search's steps (the HTTP
  client has a timeout). A session need not expire and a context need not end.

## 4. What the violations show

1. `cancel_race`: a cancelled request may be searched and downloaded
   (`store.go:514`; the UPDATE names no status).
2. `remove_orphan`: removing a request in flight leaves its file
   (`store.go:527`).
3. `trakt_window`: a first import longer than `TRAKT_PAGE_LIMIT x TRAKT_MAX_PAGES` is cut
   off for ever, where README and comment promise the following runs
   (`sync.go:287`).
4. `trakt_shift`: a removal between two page requests hides an entry from the run, and the
   cursor then passes it (`sync.go:270`).
5. `trakt_order`: when more movies are added during a run than a page holds (100 by
   default), the next page begins with a newer movie than the one before ended with, and the
   slice is no longer oldest first, as the comment on `collect` says (`sync.go:229`; the
   append is at line 279).
6. `one_login`: one lost session can be renewed twice, where the package comment promises
   exactly once (`client.go:217`).

## 5. The proofs

`JobQueueProofs` proves, for any sets of requests, workers, handlers, queries and
releases, any `Operations` and any bounds, from the named assumptions of `JobQueue` only
(the null values lie outside their sets, `Answers` is a function, the bounds are
numbers):

* `TypeCorrect`: `Spec => [](TypeOK /\ HandsFull)`;
* `InFlightNeverForgotten`, `DownloadsStayOnDisk`, `TempFilesAreAccountedFor`,
  `HandsAlwaysAgree`.

The argument has two layers. `TypeInv == TypeOK /\ HandsFull` is inductive by itself:
besides the types it says that whoever acts has a request and nobody acts while the
process is down. The four safety properties are not inductive alone and are proved
together, as `QueueInv`, on top of it. `DownloadedIsOnDisk` needs to know, when a worker
reports a saved file, that the file is still there, and it may be gone only when a handler
unlinked it; hence `HandsAgree`: a `saved` worker's file exists *or* its request is
deleted, and a file is unlinked only for a deleted request (this is where the order of
Delete, row first and file second, matters, and the mutant `DeleteFileOnly` breaks it).
`NoStaleTemp` is inductive with the types: whoever writes has a name to itself, because
`os.CreateTemp` takes none that is on disk, and recovery tries every name there is before
anybody writes. `InFlightHasWorker` must survive restarts, during which nobody holds anything; hence the
last conjunct of `HandsAgree`, that nothing is in flight once recovery has requeued.
There is one `...Keeps` lemma per action, and `QueueStep` puts them together.

`SerialQueueProofs` proves what holds when the operator's calls come one at a time and do not
cancel, as in `queue_serial`. That setting is the premise `Serial`, a formula about the
constants (`"cancel" \notin Operations`, at most one handler), so each theorem reads
`ASSUME Serial PROVE Spec => ...`; ids, workers, restarts, crashes and lost writes stay
arbitrary. `SerialInv` is inductive on top of `TypeInv`: no two workers have one request
(`Alone`), a worker's snapshot is what its row says (`Snapshots`), a request rests from the
moment its retry read it until the retry writes (`Readers`), a queued request has room for
one more attempt (`Counts`), and releases answer the query they were found for (`Answered`).
`Alone` needs `Snapshots` (a claimed row is QUEUED, so nobody believes to have it), which
needs `Readers` (a retry never writes over work in flight): exactly the link that Cancel
breaks in `cancel_race`. From it follow

* `SnapshotsStayFresh`, `AttemptsStayBounded`, `FilesAnswerQueries`, `TerminalStatusesRest`;
* `FilesAreRecorded`, with `FileInv`: only a DOWNLOADED row has a path, and the first start
  finds an empty directory;
* `QueueImplementsLifecycle`: `Spec => FollowsLifecycle`, the refinement. `WorkerLives`,
  `HandlerLives`, `OthersLive` and `NextLives` map every step to one of the life cycle
  (Claim to Begin, MarkFound to Select, the end of an attempt to Conclude or GiveBack,
  RetryWrite to Reopen, DeleteRow to Remove, RequeueInFlight to Restart, a submission to
  Admit) or to a stutter.

`RankingProofs` proves that `Better` is what `sort.SliceStable` demands, a strict weak order
(`BetterIsStrictWeakOrder`), for every list of priorities and every size, and that among
any set of offers at most one candidate is beaten by none and first among its equals
(`WinnerIsUnique`): the choice does not depend on who answered first.

`Backoff`, the stable sort and the flattening of the slots are recursive functions, two of
them inside library operators (`FoldLeft`, `FlattenSeq`). TLA+ defines such a function as
*some* function that satisfies its equation, so each proof first shows that there is one
(`RecursionExists` of `NumberFacts`), and then follows the loop (`DoubledStepByStep`,
`SortStepByStep`, `FlattenStepByStep`). From there

* `DelayDoublesUpToTheCap`: `Backoff(n)` is `BaseSeconds * 2^(n-1)` or the cap, whichever is
  less, for every attempt;
* `MergePicksTheBest`: the first of the merged candidates is beaten by nothing that any
  tracker offered and precedes its equals in configuration order. Insertion changes the
  first place only for a candidate that beats it (`InsertionFacts`), so the first place goes
  to the earliest of the unbeaten (`FirstOfTheBest`), here the strict weak order is needed;
  and the slots are read tracker by tracker (`FlattenFacts`).

`WorkerPoolProofs` proves all safety properties of the pool, for any requests, workers (at
least one), handlers, trackers, pages and settings of the backoff:

* `PoolShapeCorrect`: types, and that a working worker has a request;
* `WakeupNeverLost`: `PoolSpec => []NoLostWakeup`. The property is inductive on top of the
  shape: whoever takes the last token claims next, whoever finds nothing has seen that
  nothing is due, and whoever stores a row is about to signal;
* `ClosedOnlyForAReason`: `PoolSpec => []ClosedForAReason`, from `FailuresCombine`, which says
  what `combineFailures` makes of any answers;
* `PoolTypes` and `DelaysAlwaysDouble`, with `DelayInv`: a working worker has counted its
  attempt, and a waiting row's delay belongs to the attempts it records;
* `WinnerIsAlwaysBest`, with `HoldInv`: a working worker's row is held, and no two workers
  work for one row; so a round that found a release goes on with the row it began with.

`TrackerSessionProofs` proves `FlightsAreLed` (`WaitersAreLed`), `GuestsGetNoAnswer`
(`GuestsAreTurnedAway`) and `RefusedForAReason` (`RefusalsAreJustified`) for any number of searches and any bounds. The inductive invariant `SessionInv` adds to them
that a flight and its leader name each other (`Led`), and that a search between a login
and the use of it *relies* on a session: it is still there, or the tracker dropped one
since the search began, or the credentials are bad (`Trust`), and that whoever is refused
without such an excuse was shown an unclear page. A shared login makes this
delicate: the leader's outcome lands on searches that began later, so an excuse of the
leader must become theirs, which is why `Land` gives everybody the earlier `since`. One
lemma covers each kind of move (`JoinKeeps`, `LandKeeps`, `MoveKeeps`), one each group of
actions.

`TwoLoginsASearch` proves `TrackerTypeOK`, of which the bound `posts <= 2 * |Searches|` is the
part with content: `First` and `Last` are the searches that still have their first and their
last login to spend, nobody gets one back (`NoneRegained`), and each form that is posted takes
a search out of one of the two (`LoginsLeft`). It needs `Searches` to be finite
(`SearchesAssumption`): the searches of one process are.

`TraktSyncProofs` proves all safety properties of the sync, for any movies, page limits, numbers
of pages and bounds. `TypeInv` and `ListInv` are inductive together: the list, the queue and
the items of a run have no movie twice, the list falls from newer to older, nothing is newer
than the clock, and a run's items are not older than its cursor, which is still the store's.
On top of them

* `TraktTypes` and `EachMovieOnce` need no premise: however the owner edits the list, also
  between two pages;
* `InsertionFollowsList` assumes `AddsWhilePaging <= PageLimit`. `OrderInv` says where a run stands:
  all that the list still holds ahead of the next page, but for the movies added since the run
  began, is in the items, so the next page repeats entries (`seen` drops them) and then goes on
  with older ones. One addition more than a page and `trakt_order` shows the order broken;
* `RunsAreServedInOrder` needs no premise: what a run stores is from its cursor on, so no older
  than anything stored before, and its second is not before theirs (`StampInv`);
* `NothingIsPassedOver` assumes that nothing is removed during a run and that the list fits the
  window, `MaxListed <= PageLimit * MaxPages`. `CoverInv` says that what lies above the next
  page is processed, unusable, in the items or newer than all of these (`Newer`).
  `trakt_shift` shows the first premise to be needed; without the second the run stops in the
  middle of the list, which is the setting of `trakt_window`;
* `NeverAFalseAlarm`: the counter in memory never exceeds the streak of failed runs, though
  restarts reset the one and not the other (`CountsAgree`).

The premises are about the environment, trakt and the owner of the list. No code enforces
them, and the findings of section 4 say what happens without.

What is trusted besides the provers: the library's theorems about finite sets, sequences and
well-founded relations. The provers do not interpret `2 ^ n`; `PowersDouble` derives all that is
used of it from `FS_SUBSET` (a set of `n` elements has `2 ^ n` subsets), whose proof in the
library in turn leaves `2 ^ (n + 1) = 2 ^ n + 2 ^ n` to the reader. `DelayDoublesUpToTheCap` and
`DelaysAlwaysDouble` rest on it, and nothing else does.

Only model-checked: the liveness properties `EventuallySettles`, `EventuallyScheduled`,
`EverySearchEnds`, `WorkIsTaken` and `StopsWhenTold` (fairness and ENABLED are out of the
prover's reach). Every safety property of a passing run is also a theorem, under the premises
named above.

## 6. Not modelled

* SQL, the rate limiter, HTML parsing, title parsing, `NormalizeQuery` and `SafeTitle`: string processing;
  a query, a release and a page are members of small sets.
* In `Backoff`, the jitter, which multiplies the capped delay by a factor between one half
  and one, and the truncation of `next_attempt_at` to seconds: `DelaysDouble` is about the
  delay before them. (`src/README.md:227-228` lists delays up to 48 s; with the default
  number of attempts the last one is never scheduled.)
* In `WorkerPool`, Cancel, Delete and lost writes: `JobQueue` has them. One deadline for
  search and download (`worker.go:153`) appears only as failures that may happen anywhere.
* The errors that end `run` before the pool starts, and a `web.New` that fails just after
  (`main.go:89-92`, which returns without waiting for the workers).
* That a listen which fails is reported at once: it is not. `server.Start` returns, the
  context stays alive and `pool.Wait` waits until a signal arrives (`main.go:94-99`);
  `WorkerPool` models it so, and `StopsWhenTold` shows that a signal is enough.
* `Store.FilePaths`, of which `store.go:610-612` says that startup uses it: nothing calls it.
* The order in which SQLite visits rows of one `created_at` (section 2, TraktSync).
* Why a file cannot be removed or a directory not be read: the cleanup may leave any file
  behind, and a worker's own removal its own; nothing else comes of it.
* Configuration, templates, static files, the readiness probe.

## 7. Plan

In order of importance.

1. `RequestLifecycle`, `JobQueue`, `JobQueueProofs`: queue, pool, handlers, process. *Done.*
2. `TraktSync`: cursor, paging, failures, monitor. *Done.*
3. `TrackerSession`: shared session and singleflight. *Done.*
4. `Ranking`, `WorkerPool`: wake channel, timer, poll, search round, verdict, delays, shutdown,
   failed listen. *Done.*
5. Proofs of the safety of `TrackerSession` and `WorkerPool`, of the order in `Ranking`, of
   `NoFalseAlarm`. *Done.*
6. `SerialQueueProofs`: the serial properties of `JobQueue` and the refinement, under an
   assumption on `Operations` and `Handlers` that states the serial setting. *Done.*
7. Pages without one clear login marker in `TrackerSession`. *Done.*
8. Proofs of the safety of `TraktSync` (`TraktTypes`, `EachMovieOnce`, `InsertionFollowsList`,
   `NothingIsPassedOver`), of the logins of `TrackerSession`, of the delays and the winner of
   `WorkerPool` and `Ranking`. *Done.*
9. Refused removals of temporary files in `JobQueue`, `created_at` in `TraktSync`, bodies that
   are no torrent in `TrackerSession`. *Done.*
10. Open: a property for the duplicate check of `Retry` (`storage/store.go:483`), which reads the
   table outside the transaction of its `UPDATE`.
