------------------------------ MODULE TraktSync ------------------------------
(***************************************************************************)
(* The trakt watchlist as a source of requests (internal/trakt/sync.go):   *)
(* one run reads the cursor, walks the list page by page, newest addition  *)
(* first, and stores what is new in one transaction, while the owner of    *)
(* the list goes on editing it on trakt.  Runs fail, the process restarts, *)
(* and a monitor hears of it (internal/healthcheck).                       *)
(***************************************************************************)
EXTENDS Naturals, Sequences, SequencesExt, FiniteSetsExt

CONSTANTS
  Movies,            \* trakt movie ids
  Unusable,          \* the movies without a title to search for: toRequest skips them
  PageLimit,         \* TRAKT_PAGE_LIMIT
  MaxPages,          \* TRAKT_MAX_PAGES
  AlertAfter,        \* failuresBeforeAlert
  PageCounts,        \* whether trakt sends X-Pagination-Page-Count: {TRUE}, {FALSE} or both
  RemoveWhilePaging, \* whether the owner may remove a movie in the middle of a run
  AddsWhilePaging,   \* bound: how many movies the owner adds in the middle of one run
  MaxListed,         \* bound: the length of the watchlist
  MaxClock,          \* bound: how many different seconds movies are listed in
  MaxFailures,       \* bound: how many runs fail
  MaxStops           \* bound: how many times the process stops

ASSUME UnusableAssumption == Unusable \subseteq Movies
ASSUME PageAssumption == PageLimit \in Nat \ {0} /\ MaxPages \in Nat \ {0}
ASSUME AlertAssumption == AlertAfter \in Nat \ {0}
ASSUME TraktBounds == /\ MaxClock \in Nat \ {0} /\ MaxListed \in Nat
                      /\ AddsWhilePaging \in Nat

VARIABLES
  list,      \* the watchlist on trakt, newest first: entries [movie, at]
  clock,     \* the second of the newest addition ever made
  made,      \* the rows of trakt_movies with their requests, in the order of insertion
  created,   \* the created_at of those requests: the second of the run that stored them
  run,       \* the run in progress: what collect holds in local variables
  failures,  \* Syncer.failures
  streak,    \* history: runs that failed since the last one that did not
  stops,     \* history: how many times the process stopped
  failed,    \* history: how many runs failed
  monitor    \* the last signal that reached the monitor: "none", "up", "down"

traktVars == <<list, clock, made, created, run, failures, streak, stops, failed, monitor>>

Entry == [movie : Movies, at : 1 .. MaxClock]

\* collect: the page to fetch next, the cursor (0 when nothing was processed
\* yet), and the items so far, newest first; and, as history, how many movies were
\* added to the list since the run began.
Run == [pc : {"idle", "paging", "saving"}, page : 1 .. MaxPages, cursor : 0 .. MaxClock,
        items : Seq(Entry), added : 0 .. AddsWhilePaging]
NoRun == [pc |-> "idle", page |-> 1, cursor |-> 0, items |-> << >>, added |-> 0]

MoviesOf(entries) == {entries[k].movie : k \in DOMAIN entries}
Processed == MoviesOf(made)

\* Store.TraktCursor: MAX(listed_at) over the rows; seconds are all it keeps.
TraktCursor == Max({0} \cup {made[k].at : k \in DOMAIN made})

TraktInit == /\ list = << >> /\ clock = 1 /\ made = << >> /\ created = << >>
             /\ run = NoRun
             /\ failures = 0 /\ streak = 0 /\ stops = 0 /\ failed = 0
             /\ monitor = "none"

-----------------------------------------------------------------------------
(* The owner of the watchlist.                                             *)

AddToList(m, at) ==
  /\ m \notin MoviesOf(list)
  /\ Len(list) < MaxListed
  /\ at \in {clock, clock + 1} /\ at <= MaxClock
  /\ list' = <<[movie |-> m, at |-> at]>> \o list
  /\ clock' = at
  /\ IF run.pc = "idle" THEN UNCHANGED run
       ELSE run.added < AddsWhilePaging /\ run' = [run EXCEPT !.added = @ + 1]
  /\ UNCHANGED <<made, created, failures, streak, stops, failed, monitor>>

RemoveFromList(k) ==
  /\ RemoveWhilePaging \/ run.pc = "idle"
  /\ list' = RemoveAt(list, k)
  /\ UNCHANGED <<clock, made, created, run, failures, streak, stops, failed, monitor>>

-----------------------------------------------------------------------------
(* One run: SyncOnce, collect, and the report of syncAndLog.               *)

BeginRun ==
  /\ run.pc = "idle"
  /\ run' = [NoRun EXCEPT !.pc = "paging", !.cursor = TraktCursor]
  /\ UNCHANGED <<list, clock, made, created, failures, streak, stops, failed, monitor>>

PageOf(n) == SubSeq(list, (n - 1) * PageLimit + 1, Min({n * PageLimit, Len(list)}))

\* isLastPage: by the header, or by a short page when trakt omits it.
LastPage(n, counted) ==
  IF counted /\ list # << >> THEN n * PageLimit >= Len(list)
                             ELSE Len(PageOf(n)) < PageLimit

\* The entries before the first one that is older than the cursor.
NotBefore(entries, second) ==
  LET older == {k \in DOMAIN entries : entries[k].at < second}
  IN  IF older = {} THEN entries ELSE SubSeq(entries, 1, Min(older) - 1)

AfterCursor(entries, cursor) == NotBefore(entries, cursor + 1) \* mutant: its own second too
UpToCursor(entries, cursor)  == NotBefore(entries, cursor)

\* What a loop keeps of the entries: those at the positions `kept`, in their order.
Keep(entries, kept) ==
  LET nth == CHOOSE f \in [1 .. Cardinality(kept) -> kept] :
               \A i, j \in DOMAIN f : i < j => f[i] < f[j]
  IN  [i \in DOMAIN nth |-> entries[nth[i]]]

Without(entries, movies) ==
  Keep(entries, {k \in DOMAIN entries : entries[k].movie \notin movies})

\* toRequest drops what cannot be searched for; `seen` what an edit of the list
\* moved onto this page from the one before.
WantedAgain(entries, items) == Without(entries, Unusable)   \* mutant: no `seen`
Wanted(entries, items) == Without(entries, Unusable \cup MoviesOf(items))

ReadPage(counted, pages) ==
  LET page    == PageOf(run.page)
      fresh   == UpToCursor(page, run.cursor)
      reached == Len(fresh) < Len(page)
      items   == run.items \o Wanted(fresh, run.items)
      done    == reached \/ LastPage(run.page, counted) \/ run.page = pages
  IN
  /\ run.pc = "paging"
  /\ run' = [run EXCEPT !.items = items,
                        !.pc    = IF done THEN "saving" ELSE "paging",
                        !.page  = IF done THEN @ ELSE @ + 1]
  /\ UNCHANGED <<list, clock, made, created, failures, streak, stops, failed, monitor>>

OnePageMore(counted) == ReadPage(counted, MaxPages + 1)   \* mutant
FetchPage(counted)   == ReadPage(counted, MaxPages)

\* A signal is retried pingAttempts times and may still not reach the monitor.
Ping(signal) == monitor' \in {signal, monitor}

\* now: the second of a run is no earlier than that of the runs before it.
Seconds == IF created = << >> THEN {1} ELSE {Last(created), Last(created) + 1}

\* CreateTraktRequests, all or nothing: one created_at for every request of the run.
Insert(entries) ==
  LET new == Without(entries, Processed) IN
  /\ made' = made \o new
  /\ \E now \in Seconds : created' = created \o [k \in DOMAIN new |-> now]

\* The items are reversed and stored, and the report of a run that worked.
StoreRun(oldestFirst) ==
  /\ run.pc = "saving"
  /\ Insert(oldestFirst)
  /\ run' = NoRun
  /\ failures' = 0 /\ streak' = 0
  /\ Ping("up")
  /\ UNCHANGED <<list, clock, stops, failed>>

SaveNewestFirst == StoreRun(run.items)           \* mutant: the list is not reversed
SaveRun         == StoreRun(Reverse(run.items))

\* signalFailure: the token file, trakt or the database failed; the pages that
\* were collected are dropped, so the cursor never passes what was not stored.
FailRun(kept, threshold) ==
  /\ run.pc # "idle"
  /\ failed < MaxFailures
  /\ Insert(Reverse(kept))
  /\ run' = NoRun
  /\ failures' = failures + 1 /\ streak' = streak + 1 /\ failed' = failed + 1
  /\ IF failures + 1 < threshold THEN UNCHANGED monitor ELSE Ping("down")
  /\ UNCHANGED <<list, clock, stops>>

StorePartialRun == FailRun(run.items, AlertAfter)    \* mutant: what was read is kept
AlertTooEarly   == FailRun(<< >>, AlertAfter - 1)    \* mutant
SignalFailure   == FailRun(<< >>, AlertAfter)

\* Shutdown or a kill: the run in progress neither counts nor resets the streak,
\* but the counter itself is only in memory.
StopProcess ==
  /\ stops < MaxStops
  /\ stops' = stops + 1
  /\ run' = NoRun
  /\ failures' = 0
  /\ UNCHANGED <<list, clock, made, created, streak, failed, monitor>>

-----------------------------------------------------------------------------
SyncStep == BeginRun \/ (\E counted \in PageCounts : FetchPage(counted)) \/ SaveRun

TraktNext == \/ \E m \in Movies, at \in 1 .. MaxClock : AddToList(m, at)
             \/ \E k \in DOMAIN list : RemoveFromList(k)
             \/ SyncStep \/ SignalFailure \/ StopProcess

TraktSpec == TraktInit /\ [][TraktNext]_traktVars

\* The ticker starts a run every interval and a run always ends; runs fail and the
\* process stops only finitely often (MaxFailures, MaxStops).
TraktFairSpec == TraktSpec /\ WF_traktVars(SyncStep)

-----------------------------------------------------------------------------
TraktTypeOK ==
  /\ list \in Seq(Entry) /\ made \in Seq(Entry)
  /\ created \in Seq(Nat) /\ Len(created) = Len(made)
  /\ run \in Run
  /\ clock \in 1 .. MaxClock
  /\ failures \in 0 .. failed /\ streak \in 0 .. failed
  /\ monitor \in {"none", "up", "down"}

\* "Each movie is scheduled once" (README): whatever is removed and added back,
\* repeated by a page that moved or read again by a later run; and no run ever
\* hands the insert a movie twice, which its primary key would refuse.
ScheduledOnce ==
  /\ \A j, k \in DOMAIN made : made[j].movie = made[k].movie => j = k
  /\ \A j, k \in DOMAIN run.items : run.items[j].movie = run.items[k].movie => j = k

\* "Queue every new movie" (README): nothing usable on the list is older than the
\* cursor without having been scheduled, for a later run stops before reaching it.
NothingPassedOver ==
  \A k \in DOMAIN list :
    list[k].at < TraktCursor => list[k].movie \in Processed \cup Unusable

\* "Entries are returned oldest first" (collect): the rows go into the table in the
\* order of the additions, across pages, runs and restarts.  It is not yet the order the
\* queue is served in: ClaimNext orders by created_at, which all rows of a run share.
InsertedInListOrder ==
  \A j, k \in DOMAIN made : j < k => made[j].at <= made[k].at

\* What is left of it when the queue is served by created_at: an addition of one run is
\* never served after the later ones that another run found.
RunsServedInListOrder ==
  \A j, k \in DOMAIN made : created[j] < created[k] => made[j].at <= made[k].at

\* The monitor is told that the sync is down only after AlertAfter runs in a row
\* failed, whatever stopped and restarted in between.
NoFalseAlarm ==
  [][monitor' = "down" /\ monitor # "down" => streak' >= AlertAfter]_traktVars

\* What stays on the list is scheduled in the end.
EventuallyScheduled ==
  \A m \in Movies \ Unusable :
    m \in MoviesOf(list) ~> (m \in Processed \/ m \notin MoviesOf(list))
=============================================================================
