------------------------------ MODULE Ranking ------------------------------
(***************************************************************************)
(* The decisions of one attempt, as pure operators: which release wins     *)
(* (media.Better, Client.Search, searchAll), what the failures of several  *)
(* trackers amount to (combineFailures), and how long a retry waits        *)
(* (storage.Backoff).  WorkerPool is built from them.                      *)
(*                                                                         *)
(* A tracker is its position in the configuration.                         *)
(***************************************************************************)
EXTENDS Integers, Sequences, SequencesExt, FiniteSetsExt

CONSTANTS
  Priorities,        \* TRACKER_<SLUG>_PRIORITY, in configuration order
  BaseSeconds,       \* RETRY_BASE_SECONDS
  MaxBackoffSeconds  \* RETRY_MAX_BACKOFF_SECONDS

\* What Config.Validate lets through.
ASSUME PrioritiesAssumption == Priorities \in Seq(Int) /\ Priorities # << >>
ASSUME BackoffAssumption == /\ BaseSeconds \in Nat \ {0}
                            /\ MaxBackoffSeconds \in Nat
                            /\ MaxBackoffSeconds >= BaseSeconds

Trackers == DOMAIN Priorities

-----------------------------------------------------------------------------
(* Ranking (internal/media).                                               *)

Release == [quality : {"2160p", "1080p", "720p", "sd"},
            codec   : {"h265", "h264", "other"},
            size    : Nat]

\* A release with the tracker that offers it, which is where to download it.
Candidate == [tracker : Trackers, release : Release]

qualityRank(q) == IF q = "2160p" THEN 4 ELSE IF q = "1080p" THEN 3 ELSE IF q = "720p" THEN 2 ELSE 1
codecRank(c)   == IF c = "h265" THEN 3 ELSE IF c = "h264" THEN 2 ELSE 1

\* Strict precedence: quality, codec, tracker priority (lower wins), size.
Better(a, b) ==
  LET qa == qualityRank(a.release.quality)  qb == qualityRank(b.release.quality)
      ca == codecRank(a.release.codec)      cb == codecRank(b.release.codec)
      pa == Priorities[a.tracker]           pb == Priorities[b.tracker]
  IN  \/ qa > qb
      \/ qa = qb /\ ca > cb
      \/ qa = qb /\ ca = cb /\ pa < pb
      \/ qa = qb /\ ca = cb /\ pa = pb /\ a.release.size > b.release.size

\* sort.SliceStable: a candidate goes before those it beats, after its equals.
InsertStable(sorted, c) ==
  LET beaten == {k \in DOMAIN sorted : Better(c, sorted[k])}
  IN  IF beaten = {} THEN Append(sorted, c) ELSE InsertAt(sorted, Min(beaten), c)

SortStable(candidates) == FoldLeft(InsertStable, << >>, candidates)

-----------------------------------------------------------------------------
(* One search round (internal/worker).                                     *)

\* What Client.Search returns: the rows of the result page, or an error.
Found(page) == [err |-> IF page = << >> THEN "no_results" ELSE "none", page |-> page]
Failed(err) == [err |-> err, page |-> << >>]

\* Client.Search sorts the releases of one page, best first.
Offer(t, page) == SortStable([k \in DOMAIN page |-> [tracker |-> t, release |-> page[k]]])

\* The goroutines answer in any order, but each fills its own slot of outcomes,
\* and the slots are read in configuration order.
AsTheyArrive(arrival) == arrival   \* mutant: appended under a lock
MergeOrder(arrival)   == [t \in Trackers |-> t]

Merge(outcomes, arrival) ==
  LET order == MergeOrder(arrival) IN
  SortStable(FlattenSeq([k \in DOMAIN order |-> Offer(order[k], outcomes[order[k]].page)]))

\* combineFailures, for outcomes without a candidate: silence is an answer, and
\* one failure worth repeating makes the attempt worth repeating.
OneSilenceIsEnough(outcomes) ==   \* mutant
  IF \E t \in Trackers : outcomes[t].err = "no_results" THEN "no_results" ELSE "transient"

combineFailures(outcomes) ==
  LET failures == {outcomes[t].err : t \in Trackers} \ {"no_results"}
  IN  IF failures = {} THEN "no_results"
      ELSE IF "transient" \in failures THEN "transient" ELSE "permanent"

-----------------------------------------------------------------------------
(* storage.Backoff, before the jitter, which takes up to half of it away.  *)

doubled[attempt \in Nat \ {0}] ==
  IF attempt = 1 THEN BaseSeconds
  ELSE Min({2 * doubled[attempt - 1], MaxBackoffSeconds})

NoCap(attempt)   == BaseSeconds * 2 ^ (attempt - 1)   \* mutant
NextDelay(attempt) == doubled[attempt + 1]   \* mutant: the delay after the next attempt
Backoff(attempt) == doubled[attempt]
=============================================================================
