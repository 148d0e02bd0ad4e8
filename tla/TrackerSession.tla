--------------------------- MODULE TrackerSession ---------------------------
(***************************************************************************)
(* One tracker.Client, shared by every worker: its cookie session, the two *)
(* singleflight keys under which the session is checked and renewed, and   *)
(* the searches and downloads that use it.                                 *)
(*                                                                         *)
(* A search is one worker's Search call followed by the Download of the    *)
(* release it chose.  Each HTTP request is one step, so the session may be *)
(* lost, and other searches may move, between any two requests.            *)
(***************************************************************************)
EXTENDS Naturals, FiniteSets

CONSTANTS Searches,     \* the searches the workers start
          NoSearch,     \* nobody leads the flight
          MaxExpiries,  \* bound: how often the tracker drops the session
          MaxFaults     \* bound: contexts that end, requests that fail on a live one, and
                        \* pages that do not show one login marker of the two

ASSUME TrackerAssumption ==
    /\ NoSearch \notin Searches
    /\ MaxExpiries \in Nat /\ MaxFaults \in Nat
ASSUME SearchesAssumption == IsFiniteSet(Searches)

VARIABLES session,   \* does the tracker still know the client's cookie?
          accepts,   \* does the tracker accept the configured credentials?
          expiries,  \* sessions the tracker has dropped so far
          faults,    \* contexts that ended, requests that failed on a live one, unclear pages
          posts,     \* login forms the tracker has answered
          search,    \* where each search is
          flight     \* the search leading each singleflight key

vars == <<session, accepts, expiries, faults, posts, search, flight>>

Keys == {"session", "login"}

\* Steps run inside a flight, by its leader; and steps a search runs alone.
Leading  == {"check", "post", "verify"}
Alone    == {"query", "again", "download"}
Failures == {"transient", "permanent", "refused", "invalid"}
Ended    == {"saved", "nothing"} \cup Failures

\* What a page shows of the client: the marker of a member, that of a guest, or, which
\* comes to the same for isLoggedIn and for looksLoggedOut, neither (a maintenance page
\* behind a 200) or both.
Pages == {"member", "guest", "unclear"}

\* ctx: the caller's context is alive; page: what the last page showed, its own or
\* that of a flight it shared; since: expiries when it, or such a flight, began.
SearchState ==
    [at    : {"new", "wait", "reply"} \cup Leading \cup Alone \cup Ended,
     via   : Keys,
     ctx   : BOOLEAN,
     page  : Pages \cup {"unread"},
     since : 0..MaxExpiries]

TrackerInit ==
    /\ session = FALSE
    /\ accepts \in BOOLEAN
    /\ expiries = 0 /\ faults = 0 /\ posts = 0
    /\ search = [s \in Searches |->
                   [at |-> "new", via |-> "session", ctx |-> TRUE,
                    page |-> "unread", since |-> 0]]
    /\ flight = [k \in Keys |-> NoSearch]

-----------------------------------------------------------------------------
(* singleflight.Group.                                                     *)

\* Do: the first caller of a key runs the function, starting at `first`; the
\* callers that come before it is done wait for its result.
JoinAsLeader(s, k, first, since) ==
    /\ search' = [search EXCEPT ![s].at = first, ![s].via = k, ![s].since = since]
    /\ flight' = [flight EXCEPT ![k] = s]

Join(s, k, first, since) ==
    LET leads == flight[k] = NoSearch IN
    /\ search' = [search EXCEPT ![s].at = IF leads THEN first ELSE "wait",
                                ![s].via = k, ![s].since = since]
    /\ flight' = IF leads THEN [flight EXCEPT ![k] = s] ELSE flight

Aboard(k) == {s \in Searches : /\ search[s].at \in Leading \cup {"wait"}
                               /\ search[s].via = k}

\* The leader's result, its error included, is the result of every caller.
LandLeaderOnly(s, at, page) ==
    /\ search' = [search EXCEPT ![s].at = at, ![s].page = page]
    /\ flight' = [flight EXCEPT ![search[s].via] = NoSearch]

Land(s, at, page) ==
    /\ search' = [t \in Searches |->
          IF t \in Aboard(search[s].via)
          THEN [search[t] EXCEPT !.at = at, !.page = page,
                   !.since = IF search[s].since < @ THEN search[s].since ELSE @]
          ELSE search[t]]
    /\ flight' = [flight EXCEPT ![search[s].via] = NoSearch]

\* Where the callers of a flight that succeeded go on: Search's first request
\* after EnsureSession, its second one after login.
Onward(s) == IF search[s].via = "session" THEN "query" ELSE "again"

-----------------------------------------------------------------------------
(* Search and Download, request by request.  A request succeeds only while *)
(* its context is alive.                                                   *)

\* The page that answers a request: its markers follow the session, if they are clear.
Answer(page) == \/ page = (IF session THEN "member" ELSE "guest") /\ UNCHANGED faults
                \/ page = "unclear" /\ faults < MaxFaults /\ faults' = faults + 1

May(s, at) == search[s].at = at /\ (at \in Leading \cup Alone => search[s].ctx)

Goto(s, at) == search' = [search EXCEPT ![s].at = at]

GotoWith(s, at, page) == search' = [search EXCEPT ![s].at = at, ![s].page = page]

\* Search up to EnsureSession, which collapses concurrent callers.
Start(s) ==
    /\ May(s, "new")
    /\ Join(s, "session", "check", expiries)
    /\ UNCHANGED <<session, accepts, expiries, faults, posts>>

\* isLoggedIn, first step of the "session" flight: only a member's page will do.
Check(s) ==
    /\ May(s, "check")
    /\ \E page \in Pages :
          /\ Answer(page)
          /\ IF page = "member" THEN Land(s, Onward(s), page) ELSE Goto(s, "post") /\ UNCHANGED flight
    /\ UNCHANGED <<session, accepts, expiries, posts>>

\* performLogin: the tracker answers the form, and the jar takes the cookie.
PostWithoutJar(s) ==
    /\ May(s, "post")
    /\ posts' = posts + 1
    /\ Goto(s, "verify")
    /\ UNCHANGED <<session, accepts, expiries, faults, flight>>

Post(s) ==
    /\ May(s, "post")
    /\ posts' = posts + 1
    /\ session' = (session \/ accepts)
    /\ Goto(s, "verify")
    /\ UNCHANGED <<accepts, expiries, faults, flight>>

\* isLoggedIn again, the last step of performLogin.
VerifyInsists(s) ==
    /\ May(s, "verify")
    /\ IF session THEN Land(s, Onward(s), "member") ELSE Goto(s, "post") /\ UNCHANGED flight
    /\ UNCHANGED <<session, accepts, expiries, faults, posts>>

Verify(s) ==
    /\ May(s, "verify")
    /\ \E page \in Pages :
          Answer(page) /\ Land(s, IF page = "member" THEN Onward(s) ELSE "refused", page)
    /\ UNCHANGED <<session, accepts, expiries, posts>>

\* The result page arrives; what Search makes of it is the next step.
Query(s) ==
    /\ May(s, "query")
    /\ \E page \in Pages :
          Answer(page) /\ GotoWith(s, "reply", page)
    /\ UNCHANGED <<session, accepts, expiries, posts, flight>>

\* parseResults reads releases off a page, or none; it looks at no marker.
Found == {"download", "nothing"}

\* looksLoggedOut, which only a clear page of a guest is, then a forced login that
\* concurrent callers share; or parseResults.
ReplyUnchecked(s) ==
    /\ May(s, "reply")
    /\ \E at \in Found : Goto(s, at)
    /\ UNCHANGED <<session, accepts, expiries, faults, posts, flight>>

Reply(s) ==
    /\ May(s, "reply")
    /\ \/ search[s].page = "guest" /\ Join(s, "login", "post", search[s].since)
       \/ /\ search[s].page # "guest"
          /\ \E at \in Found : Goto(s, at)
          /\ UNCHANGED flight
    /\ UNCHANGED <<session, accepts, expiries, faults, posts>>

\* The repeated search: a page without a session is an error this time.
Again(s) ==
    /\ May(s, "again")
    /\ \E page \in Pages :
          /\ Answer(page)
          /\ \E at \in IF page = "guest" THEN {"refused"} ELSE Found :
                GotoWith(s, at, page)
    /\ UNCHANGED <<session, accepts, expiries, posts, flight>>

\* Download judges the body alone: what is no torrent, is empty or is too large is
\* turned down for good, whether an HTML page took its place because the session is
\* gone or the tracker served it to a member.  There is no second login here.
Download(s) ==
    /\ May(s, "download")
    /\ \E at \in {"saved", "invalid"} : Goto(s, at)
    /\ UNCHANGED <<session, accepts, expiries, faults, posts, flight>>

\* do: the limiter or the request fails because the context ended, or the
\* network or the tracker fails it (httpStatusError tells 5xx, 429 and 408
\* from the rest).  The form may have reached the tracker all the same.
RequestFails(s) ==
    /\ search[s].at \in Leading \cup Alone
    /\ \E at \in {"transient", "permanent"} :
          /\ \/ ~search[s].ctx /\ at = "transient" /\ UNCHANGED faults
             \/ search[s].ctx /\ faults < MaxFaults /\ faults' = faults + 1
          /\ IF search[s].at \in Leading THEN Land(s, at, "unread")
                                         ELSE GotoWith(s, at, "unread") /\ UNCHANGED flight
    /\ session' \in {session, session \/ (accepts /\ search[s].at = "post")}
    /\ UNCHANGED <<accepts, expiries, posts>>

\* The attempt's deadline passes, or the process shuts down.  A caller that
\* waits for a flight does not look at its context.
ContextEnds(s) ==
    /\ search[s].ctx /\ search[s].at \notin Ended \cup {"new"}
    /\ search' = [search EXCEPT ![s].ctx = FALSE]
    /\ faults < MaxFaults /\ faults' = faults + 1
    /\ UNCHANGED <<session, accepts, expiries, posts, flight>>

\* The tracker drops the session.
Expire ==
    /\ session /\ expiries < MaxExpiries
    /\ session' = FALSE /\ expiries' = expiries + 1
    /\ UNCHANGED <<accepts, faults, posts, search, flight>>

SearchStep(s) == \/ Start(s) \/ Check(s) \/ Post(s) \/ Verify(s) \/ Query(s)
                 \/ Reply(s) \/ Again(s) \/ Download(s) \/ RequestFails(s)

TrackerNext == Expire \/ \E s \in Searches : SearchStep(s) \/ ContextEnds(s)

TrackerSpec == TrackerInit /\ [][TrackerNext]_vars

\* Every request ends: the HTTP client has a timeout and no lock is held
\* across one.  Nothing obliges a session or a context to end.
TrackerFairSpec == TrackerSpec /\ \A s \in Searches : WF_vars(SearchStep(s))

-----------------------------------------------------------------------------
(* Properties.                                                             *)

\* The client's state keeps its shape, and a search never logs in more than
\* twice: once to get a session, once more when it is lost under it.
TrackerTypeOK ==
    /\ session \in BOOLEAN /\ accepts \in BOOLEAN
    /\ expiries \in 0..MaxExpiries /\ faults \in 0..MaxFaults
    /\ posts \in 0..(2 * Cardinality(Searches))
    /\ search \in [Searches -> SearchState]
    /\ flight \in [Keys -> Searches \cup {NoSearch}]

\* Whoever waits for the session to be checked or renewed waits for a search
\* that is doing just that, and two searches never do it under one key
\* (EnsureSession, login).
FlightsAreLed ==
    \A s \in Searches :
        /\ search[s].at = "wait" =>
              \E t \in Searches : t = flight[search[s].via] /\ search[t].at \in Leading
        /\ search[s].at \in Leading <=> \E k \in Keys : flight[k] = s

\* What becomes of a search is never read off the page of a lost session: neither a
\* release to download nor "no matching release", which would close the request for
\* good.  Any other page is taken at its word (looksLoggedOut).
GuestsGetNoAnswer ==
    \A s \in Searches :
        search[s].at \in {"download", "saved", "invalid", "nothing"} => search[s].page # "guest"

\* A search is refused only when the tracker rejects the credentials, dropped a
\* session while this search, or one whose login it shared, was going on, or answered
\* that login with an unclear page.
RefusedForAReason ==
    \A s \in Searches :
        search[s].at = "refused" =>
            \/ ~accepts
            \/ expiries > search[s].since
            \/ search[s].page = "unclear"

\* Every search that starts ends, whatever becomes of the search whose login
\* it waits for.
EverySearchEnds ==
    \A s \in Searches : search[s].at # "new" ~> search[s].at \in Ended

\* client.go:6-8, as documented: the session is re-established exactly once
\* each time it is lost, however many searches find it missing (the first
\* login aside, and with credentials the tracker accepts).
OneLoginPerExpiry == accepts => posts <= expiries + 1
=============================================================================
