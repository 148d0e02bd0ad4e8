------------------------ MODULE TrackerSessionProofs ------------------------
(***************************************************************************)
(* Theorems about TrackerSession, for every number of concurrent searches  *)
(* and every bound on lost sessions and failed requests.                   *)
(*                                                                         *)
(* SessionInv joins three layers: the types; flights and their leaders,    *)
(* which name each other; and what each search may still rely on, which is *)
(* a session that was there after it began unless the tracker dropped it.  *)
(***************************************************************************)
EXTENDS TrackerSession, FiniteSetTheorems, TLAPS

Shape ==
  /\ session \in BOOLEAN /\ accepts \in BOOLEAN
  /\ expiries \in 0..MaxExpiries /\ faults \in 0..MaxFaults /\ posts \in Nat
  /\ search \in [Searches -> SearchState]
  /\ flight \in [Keys -> Searches \cup {NoSearch}]

\* A flight and its leader name each other, and passengers have a leader.
Led ==
  /\ \A s \in Searches :
       /\ search[s].at = "wait" => flight[search[s].via] \in Searches
       /\ search[s].at \in Leading => flight[search[s].via] = s
  /\ \A k \in Keys : flight[k] \in Searches =>
       search[flight[k]].at \in Leading /\ search[flight[k]].via = k

\* Was there a session since the search began, which the tracker may still know?
Relies(r) == r.at \in {"verify", "again"}

Excused(s) == ~accepts \/ expiries > search[s].since

\* What a search makes of the last page it was shown.
Honest(r) == r.at \in {"download", "saved", "invalid", "nothing"} => r.page # "guest"

Trust ==
  \A s \in Searches :
    /\ search[s].since <= expiries
    /\ Relies(search[s]) => Excused(s) \/ session
    /\ search[s].at = "refused" => Excused(s) \/ search[s].page = "unclear"
    /\ Honest(search[s])

SessionInv == Shape /\ Led /\ Trust

USE DEF Keys, Leading, Alone, Failures, Ended, Pages, SearchState

\* No flight is under way and nobody relies on anything.
LEMMA SessionInit == TrackerInit => SessionInv
<1> SUFFICES ASSUME TrackerInit PROVE SessionInv
  OBVIOUS
<1>1. \A s \in Searches : search[s].at = "new" /\ search[s].since = 0
  BY DEF TrackerInit
<1>2. 0 \in 0 .. MaxExpiries /\ 0 \in 0 .. MaxFaults
  BY TrackerAssumption
<1>3. Shape
  BY <1>2 DEF TrackerInit, Shape
<1>4. Led /\ Trust
  BY <1>1, TrackerAssumption DEF TrackerInit, Led, Trust, Relies, Honest
<1> QED BY <1>3, <1>4 DEF SessionInv

-----------------------------------------------------------------------------
(* The moves of a search, one lemma each.                                  *)

\* Do: a search that is in no flight leads one, or boards it.
LEMMA JoinKeeps ==
  ASSUME SessionInv, NEW s \in Searches, search[s].at \in {"new", "reply"},
         NEW k \in Keys, NEW first \in {"check", "post"}, NEW since \in 0 .. expiries,
         Join(s, k, first, since), UNCHANGED <<session, accepts, expiries, faults, posts>>
  PROVE  SessionInv'
<1>1. search' \in [Searches -> SearchState] /\ flight' \in [Keys -> Searches \cup {NoSearch}]
  <2>1. since \in 0 .. MaxExpiries
    BY TrackerAssumption DEF SessionInv, Shape
  <2> DEFINE at == IF flight[k] = NoSearch THEN first ELSE "wait"
             r  == [at |-> at, via |-> k, ctx |-> search[s].ctx, page |-> search[s].page,
                    since |-> since]
  <2>2. s \in DOMAIN search /\ search[s] \in SearchState
    BY DEF SessionInv, Shape
  <2>3. search' = [search EXCEPT ![s] = r]
    <3> DEFINE y == [search[s] EXCEPT !.at = at]
               z == [y EXCEPT !.via = k]
    <3>1. y = [at |-> at, via |-> search[s].via, ctx |-> search[s].ctx,
               page |-> search[s].page, since |-> search[s].since]
      BY <2>2
    <3>2. search' = [search EXCEPT ![s] = [z EXCEPT !.since = since]]
      BY Zenon DEF Join
    <3> HIDE DEF y
    <3>3. z = [at |-> at, via |-> k, ctx |-> search[s].ctx,
               page |-> search[s].page, since |-> search[s].since]
      BY <3>1
    <3> HIDE DEF z
    <3>4. [z EXCEPT !.since = since] = r
      BY <3>3
    <3> QED BY <3>2, <3>4
  <2>4. r \in SearchState
    BY <2>1, <2>2
  <2> HIDE DEF r, SearchState
  <2>5. search' \in [Searches -> SearchState]
    BY <2>3, <2>4 DEF SessionInv, Shape
  <2>6. flight' \in [Keys -> Searches \cup {NoSearch}]
    BY DEF Join, SessionInv, Shape
  <2> QED BY <2>5, <2>6
<1>2. /\ search'[s].at = IF flight[k] = NoSearch THEN first ELSE "wait"
      /\ search'[s].via = k /\ search'[s].since = since
      /\ \A t \in Searches \ {s} : search'[t] = search[t]
      /\ flight' = IF flight[k] = NoSearch THEN [flight EXCEPT ![k] = s] ELSE flight
  BY DEF Join, SessionInv, Shape
<1>3. Shape'
  BY <1>1 DEF SessionInv, Shape
<1>4. Led'
  BY <1>2, TrackerAssumption DEF SessionInv, Shape, Led
<1>5. Trust'
  BY <1>2, TrackerAssumption DEF SessionInv, Shape, Trust, Relies, Honest, Excused
<1> QED BY <1>3, <1>4, <1>5 DEF SessionInv

\* The leader's result: everybody aboard goes on with it, and excuses are shared.
LEMMA LandKeeps ==
  ASSUME SessionInv, NEW s \in Searches, search[s].at \in Leading,
         NEW at \in {"query", "again", "refused", "transient", "permanent"},
         NEW page \in Pages \cup {"unread"}, Land(s, at, page),
         at = "again" => session',
         at = "refused" => Excused(s) \/ page = "unclear",
         session' \in BOOLEAN, faults' \in 0..MaxFaults, session => session',
         UNCHANGED <<accepts, expiries, posts>>
  PROVE  SessionInv'
<1> DEFINE k == search[s].via
<1>1. k \in Keys /\ flight[k] = s
  BY DEF SessionInv, Shape, Led
<1> DEFINE earlier(t) == IF search[s].since < search[t].since THEN search[s].since
                                                              ELSE search[t].since
           landed(t)  == [at |-> at, via |-> search[t].via, ctx |-> search[t].ctx,
                          page |-> page, since |-> earlier(t)]
<1>2. /\ \A t \in Aboard(k) : search'[t] = landed(t)
      /\ \A t \in Searches \ Aboard(k) : search'[t] = search[t]
      /\ DOMAIN search' = Searches /\ search' = [t \in Searches |-> search'[t]]
      /\ flight' = [flight EXCEPT ![k] = NoSearch]
  <2>1. \A t \in Searches : search[t] \in SearchState
    BY DEF SessionInv, Shape
  <2>2. \A t \in Aboard(k) : search'[t] =
          [search[t] EXCEPT !.at = at, !.page = page,
             !.since = IF search[s].since < @ THEN search[s].since ELSE @]
    BY DEF Land, Aboard
  <2>3. \A t \in Aboard(k) : t \in Searches
    BY DEF Aboard
  <2>4. \A t \in Aboard(k) : search'[t] = landed(t)
    <3> SUFFICES ASSUME NEW t \in Aboard(k) PROVE search'[t] = landed(t)
      OBVIOUS
    <3> DEFINE x == [search[t] EXCEPT !.at = at]
               y == [x EXCEPT !.page = page]
    <3>1. x = [at |-> at, via |-> search[t].via, ctx |-> search[t].ctx,
               page |-> search[t].page, since |-> search[t].since]
      BY <2>1, <2>3
    <3>2. search'[t] = [y EXCEPT !.since = earlier(t)]
      BY <2>2, Zenon
    <3> HIDE DEF x
    <3>3. y = [at |-> at, via |-> search[t].via, ctx |-> search[t].ctx,
               page |-> page, since |-> search[t].since]
      BY <3>1
    <3> HIDE DEF y
    <3> QED BY <3>2, <3>3
  <2>5. /\ \A t \in Searches \ Aboard(k) : search'[t] = search[t]
        /\ DOMAIN search' = Searches
        /\ flight' = [flight EXCEPT ![k] = NoSearch]
    BY DEF Land
  <2>6. search' = [t \in Searches |-> search'[t]]
    BY DEF Land
  <2> HIDE DEF landed
  <2> QED BY <2>4, <2>5, <2>6
<1>3. \A t \in Aboard(k) :
        /\ search'[t].at = at /\ search'[t].via = k /\ search'[t].page = page
        /\ search'[t].since <= search[s].since /\ search'[t].since <= search[t].since
        /\ search'[t].since \in 0 .. MaxExpiries
        /\ search'[t] \in SearchState
  <2> SUFFICES ASSUME NEW t \in Aboard(k)
      PROVE  /\ search'[t].at = at /\ search'[t].via = k /\ search'[t].page = page
             /\ search'[t].since <= search[s].since /\ search'[t].since <= search[t].since
             /\ search'[t].since \in 0 .. MaxExpiries
             /\ search'[t] \in SearchState
    OBVIOUS
  <2>1. /\ t \in Searches /\ search[t].via = k
        /\ search[t] \in SearchState /\ search[s] \in SearchState
    BY DEF Aboard, SessionInv, Shape
  <2>2. /\ earlier(t) <= search[s].since /\ earlier(t) <= search[t].since
        /\ earlier(t) \in 0 .. MaxExpiries
    BY <2>1, TrackerAssumption
  <2>3. /\ landed(t).at = at /\ landed(t).via = k /\ landed(t).page = page
        /\ landed(t).since = earlier(t) /\ landed(t) \in SearchState
    BY <2>1, <2>2
  <2>4. search'[t] = landed(t)
    BY <1>2
  <2> HIDE DEF landed, earlier, SearchState
  <2> QED BY <2>2, <2>3, <2>4
<1>4. Shape'
  <2>1. search' \in [Searches -> SearchState]
    <3>1. \A t \in Searches : search'[t] \in SearchState
      BY <1>2, <1>3 DEF SessionInv, Shape
    <3> QED BY <1>2, <3>1
  <2>2. flight' \in [Keys -> Searches \cup {NoSearch}]
    BY <1>2 DEF SessionInv, Shape
  <2> QED BY <2>1, <2>2 DEF SessionInv, Shape
<1>5. Led'
  <2>1. \A t \in Searches \ Aboard(k) :
          search[t].at \in Leading \cup {"wait"} => search[t].via # k
    BY DEF Aboard
  <2>2. \A t \in Searches : search'[t].at \in Leading \cup {"wait"} =>
          /\ t \notin Aboard(k) /\ search'[t] = search[t]
          /\ search[t].via # k /\ flight'[search[t].via] = flight[search[t].via]
    BY <1>2, <1>3, <2>1 DEF SessionInv, Shape
  <2>3. ASSUME NEW j \in Keys, flight'[j] \in Searches
        PROVE  search'[flight'[j]].at \in Leading /\ search'[flight'[j]].via = j
    <3>1. j # k /\ flight'[j] = flight[j]
      BY <1>2, <2>3, TrackerAssumption DEF SessionInv, Shape
    <3>2. search[flight[j]].at \in Leading /\ search[flight[j]].via = j
      BY <2>3, <3>1 DEF SessionInv, Led
    <3>3. flight[j] \in Searches \ Aboard(k)
      BY <2>3, <3>1, <3>2 DEF Aboard
    <3> QED BY <1>2, <3>1, <3>2, <3>3
  <2> QED BY <2>2, <2>3 DEF SessionInv, Led
<1>6. Trust'
  <2>0. /\ \A t \in Searches : search[t].since \in Nat
        /\ \A t \in Aboard(k) : t \in Searches /\ search'[t].since \in Nat
        /\ expiries \in Nat
    BY <1>3, TrackerAssumption DEF Aboard, SessionInv, Shape
  <2>1. \A t \in Aboard(k) : search'[t].since <= expiries
    BY <1>3, <2>0 DEF SessionInv, Trust
  <2>2. \A t \in Aboard(k) : at = "refused" => Excused(t)' \/ search'[t].page = "unclear"
    BY <1>3, <2>0 DEF Excused
  <2>3. \A t \in Searches \ Aboard(k) : search'[t] = search[t]
    BY <1>2
  <2> QED BY <1>3, <2>1, <2>2, <2>3 DEF Aboard, SessionInv, Shape, Trust, Relies, Honest, Excused
<1> QED BY <1>4, <1>5, <1>6 DEF SessionInv

\* A step of a search that boards nothing and lands nothing: a leader stays one, and a
\* search on its own stays alone.
LEMMA MoveKeeps ==
  ASSUME SessionInv, NEW s \in Searches, NEW r \in SearchState,
         search' = [search EXCEPT ![s] = r],
         r.via = search[s].via, r.since = search[s].since,
         \/ search[s].at \in Leading /\ r.at \in Leading
         \/ search[s].at \notin Leading \cup {"wait"} /\ r.at \notin Leading \cup {"wait"}
         \/ r.at = search[s].at,
         Relies(r) => Excused(s) \/ session',
         r.at = "refused" => Excused(s) \/ r.page = "unclear",
         Honest(r),
         session' \in BOOLEAN, faults' \in 0..MaxFaults, posts' \in Nat, session => session',
         UNCHANGED <<accepts, expiries, flight>>
  PROVE  SessionInv'
<1>1. /\ search'[s] = r
      /\ \A t \in Searches \ {s} : search'[t] = search[t]
      /\ search' \in [Searches -> SearchState]
  BY DEF SessionInv, Shape
<1>2. Shape'
  BY <1>1 DEF SessionInv, Shape
<1>3. Led'
  BY <1>1 DEF SessionInv, Shape, Led
<1>4. Trust'
  BY <1>1 DEF SessionInv, Shape, Trust, Excused
<1> QED BY <1>2, <1>3, <1>4 DEF SessionInv

\* The same for a step that only moves the search on.
LEMMA GotoKeeps ==
  ASSUME SessionInv, NEW s \in Searches,
         NEW at \in {"post", "verify", "download", "nothing", "saved", "invalid"},
         Goto(s, at),
         search[s].at \in Leading <=> at \in Leading,
         search[s].at # "wait",
         at = "verify" => Excused(s) \/ session',
         at \in {"download", "nothing", "saved", "invalid"} => search[s].page # "guest",
         session' \in BOOLEAN, faults' \in 0..MaxFaults, posts' \in Nat, session => session',
         UNCHANGED <<accepts, expiries, flight>>
  PROVE  SessionInv'
<1> DEFINE r == [search[s] EXCEPT !.at = at]
<1>1. search[s] \in SearchState /\ s \in DOMAIN search
  BY DEF SessionInv, Shape
<1>2. r = [at |-> at, via |-> search[s].via, ctx |-> search[s].ctx,
           page |-> search[s].page, since |-> search[s].since]
  BY <1>1
<1>3. search' = [search EXCEPT ![s] = r]
  BY Zenon DEF Goto
<1> HIDE DEF r
<1>4. /\ r \in SearchState /\ r.at = at /\ r.via = search[s].via
      /\ r.page = search[s].page /\ r.since = search[s].since
  BY <1>1, <1>2
<1>5. (Relies(r) => Excused(s) \/ session') /\ Honest(r)
  BY <1>4 DEF Relies, Honest
<1> QED BY <1>3, <1>4, <1>5, MoveKeeps

\* The same for a search on its own that was shown a page, or got none.
LEMMA GotoWithKeeps ==
  ASSUME SessionInv, NEW s \in Searches, search[s].at \in Alone,
         NEW at \in {"reply"} \cup Ended \cup {"download"}, NEW page \in Pages \cup {"unread"},
         GotoWith(s, at, page),
         Relies([at |-> at, page |-> page]) => Excused(s) \/ session',
         at = "refused" => Excused(s) \/ page = "unclear",
         Honest([at |-> at, page |-> page]),
         session' \in BOOLEAN, faults' \in 0..MaxFaults, session => session',
         UNCHANGED <<accepts, expiries, posts, flight>>
  PROVE  SessionInv'
<1> DEFINE r == [at |-> at, via |-> search[s].via, ctx |-> search[s].ctx,
                 page |-> page, since |-> search[s].since]
           y == [search[s] EXCEPT !.at = at]
<1>1. search[s] \in SearchState /\ s \in DOMAIN search
  BY DEF SessionInv, Shape
<1>2. search' = [search EXCEPT ![s] = r]
  <2>1. y = [at |-> at, via |-> search[s].via, ctx |-> search[s].ctx,
             page |-> search[s].page, since |-> search[s].since]
    BY <1>1
  <2>2. search' = [search EXCEPT ![s] = [y EXCEPT !.page = page]]
    BY Zenon DEF GotoWith
  <2> HIDE DEF y
  <2>3. [y EXCEPT !.page = page] = r
    BY <2>1
  <2> QED BY <2>2, <2>3
<1>3. /\ r \in SearchState /\ r.at = at /\ r.via = search[s].via
      /\ r.page = page /\ r.since = search[s].since
  BY <1>1
<1> HIDE DEF r
<1>4. (Relies(r) => Excused(s) \/ session') /\ Honest(r)
  BY <1>3 DEF Relies, Honest
<1>5. posts' \in Nat
  BY DEF SessionInv, Shape
<1>6. search[s].at \notin Leading \cup {"wait"} /\ r.at \notin Leading \cup {"wait"}
  BY <1>3
<1> HIDE DEF SearchState
<1> QED BY <1>2, <1>3, <1>4, <1>5, <1>6, MoveKeeps

-----------------------------------------------------------------------------
(* The actions.                                                            *)

\* Search up to EnsureSession, and the forced login.
LEMMA JoinSteps ==
  ASSUME SessionInv, NEW s \in Searches,
         \/ Start(s)
         \/ Reply(s) /\ Join(s, "login", "post", search[s].since)
  PROVE  SessionInv'
<1>1. CASE Start(s)
  <2>1. expiries \in 0 .. expiries
    BY TrackerAssumption DEF SessionInv, Shape
  <2> QED BY <1>1, <2>1, JoinKeeps DEF Start, May
<1>2. CASE Reply(s) /\ Join(s, "login", "post", search[s].since)
  <2>1. search[s].since \in 0 .. expiries
    BY TrackerAssumption DEF SessionInv, Shape, Trust
  <2> QED BY <1>2, <2>1, JoinKeeps DEF Reply, May
<1> QED BY <1>1, <1>2

\* A page comes from the session there is, or from none.
LEMMA AnswerIsHonest ==
  ASSUME SessionInv, NEW page \in Pages, Answer(page)
  PROVE  /\ faults' \in 0..MaxFaults
         /\ page = "member" => session
         /\ page = "guest" => ~session
BY TrackerAssumption DEF Answer, SessionInv, Shape

\* The steps of a flight.
LEMMA FlightSteps ==
  ASSUME SessionInv, NEW s \in Searches, Check(s) \/ Post(s) \/ Verify(s)
  PROVE  SessionInv'
<1>1. /\ session \in BOOLEAN /\ accepts \in BOOLEAN
      /\ faults \in 0..MaxFaults /\ posts \in Nat
      /\ Onward(s) \in {"query", "again"}
  BY DEF SessionInv, Shape, Onward
<1>2. CASE Check(s)
  <2>1. PICK page \in Pages :
          /\ Answer(page)
          /\ IF page = "member" THEN Land(s, Onward(s), page) ELSE Goto(s, "post") /\ UNCHANGED flight
    BY <1>2 DEF Check
  <2>2. search[s].at = "check" /\ UNCHANGED <<session, accepts, expiries, posts>>
    BY <1>2 DEF Check, May
  <2>3. faults' \in 0..MaxFaults /\ (page = "member" => session)
    BY <2>1, AnswerIsHonest
  <2>4. CASE page = "member"
    BY <1>1, <2>1, <2>2, <2>3, <2>4, LandKeeps
  <2>5. CASE page # "member"
    BY <1>1, <2>1, <2>2, <2>3, <2>5, GotoKeeps
  <2> QED BY <2>4, <2>5
<1>3. CASE Post(s)
  BY <1>1, <1>3, GotoKeeps DEF Post, May, Excused
<1>4. CASE Verify(s)
  <2>1. PICK page \in Pages :
          Answer(page) /\ Land(s, IF page = "member" THEN Onward(s) ELSE "refused", page)
    BY <1>4 DEF Verify
  <2>2. search[s].at = "verify" /\ UNCHANGED <<session, accepts, expiries, posts>>
    BY <1>4 DEF Verify, May
  <2>3. /\ faults' \in 0..MaxFaults /\ (page = "member" => session)
        /\ page = "guest" => ~session
    BY <2>1, AnswerIsHonest
  <2>4. Excused(s) \/ session
    BY <2>2 DEF SessionInv, Trust, Relies
  <2>5. CASE page = "member"
    BY <1>1, <2>1, <2>2, <2>3, <2>5, LandKeeps
  <2>6. CASE page # "member"
    <3>1. Land(s, "refused", page) /\ (Excused(s) \/ page = "unclear")
      BY <2>1, <2>3, <2>4, <2>6
    <3> QED BY <1>1, <2>2, <2>3, <3>1, LandKeeps
  <2> QED BY <2>5, <2>6
<1> QED BY <1>2, <1>3, <1>4

\* The steps of a search on its own.
LEMMA LoneSteps ==
  ASSUME SessionInv, NEW s \in Searches,
         \/ Query(s) \/ Again(s) \/ Download(s)
         \/ Reply(s) /\ search[s].page # "guest"
  PROVE  SessionInv'
<1>1. /\ session \in BOOLEAN /\ faults \in 0..MaxFaults /\ posts \in Nat
      /\ search[s] \in SearchState
  BY DEF SessionInv, Shape
<1>2. Relies(search[s]) => Excused(s) \/ session
  BY DEF SessionInv, Trust
<1>3. ASSUME Query(s) \/ Again(s) PROVE SessionInv'
  <2>1. PICK page \in Pages, at \in {"reply", "refused", "download", "nothing"} :
          /\ Answer(page) /\ GotoWith(s, at, page)
          /\ \/ search[s].at = "query" /\ at = "reply"
             \/ search[s].at = "again" /\ page = "guest" /\ at = "refused"
             \/ search[s].at = "again" /\ page # "guest" /\ at \in {"download", "nothing"}
    BY <1>3 DEF Query, Again, May, Found
  <2>2. UNCHANGED <<session, accepts, expiries, posts, flight>>
    BY <1>3 DEF Query, Again
  <2>3. /\ faults' \in 0..MaxFaults /\ (page = "member" => session)
        /\ page = "guest" => ~session
    BY <2>1, AnswerIsHonest
  <2>4. search[s].at = "again" => Excused(s) \/ session
    BY <1>2 DEF Relies
  <2>5. /\ Relies([at |-> at, page |-> page]) => Excused(s) \/ session'
        /\ at = "refused" => Excused(s) \/ page = "unclear"
        /\ Honest([at |-> at, page |-> page])
    BY <2>1, <2>2, <2>3, <2>4 DEF Relies, Honest
  <2> QED BY <1>1, <2>1, <2>2, <2>3, <2>5, GotoWithKeeps
<1>4. CASE Reply(s) /\ search[s].page # "guest"
  <2>1. PICK at \in {"download", "nothing"} : Goto(s, at)
    BY <1>4 DEF Reply, Found
  <2>2. UNCHANGED <<session, accepts, expiries, faults, posts, flight>> /\ search[s].at = "reply"
    BY <1>4 DEF Reply, May
  <2> QED BY <1>1, <1>4, <2>1, <2>2, GotoKeeps
<1>5. CASE Download(s)
  <2>1. PICK at \in {"saved", "invalid"} : Goto(s, at)
    BY <1>5 DEF Download
  <2>2. UNCHANGED <<session, accepts, expiries, faults, posts, flight>> /\ search[s].at = "download"
    BY <1>5 DEF Download, May
  <2>3. search[s].page # "guest"
    BY <2>2 DEF SessionInv, Trust, Honest
  <2> QED BY <1>1, <2>1, <2>2, <2>3, GotoKeeps
<1> QED BY <1>3, <1>4, <1>5

\* A request that fails, and a context that ends.
LEMMA FaultSteps ==
  ASSUME SessionInv, NEW s \in Searches, RequestFails(s) \/ ContextEnds(s)
  PROVE  SessionInv'
<1>1. /\ session \in BOOLEAN /\ accepts \in BOOLEAN
      /\ faults \in 0..MaxFaults /\ posts \in Nat
      /\ search[s] \in SearchState /\ s \in DOMAIN search
  BY DEF SessionInv, Shape
<1>2. CASE RequestFails(s)
  <2>1. session' \in BOOLEAN /\ (session => session') /\ UNCHANGED <<accepts, expiries, posts>>
    BY <1>1, <1>2 DEF RequestFails
  <2>2. faults' \in 0..MaxFaults
    BY <1>1, <1>2, TrackerAssumption DEF RequestFails
  <2>3. PICK at \in {"transient", "permanent"} :
          IF search[s].at \in Leading THEN Land(s, at, "unread")
                                      ELSE GotoWith(s, at, "unread") /\ UNCHANGED flight
    BY <1>2 DEF RequestFails
  <2>4. CASE search[s].at \in Leading
    BY <2>1, <2>2, <2>3, <2>4, LandKeeps
  <2>5. CASE search[s].at \notin Leading
    <3>1. search[s].at \in Alone
      BY <1>2, <2>5 DEF RequestFails
    <3>2. ~Relies([at |-> at, page |-> "unread"]) /\ Honest([at |-> at, page |-> "unread"])
      BY <2>3 DEF Relies, Honest
    <3> QED BY <2>1, <2>2, <2>3, <2>5, <3>1, <3>2, GotoWithKeeps
  <2> QED BY <2>4, <2>5
<1>3. CASE ContextEnds(s)
  <2> DEFINE r == [search[s] EXCEPT !.ctx = FALSE]
  <2>2. search' = [search EXCEPT ![s] = r]
    BY <1>3, Zenon DEF ContextEnds
  <2>3. /\ r \in SearchState /\ r.at = search[s].at /\ r.via = search[s].via
        /\ r.page = search[s].page /\ r.since = search[s].since
    BY <1>1
  <2> HIDE DEF r
  <2>4. /\ session' \in BOOLEAN /\ posts' \in Nat /\ faults' \in 0..MaxFaults
        /\ UNCHANGED <<session, accepts, expiries, flight>>
    BY <1>1, <1>3, TrackerAssumption DEF ContextEnds
  <2>5. /\ Relies(r) => Excused(s) \/ session'
        /\ r.at = "refused" => Excused(s) \/ r.page = "unclear"
        /\ Honest(r)
    BY <2>3, <2>4 DEF SessionInv, Trust, Relies, Honest
  <2> QED BY <2>2, <2>3, <2>4, <2>5, MoveKeeps
<1> QED BY <1>2, <1>3

\* A dropped session excuses every search that is under way.
LEMMA ExpireStep == SessionInv /\ Expire => SessionInv'
<1> SUFFICES ASSUME SessionInv, Expire PROVE SessionInv'
  OBVIOUS
<1>1. Shape'
  <2>1. expiries' \in 0..MaxExpiries
    BY TrackerAssumption DEF Expire, SessionInv, Shape
  <2> HIDE DEF SearchState, Keys
  <2> QED BY <2>1 DEF Expire, SessionInv, Shape
<1>2. Led'
  BY DEF Expire, SessionInv, Led
<1>3. \A s \in Searches : search[s].since \in Nat /\ expiries \in Nat
  BY TrackerAssumption DEF SessionInv, Shape
<1>4. Trust'
  BY <1>3 DEF Expire, SessionInv, Trust, Excused
<1> QED BY <1>1, <1>2, <1>4 DEF SessionInv

\* So every step keeps the invariant.
LEMMA SessionStep == SessionInv /\ [TrackerNext]_vars => SessionInv'
<1> SUFFICES ASSUME SessionInv, [TrackerNext]_vars PROVE SessionInv'
  OBVIOUS
<1>1. CASE Expire
  BY <1>1, ExpireStep
<1>2. ASSUME NEW s \in Searches, SearchStep(s) \/ ContextEnds(s) PROVE SessionInv'
  <2>1. Reply(s) => \/ Reply(s) /\ Join(s, "login", "post", search[s].since)
                    \/ Reply(s) /\ search[s].page # "guest"
    BY DEF Reply
  <2> QED BY <1>2, <2>1, JoinSteps, FlightSteps, LoneSteps, FaultSteps DEF SearchStep
<1>3. CASE UNCHANGED vars
  BY <1>3 DEF vars, SessionInv, Shape, Led, Trust, Excused
<1> QED BY <1>1, <1>2, <1>3 DEF TrackerNext

\* Flights and their leaders always name each other, and what a search relies on was
\* there after it began.
THEOREM SessionCorrect == TrackerSpec => []SessionInv
BY SessionInit, SessionStep, PTL DEF TrackerSpec

\* Nobody waits for a flight that nobody flies (singleflight, EnsureSession, login).
THEOREM WaitersAreLed == TrackerSpec => []FlightsAreLed
<1>1. SessionInv => FlightsAreLed
  BY DEF SessionInv, Shape, Led, FlightsAreLed
<1> QED BY <1>1, SessionCorrect, PTL

\* Neither a release nor "no matching release" is ever read off the page of a lost
\* session (Search, looksLoggedOut).
THEOREM GuestsAreTurnedAway == TrackerSpec => []GuestsGetNoAnswer
<1>1. SessionInv => GuestsGetNoAnswer
  BY DEF SessionInv, Trust, Honest, GuestsGetNoAnswer
<1> QED BY <1>1, SessionCorrect, PTL

\* A search is refused only over bad credentials, a session the tracker dropped while
\* it, or a search whose login it shared, was under way, or a login whose page does not
\* show one marker of the two.
THEOREM RefusalsAreJustified == TrackerSpec => []RefusedForAReason
<1>1. SessionInv => RefusedForAReason
  BY DEF SessionInv, Trust, Excused, RefusedForAReason
<1> QED BY <1>1, SessionCorrect, PTL

-----------------------------------------------------------------------------
(* How often a search logs in.                                             *)

\* May the search still send its first form, to get a session; its last one, when the
\* session is lost under it?
FirstLogin(r) == \/ r.at = "new"
                 \/ r.at \in {"check", "post", "wait"} /\ r.via = "session"
LastLogin(r)  == \/ r.at \in {"new", "check", "post", "wait", "query", "reply"}
                 \/ r.at = "verify" /\ r.via = "session"

First == {s \in Searches : FirstLogin(search[s])}
Last  == {s \in Searches : LastLogin(search[s])}

\* Every form that was sent is a login that some search no longer has in front of it.
LoginsLeft == posts + Cardinality(First) + Cardinality(Last) <= 2 * Cardinality(Searches)

\* Whoever is aboard goes on where the leader's result says, the others stay.
LEMMA LandMoves ==
  ASSUME Shape, NEW s \in Searches, NEW at, NEW page, Land(s, at, page), NEW t \in Searches
  PROVE  IF t \in Aboard(search[s].via) THEN search'[t].at = at /\ search'[t].via = search[t].via
                                        ELSE search'[t] = search[t]
<1>1. search[t] \in SearchState
  BY DEF Shape
<1>2. PICK since : search'[t] = IF t \in Aboard(search[s].via)
                                THEN [search[t] EXCEPT !.at = at, !.page = page, !.since = since]
                                ELSE search[t]
  <2>1. search'[t] = IF t \in Aboard(search[s].via)
                     THEN [search[t] EXCEPT !.at = at, !.page = page,
                             !.since = IF search[s].since < search[t].since
                                       THEN search[s].since ELSE search[t].since]
                     ELSE search[t]
    BY DEF Land
  <2> QED BY <2>1
<1>3. CASE t \in Aboard(search[s].via)
  <2> DEFINE x == [search[t] EXCEPT !.at = at]
             y == [x EXCEPT !.page = page]
  <2>1. x = [at |-> at, via |-> search[t].via, ctx |-> search[t].ctx,
             page |-> search[t].page, since |-> search[t].since]
    BY <1>1
  <2>2. search'[t] = [y EXCEPT !.since = since]
    BY <1>2, <1>3, Zenon
  <2> HIDE DEF x
  <2>3. y = [at |-> at, via |-> search[t].via, ctx |-> search[t].ctx,
             page |-> page, since |-> search[t].since]
    BY <2>1
  <2> HIDE DEF y
  <2>4. search'[t] = [at |-> at, via |-> search[t].via, ctx |-> search[t].ctx,
                      page |-> page, since |-> since]
    BY <2>2, <2>3
  <2> QED BY <1>3, <2>4
<1>4. CASE t \notin Aboard(search[s].via)
  BY <1>2, <1>4
<1> QED BY <1>3, <1>4

NoneRegained ==
  \A t \in Searches : /\ FirstLogin(search'[t]) => FirstLogin(search[t])
                      /\ LastLogin(search'[t]) => LastLogin(search[t])

\* Nobody gets a login back, and who sends a form gives one up.
LEMMA LoginsOnlySpent ==
  ASSUME SessionInv, [TrackerNext]_vars
  PROVE  /\ NoneRegained
         /\ \/ posts' = posts
            \/ /\ posts' = posts + 1
               /\ \E s \in Searches : \/ FirstLogin(search[s]) /\ ~FirstLogin(search'[s])
                                      \/ LastLogin(search[s]) /\ ~LastLogin(search'[s])
<1>1. Shape /\ \A t \in Searches : search[t] \in SearchState /\ search[t].via \in Keys
  BY DEF SessionInv, Shape
<1>2. ASSUME NEW s \in Searches, search'[s].via = search[s].via,
             \A t \in Searches \ {s} : search'[t] = search[t],
             \/ search'[s].at \in Ended \cup {"download", "again"}
             \/ search'[s].at = search[s].at
             \/ search[s].at = "query" /\ search'[s].at = "reply"
             \/ search[s].at = "check" /\ search'[s].at = "post"
      PROVE  NoneRegained
  BY <1>1, <1>2 DEF NoneRegained, FirstLogin, LastLogin
<1>3. ASSUME NEW s \in Searches, NEW page,
             NEW at \in {Onward(s), "refused", "transient", "permanent"}, Land(s, at, page)
      PROVE  NoneRegained
  <2> SUFFICES ASSUME NEW t \in Searches
               PROVE  /\ FirstLogin(search'[t]) => FirstLogin(search[t])
                      /\ LastLogin(search'[t]) => LastLogin(search[t])
    BY DEF NoneRegained
  <2>1. CASE t \in Aboard(search[s].via)
    <3>1. search'[t].at = at /\ search'[t].via = search[t].via
      BY <1>1, <1>3, <2>1, LandMoves
    <3>2. search[t].via = search[s].via /\ search[t].at \in Leading \cup {"wait"}
      BY <2>1 DEF Aboard
    <3> QED BY <3>1, <3>2 DEF Onward, FirstLogin, LastLogin
  <2>2. CASE t \notin Aboard(search[s].via)
    <3>1. search'[t] = search[t]
      BY <1>1, <1>3, <2>2, LandMoves
    <3> QED BY <3>1
  <2> QED BY <2>1, <2>2
<1>4. ASSUME NEW s \in Searches, NEW k \in Keys, NEW first \in {"check", "post"}, NEW since,
             Join(s, k, first, since),
             \/ search[s].at = "new" /\ k = "session"
             \/ search[s].at = "reply" /\ k = "login"
      PROVE  NoneRegained
  <2>1. /\ search'[s].at \in {first, "wait"} /\ search'[s].via = k
        /\ \A t \in Searches \ {s} : search'[t] = search[t]
    BY <1>1, <1>4 DEF Join, Shape
  <2> QED BY <2>1, <1>4 DEF NoneRegained, FirstLogin, LastLogin
<1>5. ASSUME NEW s \in Searches, NEW at, Goto(s, at)
      PROVE  /\ search'[s].at = at /\ search'[s].via = search[s].via
             /\ \A t \in Searches \ {s} : search'[t] = search[t]
  BY <1>1, <1>5 DEF Goto, Shape
<1>6. ASSUME NEW s \in Searches, NEW at, NEW page, GotoWith(s, at, page)
      PROVE  /\ search'[s].at = at /\ search'[s].via = search[s].via
             /\ \A t \in Searches \ {s} : search'[t] = search[t]
  BY <1>1, <1>6 DEF GotoWith, Shape
<1>7. ASSUME NEW s \in Searches, Start(s)
      PROVE  posts' = posts /\ NoneRegained
  BY <1>4, <1>7 DEF Start, May
<1>8. ASSUME NEW s \in Searches, Check(s)
      PROVE  posts' = posts /\ NoneRegained
  <2>1. PICK page \in Pages :
          IF page = "member" THEN Land(s, Onward(s), page) ELSE Goto(s, "post") /\ UNCHANGED flight
    BY <1>8 DEF Check
  <2>2. CASE page = "member"
    BY <1>3, <1>8, <2>1, <2>2 DEF Check
  <2>3. CASE page # "member"
    <3>1. search[s].at = "check" /\ Goto(s, "post")
      BY <1>8, <2>1, <2>3 DEF Check, May
    <3> QED BY <1>2, <1>5, <1>8, <3>1 DEF Check
  <2> QED BY <2>2, <2>3
<1>9. ASSUME NEW s \in Searches, Post(s)
      PROVE  /\ posts' = posts + 1
             /\ \/ FirstLogin(search[s]) /\ ~FirstLogin(search'[s])
                \/ LastLogin(search[s]) /\ ~LastLogin(search'[s])
             /\ NoneRegained
  <2>1. search[s].at = "post" /\ Goto(s, "verify") /\ posts' = posts + 1
    BY <1>9 DEF Post, May
  <2>2. /\ search'[s].at = "verify" /\ search'[s].via = search[s].via
        /\ \A t \in Searches \ {s} : search'[t] = search[t]
    BY <2>1, <1>5
  <2> QED BY <1>1, <2>1, <2>2 DEF NoneRegained, FirstLogin, LastLogin
<1>10. ASSUME NEW s \in Searches, Verify(s)
       PROVE  posts' = posts /\ NoneRegained
  <2>1. PICK page \in Pages : Land(s, IF page = "member" THEN Onward(s) ELSE "refused", page)
    BY <1>10 DEF Verify
  <2> QED BY <1>3, <1>10, <2>1 DEF Verify
<1>11. ASSUME NEW s \in Searches, Query(s) \/ Again(s) \/ Download(s)
       PROVE  posts' = posts /\ NoneRegained
  <2>1. posts' = posts
    BY <1>11 DEF Query, Again, Download
  <2>2. CASE Query(s) \/ Again(s)
    <3>1. PICK at, page : /\ GotoWith(s, at, page)
                          /\ \/ search[s].at = "query" /\ at = "reply"
                             \/ at \in {"refused", "download", "nothing"}
      BY <2>2 DEF Query, Again, May, Found
    <3> QED BY <1>2, <1>6, <2>1, <3>1
  <2>3. CASE Download(s)
    <3>1. PICK at \in {"saved", "invalid"} : Goto(s, at)
      BY <2>3 DEF Download
    <3> QED BY <1>2, <1>5, <2>1, <3>1
  <2> QED BY <1>11, <2>2, <2>3
<1>12. ASSUME NEW s \in Searches, Reply(s)
       PROVE  posts' = posts /\ NoneRegained
  <2>1. search[s].at = "reply" /\ posts' = posts
    BY <1>12 DEF Reply, May
  <2>2. CASE Join(s, "login", "post", search[s].since)
    BY <1>4, <2>1, <2>2
  <2>3. CASE \E at \in Found : Goto(s, at)
    <3>1. PICK at \in {"download", "nothing"} : Goto(s, at)
      BY <2>3 DEF Found
    <3> QED BY <1>2, <1>5, <2>1, <3>1
  <2> QED BY <1>12, <2>2, <2>3 DEF Reply
<1>13. ASSUME NEW s \in Searches, RequestFails(s)
       PROVE  posts' = posts /\ NoneRegained
  <2>1. PICK at \in {"transient", "permanent"} :
          IF search[s].at \in Leading THEN Land(s, at, "unread")
                                      ELSE GotoWith(s, at, "unread") /\ UNCHANGED flight
    BY <1>13 DEF RequestFails
  <2>2. posts' = posts
    BY <1>13 DEF RequestFails
  <2>3. CASE search[s].at \in Leading
    BY <1>3, <2>1, <2>2, <2>3
  <2>4. CASE search[s].at \notin Leading
    <3>1. GotoWith(s, at, "unread") /\ at \in Ended
      BY <2>1, <2>4
    <3> QED BY <1>2, <1>6, <2>2, <3>1
  <2> QED BY <2>3, <2>4
<1>14. ASSUME NEW s \in Searches, ContextEnds(s)
       PROVE  posts' = posts /\ NoneRegained
  <2>1. /\ search'[s].at = search[s].at /\ search'[s].via = search[s].via
        /\ \A t \in Searches \ {s} : search'[t] = search[t]
    BY <1>1, <1>14 DEF ContextEnds, Shape
  <2> QED BY <1>2, <1>14, <2>1 DEF ContextEnds
<1>15. CASE Expire \/ UNCHANGED vars
  BY <1>15 DEF NoneRegained, Expire, vars
<1> QED BY <1>7, <1>8, <1>9, <1>10, <1>11, <1>12, <1>13, <1>14, <1>15 DEF TrackerNext, SearchStep

\* So the logins that are left and those that were made stay within two for each search.
LEMMA LoginsLeftAlways == TrackerSpec => []LoginsLeft
<1>1. TrackerInit => LoginsLeft
  <2> SUFFICES ASSUME TrackerInit PROVE LoginsLeft
    OBVIOUS
  <2>1. First = Searches /\ Last = Searches
    BY DEF TrackerInit, First, Last, FirstLogin, LastLogin
  <2>2. Cardinality(Searches) \in Nat
    BY SearchesAssumption, FS_CardinalityType
  <2> QED BY <2>1, <2>2 DEF TrackerInit, LoginsLeft
<1>2. SessionInv /\ LoginsLeft /\ [TrackerNext]_vars => LoginsLeft'
  <2> SUFFICES ASSUME SessionInv, LoginsLeft, [TrackerNext]_vars PROVE LoginsLeft'
    OBVIOUS
  <2>1. First' \subseteq First /\ Last' \subseteq Last
    BY LoginsOnlySpent DEF NoneRegained, First, Last
  <2>2. IsFiniteSet(First) /\ IsFiniteSet(Last)
    <3>1. First \subseteq Searches /\ Last \subseteq Searches
      BY DEF First, Last
    <3> QED BY <3>1, SearchesAssumption, FS_Subset
  <2>3. /\ Cardinality(First) \in Nat /\ Cardinality(Last) \in Nat
        /\ Cardinality(First') \in Nat /\ Cardinality(Last') \in Nat
        /\ Cardinality(First') <= Cardinality(First) /\ Cardinality(Last') <= Cardinality(Last)
        /\ First' # First => Cardinality(First') < Cardinality(First)
        /\ Last' # Last => Cardinality(Last') < Cardinality(Last)
    <3>1. IsFiniteSet(First') /\ IsFiniteSet(Last')
      BY <2>1, <2>2, FS_Subset
    <3> QED BY <2>1, <2>2, <3>1, FS_CardinalityType, FS_Subset
  <2>4. posts \in Nat /\ Cardinality(Searches) \in Nat
    BY SearchesAssumption, FS_CardinalityType DEF SessionInv, Shape
  <2>5. CASE posts' = posts
    BY <2>3, <2>4, <2>5 DEF LoginsLeft
  <2>6. CASE posts' = posts + 1 /\ (First' # First \/ Last' # Last)
    BY <2>3, <2>4, <2>6 DEF LoginsLeft
  <2>7. posts' = posts \/ (posts' = posts + 1 /\ (First' # First \/ Last' # Last))
    BY LoginsOnlySpent DEF First, Last
  <2> QED BY <2>5, <2>6, <2>7
<1> QED BY <1>1, <1>2, SessionCorrect, PTL DEF TrackerSpec

\* The client's state keeps its shape, and a search logs in at most twice: once to get a
\* session (EnsureSession), once more when it is lost under it (Search).
THEOREM TwoLoginsASearch == TrackerSpec => []TrackerTypeOK
<1>1. SessionInv /\ LoginsLeft => TrackerTypeOK
  <2> SUFFICES ASSUME SessionInv, LoginsLeft PROVE TrackerTypeOK
    OBVIOUS
  <2>1. First \subseteq Searches /\ Last \subseteq Searches
    BY DEF First, Last
  <2>2. /\ Cardinality(First) \in Nat /\ Cardinality(Last) \in Nat
        /\ Cardinality(Searches) \in Nat
    BY <2>1, SearchesAssumption, FS_Subset, FS_CardinalityType
  <2>3. posts \in 0 .. (2 * Cardinality(Searches))
    BY <2>2 DEF SessionInv, Shape, LoginsLeft
  <2> QED BY <2>3 DEF SessionInv, Shape, TrackerTypeOK
<1> QED BY <1>1, SessionCorrect, LoginsLeftAlways, PTL
=============================================================================
