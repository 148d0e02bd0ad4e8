-------------------------- MODULE TraktSyncProofs --------------------------
(***************************************************************************)
(* Theorems about TraktSync, for every watchlist, every page size and      *)
(* number of pages, every threshold and every bound: types, each movie     *)
(* once, the order of rows and queue, nothing passed over, no false alarm. *)
(*                                                                         *)
(* The first part is about lists of entries: what the loops of collect and *)
(* of the transaction (Keep, Without), a page and the cursor make of them. *)
(* The second part has the invariants, each on top of the one before.      *)
(***************************************************************************)
EXTENDS TraktSync, NumberFacts, SequenceTheorems

\* Each movie once; newest first; oldest first.
Distinct(s) == \A j, k \in DOMAIN s : s[j].movie = s[k].movie => j = k
Falling(s)  == \A j, k \in DOMAIN s : j < k => s[j].at >= s[k].at
Rising(s)   == \A j, k \in DOMAIN s : j < k => s[j].at <= s[k].at

\* t has some of the entries of s, those at the positions `kept`, in their order.
SelectedBy(nth, t, s, kept) ==
  /\ nth \in [DOMAIN t -> kept]
  /\ \A i, j \in DOMAIN t : i < j => nth[i] < nth[j]
  /\ \A k \in kept : \E i \in DOMAIN t : nth[i] = k
  /\ \A i \in DOMAIN t : t[i] = s[nth[i]]

-----------------------------------------------------------------------------
(* Lists of entries.                                                       *)

\* Keep returns the entries it is asked for, once each and in their order.
LEMMA KeepSelects ==
  ASSUME NEW s \in Seq(Entry), NEW kept, kept \subseteq DOMAIN s
  PROVE  /\ Keep(s, kept) \in Seq(Entry)
         /\ \E nth : SelectedBy(nth, Keep(s, kept), s, kept)
<1> DEFINE size == Cardinality(kept)
           Rises(f) == \A i, j \in DOMAIN f : i < j => f[i] < f[j]
           nth == CHOOSE f \in [1 .. size -> kept] : Rises(f)
           t == [i \in DOMAIN nth |-> s[nth[i]]]
<1>1. Len(s) \in Nat /\ DOMAIN s = 1 .. Len(s) /\ \A i \in 1 .. Len(s) : s[i] \in Entry
  OBVIOUS
<1>2. size \in Nat /\ \E f \in [1 .. size -> kept] : Rises(f)
  <2>1. \E f \in [1 .. size -> kept] : \A i, j \in 1 .. size : i < j => f[i] < f[j]
    BY <1>1, RisingMeetsAll
  <2> QED BY <1>1, <2>1, RisingMeetsAll
<1>3. nth \in [1 .. size -> kept] /\ Rises(nth)
  <2> HIDE DEF Rises
  <2> QED BY <1>2
<1>4. Keep(s, kept) = t
  BY DEF Keep
<1> HIDE DEF nth
<1>5. DOMAIN nth = 1 .. size /\ \A i \in 1 .. size : nth[i] \in kept /\ s[nth[i]] \in Entry
  BY <1>1, <1>3
<1>6. t \in Seq(Entry) /\ DOMAIN t = 1 .. size
  BY <1>2, <1>5
<1>7. \A i, j \in 1 .. size : i < j => nth[i] < nth[j]
  BY <1>3, <1>5
<1>8. Upwards(nth, size, kept)
  BY <1>1, <1>3, <1>7, RisingMeetsAll
<1>9. SelectedBy(nth, t, s, kept)
  BY <1>3, <1>6, <1>8 DEF SelectedBy, Upwards
<1> QED BY <1>4, <1>6, <1>9

\* Without drops the entries of some movies and changes nothing else: what is left is
\* as distinct, as falling and as rising as before.
LEMMA WithoutSelects ==
  ASSUME NEW s \in Seq(Entry), NEW movies, NEW t, t = Without(s, movies)
  PROVE  /\ t \in Seq(Entry)
         /\ \A i \in DOMAIN t : t[i].movie \notin movies /\ \E k \in DOMAIN s : t[i] = s[k]
         /\ \A k \in DOMAIN s : s[k].movie \notin movies => \E i \in DOMAIN t : t[i] = s[k]
         /\ Distinct(s) => Distinct(t)
         /\ Falling(s) => Falling(t)
         /\ Rising(s) => Rising(t)
<1> DEFINE kept == {k \in DOMAIN s : s[k].movie \notin movies}
<1>1. t = Keep(s, kept) /\ kept \subseteq DOMAIN s
  BY DEF Without
<1>2. t \in Seq(Entry)
  BY <1>1, KeepSelects
<1>3. PICK nth : SelectedBy(nth, t, s, kept)
  BY <1>1, KeepSelects
<1>4. DOMAIN t = 1 .. Len(t) /\ Len(t) \in Nat /\ DOMAIN s = 1 .. Len(s) /\ Len(s) \in Nat
  BY <1>2
<1>5. \A i \in DOMAIN t : nth[i] \in kept /\ nth[i] \in DOMAIN s /\ nth[i] \in Nat /\ t[i] = s[nth[i]]
  BY <1>3, <1>4 DEF SelectedBy
<1>6. \A i, j \in DOMAIN t : i < j => nth[i] < nth[j]
  BY <1>3 DEF SelectedBy
<1>7. \A k \in kept : \E i \in DOMAIN t : t[i] = s[k]
  BY <1>3 DEF SelectedBy
<1>8. Distinct(s) => Distinct(t)
  <2> SUFFICES ASSUME Distinct(s), NEW i \in DOMAIN t, NEW j \in DOMAIN t,
                      t[i].movie = t[j].movie
               PROVE  i = j
    BY DEF Distinct
  <2>1. nth[i] = nth[j]
    BY <1>5 DEF Distinct
  <2>2. ~(i < j) /\ ~(j < i)
    BY <2>1, <1>5, <1>6
  <2> QED BY <2>2, <1>4
<1>9. Falling(s) => Falling(t)
  BY <1>5, <1>6 DEF Falling
<1>10. Rising(s) => Rising(t)
  BY <1>5, <1>6 DEF Rising
<1> QED BY <1>2, <1>5, <1>7, <1>8, <1>9, <1>10

\* The movies of an entry list, one list after the other.
LEMMA ConcatEntries ==
  ASSUME NEW s \in Seq(Entry), NEW t \in Seq(Entry), NEW u, u = s \o t
  PROVE  /\ u \in Seq(Entry)
         /\ Len(u) = Len(s) + Len(t)
         /\ \A k \in DOMAIN s : k \in DOMAIN u /\ u[k] = s[k]
         /\ \A k \in DOMAIN t : Len(s) + k \in DOMAIN u /\ u[Len(s) + k] = t[k]
         /\ \A k \in DOMAIN u : \/ k \in DOMAIN s /\ u[k] = s[k]
                                \/ k - Len(s) \in DOMAIN t /\ u[k] = t[k - Len(s)]
         /\ MoviesOf(u) = MoviesOf(s) \cup MoviesOf(t)
<1>1. /\ Len(s) \in Nat /\ DOMAIN s = 1 .. Len(s)
      /\ Len(t) \in Nat /\ DOMAIN t = 1 .. Len(t)
  OBVIOUS
<1>2. /\ u \in Seq(Entry) /\ Len(u) = Len(s) + Len(t)
      /\ DOMAIN u = 1 .. Len(s) + Len(t)
  OBVIOUS
<1>3. \A k \in DOMAIN s : k \in DOMAIN u /\ u[k] = s[k]
  BY <1>1, <1>2
<1>4. \A k \in DOMAIN t : Len(s) + k \in DOMAIN u /\ u[Len(s) + k] = t[k]
  BY <1>1, <1>2
<1>5. \A k \in DOMAIN u : \/ k \in DOMAIN s /\ u[k] = s[k]
                          \/ k - Len(s) \in DOMAIN t /\ u[k] = t[k - Len(s)]
  BY <1>1, <1>2
<1> HIDE DEF Entry
<1>6. MoviesOf(u) = MoviesOf(s) \cup MoviesOf(t)
  <2>1. \A m \in MoviesOf(u) : m \in MoviesOf(s) \cup MoviesOf(t)
    BY <1>5 DEF MoviesOf
  <2>2. \A m \in MoviesOf(s) : m \in MoviesOf(u)
    BY <1>3 DEF MoviesOf
  <2>3. \A m \in MoviesOf(t) : m \in MoviesOf(u)
    BY <1>4 DEF MoviesOf
  <2> QED BY <2>1, <2>2, <2>3
<1> QED BY <1>2, <1>3, <1>4, <1>5, <1>6

\* Two lists in a row are distinct when they share no movie, and in order when the
\* entries of the first go before those of the second.
LEMMA ConcatInOrder ==
  ASSUME NEW s \in Seq(Entry), NEW t \in Seq(Entry), NEW u, u = s \o t
  PROVE  /\ Distinct(s) /\ Distinct(t) /\ (\A k \in DOMAIN t : t[k].movie \notin MoviesOf(s))
              => Distinct(u)
         /\ Falling(s) /\ Falling(t) /\ (\A i \in DOMAIN s, k \in DOMAIN t : s[i].at >= t[k].at)
              => Falling(u)
         /\ Rising(s) /\ Rising(t) /\ (\A i \in DOMAIN s, k \in DOMAIN t : s[i].at <= t[k].at)
              => Rising(u)
<1>1. /\ Len(s) \in Nat /\ DOMAIN s = 1 .. Len(s)
      /\ Len(t) \in Nat /\ DOMAIN t = 1 .. Len(t)
      /\ DOMAIN u = 1 .. Len(s) + Len(t)
  OBVIOUS
<1>2. \A k \in DOMAIN u : \/ k \in DOMAIN s /\ u[k] = s[k]
                          \/ k - Len(s) \in DOMAIN t /\ u[k] = t[k - Len(s)]
  BY ConcatEntries
<1>3. ASSUME Distinct(s), Distinct(t), \A k \in DOMAIN t : t[k].movie \notin MoviesOf(s),
             NEW j \in DOMAIN u, NEW k \in DOMAIN u, u[j].movie = u[k].movie
      PROVE  j = k
  <2>1. \A i \in DOMAIN s, l \in DOMAIN t : s[i].movie # t[l].movie
    BY <1>3 DEF MoviesOf
  <2>2. CASE j \in DOMAIN s /\ u[j] = s[j]
    BY <2>1, <2>2, <1>2, <1>3 DEF Distinct
  <2>3. CASE j - Len(s) \in DOMAIN t /\ u[j] = t[j - Len(s)]
    <3>1. ~(k \in DOMAIN s /\ u[k] = s[k])
      BY <2>1, <2>3, <1>3
    <3>2. k - Len(s) \in DOMAIN t /\ u[k] = t[k - Len(s)]
      BY <3>1, <1>2
    <3>3. j - Len(s) = k - Len(s)
      BY <2>3, <3>2, <1>3 DEF Distinct
    <3> QED BY <3>3, <1>1
  <2> QED BY <2>2, <2>3, <1>2
<1>4. ASSUME Falling(s), Falling(t), \A i \in DOMAIN s, k \in DOMAIN t : s[i].at >= t[k].at,
             NEW j \in DOMAIN u, NEW k \in DOMAIN u, j < k
      PROVE  u[j].at >= u[k].at
  <2>1. CASE j \in DOMAIN s /\ k \in DOMAIN s
    BY <2>1, <1>1, <1>2, <1>4 DEF Falling
  <2>2. CASE j \in DOMAIN s /\ k \notin DOMAIN s
    BY <2>2, <1>1, <1>2, <1>4
  <2>3. CASE j \notin DOMAIN s
    <3>1. k \notin DOMAIN s /\ j - Len(s) < k - Len(s)
      BY <2>3, <1>1, <1>4
    <3> QED BY <2>3, <3>1, <1>2, <1>4 DEF Falling
  <2> QED BY <2>1, <2>2, <2>3
<1>5. ASSUME Rising(s), Rising(t), \A i \in DOMAIN s, k \in DOMAIN t : s[i].at <= t[k].at,
             NEW j \in DOMAIN u, NEW k \in DOMAIN u, j < k
      PROVE  u[j].at <= u[k].at
  <2>1. CASE j \in DOMAIN s /\ k \in DOMAIN s
    BY <2>1, <1>1, <1>2, <1>5 DEF Rising
  <2>2. CASE j \in DOMAIN s /\ k \notin DOMAIN s
    BY <2>2, <1>1, <1>2, <1>5
  <2>3. CASE j \notin DOMAIN s
    <3>1. k \notin DOMAIN s /\ j - Len(s) < k - Len(s)
      BY <2>3, <1>1, <1>5
    <3> QED BY <2>3, <3>1, <1>2, <1>5 DEF Rising
  <2> QED BY <2>1, <2>2, <2>3
<1> QED BY <1>3, <1>4, <1>5 DEF Distinct, Falling, Rising


\* Reverse turns newest first into oldest first, and changes nothing else.
LEMMA ReverseEntries ==
  ASSUME NEW s \in Seq(Entry), NEW t, t = Reverse(s)
  PROVE  /\ t \in Seq(Entry)
         /\ \A i \in DOMAIN t : \E k \in DOMAIN s : t[i] = s[k]
         /\ \A k \in DOMAIN s : \E i \in DOMAIN t : t[i] = s[k]
         /\ Distinct(s) => Distinct(t)
         /\ Falling(s) => Rising(t)
<1>1. Len(s) \in Nat /\ DOMAIN s = 1 .. Len(s) /\ \A i \in 1 .. Len(s) : s[i] \in Entry
  OBVIOUS
<1>2. t = [i \in 1 .. Len(s) |-> s[(Len(s) - i) + 1]]
  BY DEF Reverse
<1>3. \A i \in 1 .. Len(s) : (Len(s) - i) + 1 \in 1 .. Len(s)
  BY <1>1
<1>4. t \in Seq(Entry) /\ DOMAIN t = 1 .. Len(s)
  BY <1>1, <1>2, <1>3
<1>5. \A i \in DOMAIN t : (Len(s) - i) + 1 \in DOMAIN s /\ t[i] = s[(Len(s) - i) + 1]
  BY <1>1, <1>2, <1>3
<1>6. ASSUME NEW k \in DOMAIN s PROVE \E i \in DOMAIN t : t[i] = s[k]
  <2>1. (Len(s) - k) + 1 \in DOMAIN t /\ (Len(s) - ((Len(s) - k) + 1)) + 1 = k
    BY <1>1, <1>4
  <2> QED BY <2>1, <1>5
<1>7. ASSUME Distinct(s), NEW i \in DOMAIN t, NEW j \in DOMAIN t, t[i].movie = t[j].movie
      PROVE  i = j
  <2>1. (Len(s) - i) + 1 = (Len(s) - j) + 1
    BY <1>5, <1>7 DEF Distinct
  <2> QED BY <2>1, <1>1, <1>4
<1>8. ASSUME Falling(s), NEW i \in DOMAIN t, NEW j \in DOMAIN t, i < j
      PROVE  t[i].at <= t[j].at
  <2>1. (Len(s) - j) + 1 < (Len(s) - i) + 1
    BY <1>1, <1>4, <1>8
  <2>2. t[i] \in Entry /\ t[j] \in Entry
    BY <1>4
  <2>3. t[j].at >= t[i].at
    BY <1>5, <1>8, <2>1 DEF Falling
  <2> QED BY <2>2, <2>3, TraktBounds DEF Entry
<1> QED BY <1>4, <1>5, <1>6, <1>7, <1>8 DEF Distinct, Rising

\* The list without its k-th entry: the others move up.
LEMMA RemoveAtEntries ==
  ASSUME NEW s \in Seq(Entry), NEW k \in DOMAIN s, NEW t, t = RemoveAt(s, k)
  PROVE  /\ t \in Seq(Entry) /\ Len(t) = Len(s) - 1
         /\ \A i \in DOMAIN t : IF i < k THEN i \in DOMAIN s /\ t[i] = s[i]
                                         ELSE i + 1 \in DOMAIN s /\ t[i] = s[i + 1]
         /\ Distinct(s) => Distinct(t)
         /\ Falling(s) => Falling(t)
<1>1. PICK n \in Nat : n = Len(s)
  OBVIOUS
<1>2. /\ k \in 1 .. n /\ k \in Nat /\ DOMAIN s = 1 .. n
      /\ \A i \in 1 .. n : s[i] \in Entry
  BY <1>1
<1> DEFINE u == SubSeq(s, 1, k - 1)
           v == SubSeq(s, k + 1, n)
<1>3. u \in Seq(Entry) /\ Len(u) = k - 1 /\ \A i \in 1 .. k - 1 : u[i] = s[i]
  <2>1. \A i \in 1 .. k - 1 : s[i] \in Entry
    BY <1>2
  <2>2. /\ Len(u) = IF 1 <= k - 1 THEN k - 1 - 1 + 1 ELSE 0
        /\ u \in Seq(Entry) /\ \A i \in 1 .. k - 1 - 1 + 1 : u[i] = s[1 + i - 1]
    BY <2>1, <1>2, SubSeqProperties
  <2>3. (IF 1 <= k - 1 THEN k - 1 - 1 + 1 ELSE 0) = k - 1 /\ k - 1 - 1 + 1 = k - 1
    BY <1>2
  <2>4. \A i \in 1 .. k - 1 : 1 + i - 1 = i
    OBVIOUS
  <2> QED BY <2>2, <2>3, <2>4
<1>4. v \in Seq(Entry) /\ Len(v) = n - k /\ \A i \in 1 .. n - k : v[i] = s[k + i]
  <2>1. \A i \in k + 1 .. n : s[i] \in Entry
    BY <1>2
  <2>2. /\ Len(v) = IF k + 1 <= n THEN n - (k + 1) + 1 ELSE 0
        /\ v \in Seq(Entry) /\ \A i \in 1 .. n - (k + 1) + 1 : v[i] = s[(k + 1) + i - 1]
    BY <2>1, <1>1, <1>2, SubSeqProperties
  <2>3. (IF k + 1 <= n THEN n - (k + 1) + 1 ELSE 0) = n - k /\ n - (k + 1) + 1 = n - k
    BY <1>1, <1>2
  <2>4. \A i \in 1 .. n - k : (k + 1) + i - 1 = k + i
    BY <1>1, <1>2
  <2> QED BY <2>2, <2>3, <2>4
<1>5. t = u \o v
  BY <1>1 DEF RemoveAt
<1> HIDE DEF u, v
<1>6. /\ t \in Seq(Entry) /\ Len(t) = n - 1 /\ DOMAIN t = 1 .. n - 1
      /\ \A i \in 1 .. n - 1 : t[i] = IF i <= k - 1 THEN u[i] ELSE v[i - (k - 1)]
  <2>1. (k - 1) + (n - k) = n - 1
    BY <1>1, <1>2
  <2>2. /\ u \o v \in Seq(Entry) /\ Len(u \o v) = (k - 1) + (n - k)
        /\ \A i \in 1 .. (k - 1) + (n - k) : (u \o v)[i] = IF i <= k - 1 THEN u[i] ELSE v[i - (k - 1)]
    <3> HIDE DEF Entry
    <3>1. u \in Seq(Entry) /\ v \in Seq(Entry)
      BY <1>3, <1>4
    <3>2. /\ u \o v \in Seq(Entry) /\ Len(u \o v) = Len(u) + Len(v)
          /\ \A i \in 1 .. Len(u) + Len(v) : (u \o v)[i] = IF i <= Len(u) THEN u[i] ELSE v[i - Len(u)]
      BY <3>1, ConcatProperties
    <3>3. Len(u) = k - 1 /\ Len(v) = n - k
      BY <1>3, <1>4
    <3> QED BY <3>2, <3>3
  <2>3. DOMAIN t = 1 .. Len(t)
    BY <2>2, <1>5
  <2> QED BY <2>1, <2>2, <2>3, <1>5
<1>7. ASSUME NEW i \in 1 .. n - 1, i < k
      PROVE  i \in 1 .. n /\ t[i] = s[i]
  <2>1. i <= k - 1 /\ i \in 1 .. k - 1 /\ i \in 1 .. n
    BY <1>7, <1>1, <1>2
  <2> QED BY <2>1, <1>3, <1>6
<1>8. ASSUME NEW i \in 1 .. n - 1, ~(i < k)
      PROVE  i + 1 \in 1 .. n /\ t[i] = s[i + 1]
  <2>1. ~(i <= k - 1) /\ i - (k - 1) \in 1 .. n - k /\ i + 1 \in 1 .. n /\ k + (i - (k - 1)) = i + 1
    BY <1>8, <1>1, <1>2
  <2>2. t[i] = v[i - (k - 1)]
    BY <2>1, <1>6
  <2> QED BY <2>1, <2>2, <1>4
<1>9. ASSUME NEW i \in 1 .. n - 1, NEW j \in 1 .. n - 1, i < j
      PROVE  \E a, b \in 1 .. n : a < b /\ t[i] = s[a] /\ t[j] = s[b]
  <2>1. CASE j < k
    BY <2>1, <1>7, <1>9, <1>2
  <2>2. CASE i < k /\ ~(j < k)
    <3>1. i < j + 1
      BY <1>9
    <3> QED BY <3>1, <2>2, <1>7, <1>8
  <2>3. CASE ~(i < k)
    <3>1. ~(j < k) /\ i + 1 < j + 1
      BY <2>3, <1>9, <1>2
    <3> QED BY <3>1, <2>3, <1>8
  <2>4. i < k \/ ~(i < k)
    OBVIOUS
  <2> QED BY <2>1, <2>2, <2>3
<1>10. ASSUME Distinct(s), NEW i \in 1 .. n - 1, NEW j \in 1 .. n - 1, t[i].movie = t[j].movie
       PROVE  i = j
  <2>1. \A a, b \in 1 .. n : a < b => s[a].movie # s[b].movie
    BY <1>10, <1>2 DEF Distinct
  <2>2. ~(i < j)
    <3> SUFFICES ASSUME i < j PROVE FALSE
      OBVIOUS
    <3>1. PICK a, b \in 1 .. n : a < b /\ t[i] = s[a] /\ t[j] = s[b]
      BY <1>9
    <3> QED BY <3>1, <2>1, <1>10
  <2>3. ~(j < i)
    <3> SUFFICES ASSUME j < i PROVE FALSE
      OBVIOUS
    <3>1. PICK a, b \in 1 .. n : a < b /\ t[j] = s[a] /\ t[i] = s[b]
      BY <1>9
    <3> QED BY <3>1, <2>1, <1>10
  <2> QED BY <2>2, <2>3
<1>11. ASSUME Falling(s), NEW i \in 1 .. n - 1, NEW j \in 1 .. n - 1, i < j
       PROVE  t[i].at >= t[j].at
  <2>1. PICK a, b \in 1 .. n : a < b /\ t[i] = s[a] /\ t[j] = s[b]
    BY <1>9, <1>11
  <2>2. s[a].at >= s[b].at
    BY <2>1, <1>11, <1>2 DEF Falling
  <2> QED BY <2>1, <2>2
<1>12. Distinct(s) => Distinct(t)
  BY <1>6, <1>10 DEF Distinct
<1>13. Falling(s) => Falling(t)
  BY <1>6, <1>11 DEF Falling
<1> QED BY <1>1, <1>2, <1>6, <1>7, <1>8, <1>12, <1>13

\* What is left was there before, once each and in the same order.
LEMMA RemovedEntries ==
  ASSUME NEW s \in Seq(Entry), NEW k \in DOMAIN s, NEW t, t = RemoveAt(s, k)
  PROVE  /\ t \in Seq(Entry)
         /\ \A i \in DOMAIN t : \E j \in DOMAIN s : (j = i \/ j = i + 1) /\ t[i] = s[j]
         /\ Distinct(s) => Distinct(t)
         /\ Falling(s) => Falling(t)
BY RemoveAtEntries

\* A piece of a list, of at most `limit` entries after the first `before`.
LEMMA PieceEntries ==
  ASSUME NEW s \in Seq(Entry), NEW before \in Nat, NEW limit \in Nat \ {0},
         NEW upto \in Nat,
         upto = IF before + limit <= Len(s) THEN before + limit ELSE Len(s),
         NEW t, t = SubSeq(s, before + 1, upto)
  PROVE  /\ t \in Seq(Entry)
         /\ \A i \in DOMAIN t : before + i \in DOMAIN s /\ t[i] = s[before + i]
         /\ \A k \in DOMAIN s : before < k /\ k <= before + limit => k - before \in DOMAIN t
         /\ Len(s) > before + limit => Len(t) = limit
         /\ Len(t) <= limit
<1>1. PICK n \in Nat : n = Len(s)
  OBVIOUS
<1>2. DOMAIN s = 1 .. n /\ \A i \in 1 .. n : s[i] \in Entry
  BY <1>1
<1>3. upto <= n /\ upto <= before + limit /\ (upto = n \/ upto = before + limit)
  BY <1>1
<1>4. \A i \in before + 1 .. upto : s[i] \in Entry
  BY <1>1, <1>2, <1>3
<1>5. /\ t \in Seq(Entry)
      /\ Len(t) = IF before + 1 <= upto THEN upto - before ELSE 0
      /\ \A i \in 1 .. upto - before : t[i] = s[before + i]
  <2>1. upto - (before + 1) + 1 = upto - before
    OBVIOUS
  <2>2. \A i \in 1 .. upto - before : (before + 1) + i - 1 = before + i
    OBVIOUS
  <2>3. /\ t \in Seq(Entry)
        /\ Len(t) = IF before + 1 <= upto THEN upto - (before + 1) + 1 ELSE 0
        /\ \A i \in 1 .. upto - (before + 1) + 1 : t[i] = s[(before + 1) + i - 1]
    BY <1>4, SubSeqProperties
  <2> QED BY <2>1, <2>2, <2>3
<1>6. PICK m \in Nat : m = Len(t) /\ DOMAIN t = 1 .. m
  <2>1. t \in Seq(Entry)
    BY <1>5
  <2>2. Len(t) \in Nat /\ DOMAIN t = 1 .. Len(t)
    BY <2>1, LenProperties
  <2> QED BY <2>2, Zenon
<1>7. m = IF before + 1 <= upto THEN upto - before ELSE 0
  BY <1>5, <1>6
<1>8. ASSUME NEW i \in 1 .. m PROVE before + i \in 1 .. n /\ t[i] = s[before + i]
  <2>1. before + i \in 1 .. n /\ i \in 1 .. upto - before
    BY <1>1, <1>3, <1>6, <1>7
  <2> QED BY <2>1, <1>5
<1>9. ASSUME NEW k \in 1 .. n, before < k, k <= before + limit PROVE k - before \in 1 .. m
  BY <1>1, <1>3, <1>6, <1>7, <1>9
<1>10. (n > before + limit => m = limit) /\ m <= limit
  BY <1>1, <1>3, <1>6, <1>7
<1> QED BY <1>1, <1>2, <1>5, <1>6, <1>8, <1>9, <1>10

\* A page is the entries of the list after the first (n - 1) * PageLimit, as many as
\* fit; it is full when the list goes on after it.
LEMMA PageEntries ==
  ASSUME list \in Seq(Entry), NEW n \in Nat \ {0}, NEW page, page = PageOf(n)
  PROVE  \E before \in Nat :
         /\ before = (n - 1) * PageLimit /\ before + PageLimit = n * PageLimit
         /\ page \in Seq(Entry)
         /\ \A i \in DOMAIN page : before + i \in DOMAIN list /\ page[i] = list[before + i]
         /\ \A k \in DOMAIN list : before < k /\ k <= before + PageLimit => k - before \in DOMAIN page
         /\ Len(list) > before + PageLimit => Len(page) = PageLimit
         /\ Len(page) <= PageLimit
<1>1. Len(list) \in Nat
  OBVIOUS
<1>2. PageLimit \in Nat \ {0}
  BY PageAssumption
<1>3. PICK before \in Nat : before = (n - 1) * PageLimit /\ before + PageLimit = n * PageLimit
  BY <1>2
<1>4. PICK upto \in Nat : /\ upto = Min({n * PageLimit, Len(list)})
                          /\ upto = IF before + PageLimit <= Len(list) THEN before + PageLimit
                                                                       ELSE Len(list)
  <2>1. Min({before + PageLimit, Len(list)})
          = IF before + PageLimit <= Len(list) THEN before + PageLimit ELSE Len(list)
    BY <1>1, <1>2, MinOfTwo
  <2>2. Min({before + PageLimit, Len(list)}) \in Nat
    BY <2>1, <1>1, <1>2
  <2> QED BY <2>1, <2>2, <1>3
<1>5. page = SubSeq(list, before + 1, upto)
  BY <1>3, <1>4 DEF PageOf
<1>6. /\ page \in Seq(Entry)
      /\ \A i \in DOMAIN page : before + i \in DOMAIN list /\ page[i] = list[before + i]
      /\ \A k \in DOMAIN list : before < k /\ k <= before + PageLimit => k - before \in DOMAIN page
      /\ Len(list) > before + PageLimit => Len(page) = PageLimit
      /\ Len(page) <= PageLimit
  BY <1>2, <1>4, <1>5, PieceEntries
<1> QED BY <1>3, <1>6

\* What NotBefore keeps is the page down to the first entry older than the cursor.
LEMMA FreshEntries ==
  ASSUME NEW page \in Seq(Entry), NEW second \in Nat, NEW fresh, fresh = NotBefore(page, second)
  PROVE  /\ fresh \in Seq(Entry) /\ Len(fresh) <= Len(page)
         /\ \A i \in DOMAIN fresh : /\ i \in DOMAIN page /\ fresh[i] = page[i]
                                    /\ fresh[i].at >= second
         /\ Len(fresh) < Len(page) =>
              Len(fresh) + 1 \in DOMAIN page /\ page[Len(fresh) + 1].at < second
<1> DEFINE older == {k \in DOMAIN page : page[k].at < second}
<1>1. Len(page) \in Nat /\ DOMAIN page = 1 .. Len(page) /\ \A i \in DOMAIN page : page[i] \in Entry
  OBVIOUS
<1>2. \A i \in DOMAIN page : page[i].at \in Nat
  BY <1>1, TraktBounds DEF Entry
<1>3. CASE older = {}
  <2>1. fresh = page
    BY <1>3 DEF NotBefore
  <2>2. \A i \in DOMAIN page : page[i].at >= second
    BY <1>2, <1>3
  <2> QED BY <1>1, <2>1, <2>2
<1>4. CASE older # {}
  <2>1. Min(older) \in older /\ \A k \in older : Min(older) <= k
    <3>1. older \subseteq Nat
      BY <1>1
    <3> HIDE DEF older
    <3> QED BY <3>1, <1>4, MinIsLeast
  <2>2. PICK first \in older : first = Min(older) /\ \A k \in older : first <= k
    BY <2>1
  <2>3. fresh = SubSeq(page, 1, first - 1)
    BY <1>4, <2>2 DEF NotBefore
  <2>4. first \in 1 .. Len(page)
    BY <1>1, <2>2
  <2>5. /\ fresh \in Seq(Entry) /\ Len(fresh) = first - 1
        /\ \A i \in 1 .. first - 1 : fresh[i] = page[i]
    BY <1>1, <2>3, <2>4
  <2>6. ASSUME NEW i \in 1 .. first - 1 PROVE i \in DOMAIN page /\ page[i].at >= second
    <3>1. i \in DOMAIN page /\ ~(first <= i)
      BY <1>1, <2>4
    <3>2. i \notin older
      BY <3>1, <2>2
    <3> QED BY <3>1, <3>2, <1>2
  <2>7. DOMAIN fresh = 1 .. first - 1
    BY <2>4, <2>5
  <2>8. Len(fresh) <= Len(page) /\ Len(fresh) + 1 = first
    BY <1>1, <2>4, <2>5
  <2>9. first \in DOMAIN page /\ page[first].at < second
    BY <2>2
  <2> QED BY <2>5, <2>6, <2>7, <2>8, <2>9
<1> QED BY <1>3, <1>4

\* The newest second of some rows, 0 when there are none.
LEMMA NewestSecond ==
  ASSUME NEW s \in Seq(Entry), NEW c, c = Max({0} \cup {s[k].at : k \in DOMAIN s})
  PROVE  /\ c \in Nat
         /\ c = 0 \/ \E k \in DOMAIN s : s[k].at = c
         /\ \A k \in DOMAIN s : s[k].at <= c
<1> DEFINE seconds == {0} \cup {s[k].at : k \in DOMAIN s}
<1>1. \A k \in DOMAIN s : s[k] \in Entry
  OBVIOUS
<1>2. \A k \in DOMAIN s : s[k].at \in 1 .. MaxClock
  BY <1>1 DEF Entry
<1>3. seconds \subseteq Nat /\ seconds # {} /\ (\A x \in seconds : x <= MaxClock)
  BY <1>2, TraktBounds
<1>4. Max(seconds) \in seconds /\ \A x \in seconds : x <= Max(seconds)
  <2> HIDE DEF seconds
  <2> QED BY <1>3, MaxIsGreatest, TraktBounds
<1>5. c = Max(seconds)
  OBVIOUS
<1> QED BY <1>3, <1>4, <1>5

\* TraktCursor is that of the rows of trakt_movies.
LEMMA CursorIsNewest ==
  ASSUME made \in Seq(Entry)
  PROVE  /\ TraktCursor \in Nat
         /\ TraktCursor = 0 \/ \E k \in DOMAIN made : made[k].at = TraktCursor
         /\ \A k \in DOMAIN made : made[k].at <= TraktCursor
BY NewestSecond DEF TraktCursor


-----------------------------------------------------------------------------
(* What the actions do.                                                    *)

TypeInv == TraktTypeOK /\ failed \in Nat

\* A run that fails stores nothing: the pages it collected are dropped.
LEMMA FailureStoresNothing ==
  ASSUME TypeInv, SignalFailure
  PROVE  made' = made /\ created' = created /\ run' = NoRun
<1>1. << >> \in Seq(Entry) /\ DOMAIN << >> = {}
  OBVIOUS
<1>2. PICK rest : rest = Reverse(<< >>)
  OBVIOUS
<1>3. rest \in Seq(Entry) /\ \A i \in DOMAIN rest : FALSE
  BY <1>1, <1>2, ReverseEntries
<1>4. PICK fresh : fresh = Without(rest, Processed)
  OBVIOUS
<1>5. fresh \in Seq(Entry) /\ \A i \in DOMAIN fresh : FALSE
  BY <1>3, <1>4, WithoutSelects
<1>6. fresh = << >>
  <2>1. Len(fresh) \in Nat /\ DOMAIN fresh = 1 .. Len(fresh)
    BY <1>5, LenProperties
  <2>2. 1 \notin DOMAIN fresh
    BY <1>5
  <2>3. Len(fresh) = 0
    BY <2>1, <2>2
  <2> QED BY <2>3, <1>5, EmptySeq
<1>7. made' = made \o fresh /\ \E now : created' = created \o [k \in DOMAIN fresh |-> now]
  BY <1>2, <1>4 DEF SignalFailure, FailRun, Insert
<1>8. made \in Seq(Entry) /\ created \in Seq(Nat)
  BY DEF TypeInv, TraktTypeOK
<1>9. made' = made
  BY <1>6, <1>7, <1>8, ConcatEmptySeq
<1>10. created' = created
  <2>1. \A now : [k \in DOMAIN << >> |-> now] = << >>
    BY <1>1
  <2>2. created' = created \o << >>
    BY <1>6, <1>7, <2>1
  <2> QED BY <1>8, <2>2, ConcatEmptySeq
<1> QED BY <1>9, <1>10 DEF SignalFailure, FailRun

\* A run that is saved appends its items, oldest first, without those that are there.
LEMMA SaveAppends ==
  ASSUME TypeInv, SaveRun
  PROVE  \E oldest, new \in Seq(Entry) :
           /\ oldest = Reverse(run.items) /\ new = Without(oldest, Processed)
           /\ made' = made \o new
<1>1. run.items \in Seq(Entry)
  BY DEF TypeInv, TraktTypeOK, Run
<1>2. PICK oldest : oldest = Reverse(run.items)
  OBVIOUS
<1>3. oldest \in Seq(Entry)
  BY <1>1, <1>2, ReverseEntries
<1>4. PICK new : new = Without(oldest, Processed)
  OBVIOUS
<1>5. new \in Seq(Entry)
  BY <1>3, <1>4, WithoutSelects
<1>6. made' = made \o new
  BY <1>2, <1>4 DEF SaveRun, StoreRun, Insert
<1> QED BY <1>2, <1>3, <1>4, <1>5, <1>6

\* All of them get one created_at, the second of the run, and the others keep theirs.
LEMMA SaveStamps ==
  ASSUME TypeInv, SaveRun
  PROVE  \E now \in Seconds :
           /\ now \in Nat
           /\ created' \in Seq(Nat) /\ Len(created') = Len(made')
           /\ \A k \in 1 .. Len(made') :
                created'[k] = IF k <= Len(made) THEN created[k] ELSE now
<1>1. made \in Seq(Entry) /\ created \in Seq(Nat) /\ Len(created) = Len(made)
  BY DEF TypeInv, TraktTypeOK
<1>2. PICK new \in Seq(Entry) : new = Without(Reverse(run.items), Processed) /\ made' = made \o new
  BY SaveAppends
<1>3. PICK now \in Seconds : created' = created \o [k \in DOMAIN new |-> now]
  BY <1>2 DEF SaveRun, StoreRun, Insert
<1>4. now \in Nat
  <2>1. created # << >> => Last(created) \in Nat
    BY <1>1 DEF Last
  <2> QED BY <2>1 DEF Seconds
<1>5. PICK stamps : stamps = [k \in DOMAIN new |-> now]
  OBVIOUS
<1>6. DOMAIN new = 1 .. Len(new) /\ Len(new) \in Nat
  OBVIOUS
<1>7. stamps \in Seq(Nat) /\ Len(stamps) = Len(new) /\ \A k \in 1 .. Len(new) : stamps[k] = now
  BY <1>4, <1>5, <1>6
<1>8. Len(made') = Len(made) + Len(new)
  BY <1>1, <1>2, ConcatProperties
<1>9. /\ created' \in Seq(Nat) /\ Len(created') = Len(created) + Len(stamps)
      /\ \A k \in 1 .. Len(created) + Len(stamps) :
           created'[k] = IF k <= Len(created) THEN created[k] ELSE stamps[k - Len(created)]
  BY <1>1, <1>3, <1>5, <1>7, ConcatProperties, ZenonT(40)
<1>10. \A k \in 1 .. Len(made') :
         created'[k] = IF k <= Len(made) THEN created[k] ELSE now
  <2> TAKE k \in 1 .. Len(made')
  <2>1. CASE k <= Len(made)
    BY <1>1, <1>7, <1>8, <1>9, <2>1
  <2>2. CASE k > Len(made)
    <3>1. k - Len(made) \in 1 .. Len(new)
      BY <1>1, <1>6, <1>8, <2>2
    <3> QED BY <1>1, <1>7, <1>8, <1>9, <2>2, <3>1
  <2> QED BY <1>1, <1>6, <1>8, <2>1, <2>2
<1> QED BY <1>1, <1>4, <1>7, <1>8, <1>9, <1>10

\* One iteration of collect: `fresh` are the entries of the page that are not older than
\* the cursor, `new` those of them that are wanted. The run goes on to the next page,
\* or ends because the rest of the list is older, because there is no rest, or because
\* this was the last page it may read.
PageRead(before, fresh, new) ==
  /\ before = (run.page - 1) * PageLimit /\ before + PageLimit = run.page * PageLimit
  /\ new = Wanted(fresh, run.items)
  /\ run' = [pc |-> run'.pc, page |-> run'.page, cursor |-> run.cursor,
             items |-> run.items \o new, added |-> run.added]
  /\ Len(fresh) <= PageLimit
  /\ \A i \in DOMAIN fresh : /\ before + i \in DOMAIN list /\ fresh[i] = list[before + i]
                             /\ fresh[i].at >= run.cursor
  /\ \A k \in DOMAIN list : before < k /\ k <= before + PageLimit =>
       k - before \in DOMAIN fresh \/ (run'.pc = "saving" /\ list[k].at < run.cursor)
  /\ \/ run'.pc = "paging" /\ run'.page = run.page + 1 /\ run.page + 1 \in 1 .. MaxPages
     \/ /\ run'.pc = "saving" /\ run'.page = run.page
        /\ \/ \A k \in DOMAIN list : k > before + PageLimit => list[k].at < run.cursor
           \/ Len(list) <= before + PageLimit
           \/ run.page = MaxPages

LEMMA FetchReadsPage ==
  ASSUME TypeInv, Falling(list), NEW counted, FetchPage(counted)
  PROVE  \E before \in Nat, fresh, new \in Seq(Entry) : PageRead(before, fresh, new)
<1>1. /\ list \in Seq(Entry) /\ run \in Run /\ run.items \in Seq(Entry)
      /\ run.page \in 1 .. MaxPages /\ run.cursor \in Nat
  BY DEF TypeInv, TraktTypeOK, Run
<1>2. run.page \in Nat \ {0} /\ MaxPages \in Nat /\ PageLimit \in Nat \ {0}
  BY <1>1, PageAssumption
<1>3. PICK page : page = PageOf(run.page)
  OBVIOUS
<1>4. PICK before \in Nat :
         /\ before = (run.page - 1) * PageLimit /\ before + PageLimit = run.page * PageLimit
         /\ page \in Seq(Entry)
         /\ \A i \in DOMAIN page : before + i \in DOMAIN list /\ page[i] = list[before + i]
         /\ \A k \in DOMAIN list : before < k /\ k <= before + PageLimit => k - before \in DOMAIN page
         /\ Len(list) > before + PageLimit => Len(page) = PageLimit
         /\ Len(page) <= PageLimit
  BY <1>1, <1>2, <1>3, PageEntries
<1>5. PICK fresh : fresh = UpToCursor(page, run.cursor)
  OBVIOUS
<1>6. /\ fresh \in Seq(Entry) /\ Len(fresh) <= Len(page)
      /\ \A i \in DOMAIN fresh : i \in DOMAIN page /\ fresh[i] = page[i] /\ fresh[i].at >= run.cursor
      /\ Len(fresh) < Len(page) =>
           Len(fresh) + 1 \in DOMAIN page /\ page[Len(fresh) + 1].at < run.cursor
  BY <1>1, <1>4, <1>5, FreshEntries DEF UpToCursor
<1>7. PICK new : new = Wanted(fresh, run.items)
  OBVIOUS
<1>8. new \in Seq(Entry)
  BY <1>6, <1>7, WithoutSelects DEF Wanted
<1>9. PICK done \in BOOLEAN :
        done <=> \/ Len(fresh) < Len(page) \/ LastPage(run.page, counted) \/ run.page = MaxPages
  OBVIOUS
<1>10. run' = [run EXCEPT !.items = run.items \o new,
                          !.pc    = IF done THEN "saving" ELSE "paging",
                          !.page  = IF done THEN @ ELSE @ + 1]
  BY <1>3, <1>5, <1>7, <1>9 DEF FetchPage, ReadPage
<1>11. run = [pc |-> run.pc, page |-> run.page, cursor |-> run.cursor, items |-> run.items,
              added |-> run.added]
  BY <1>1 DEF Run
<1>12. run' = [pc |-> IF done THEN "saving" ELSE "paging",
               page |-> IF done THEN run.page ELSE run.page + 1, cursor |-> run.cursor,
               items |-> run.items \o new, added |-> run.added]
  BY <1>10, <1>11
<1>13. /\ run'.pc = (IF done THEN "saving" ELSE "paging")
       /\ run'.page = (IF done THEN run.page ELSE run.page + 1)
  BY <1>12
<1>14. run' = [pc |-> run'.pc, page |-> run'.page, cursor |-> run.cursor,
               items |-> run.items \o new, added |-> run.added]
  BY <1>12, <1>13
<1>15. /\ Len(list) \in Nat /\ DOMAIN list = 1 .. Len(list) /\ Len(page) \in Nat
       /\ DOMAIN page = 1 .. Len(page) /\ Len(fresh) \in Nat /\ DOMAIN fresh = 1 .. Len(fresh)
       /\ \A k \in DOMAIN list : list[k].at \in Nat
  <2>1. \A k \in DOMAIN list : list[k] \in Entry
    BY <1>1
  <2>2. \A e \in Entry : e.at \in Nat
    BY TraktBounds DEF Entry
  <2>3. /\ Len(list) \in Nat /\ DOMAIN list = 1 .. Len(list)
        /\ Len(page) \in Nat /\ DOMAIN page = 1 .. Len(page)
        /\ Len(fresh) \in Nat /\ DOMAIN fresh = 1 .. Len(fresh)
    BY <1>1, <1>4, <1>6, LenProperties
  <2> QED BY <2>1, <2>2, <2>3
<1>16. ASSUME Len(fresh) < Len(page), NEW k \in DOMAIN list, before + Len(fresh) < k
       PROVE  list[k].at < run.cursor
  <2>1. /\ before + (Len(fresh) + 1) \in DOMAIN list
        /\ list[before + (Len(fresh) + 1)].at < run.cursor
    BY <1>4, <1>6, <1>16
  <2>2. CASE k = before + (Len(fresh) + 1)
    BY <2>1, <2>2
  <2>3. CASE before + (Len(fresh) + 1) < k
    <3>1. list[before + (Len(fresh) + 1)].at >= list[k].at
      BY <2>1, <2>3 DEF Falling
    <3> QED BY <2>1, <3>1, <1>1, <1>15
  <2>4. k = before + (Len(fresh) + 1) \/ before + (Len(fresh) + 1) < k
    BY <1>15, <1>16
  <2> QED BY <2>2, <2>3, <2>4
<1>17. ASSUME NEW k \in DOMAIN list, before < k, k <= before + PageLimit
       PROVE  k - before \in DOMAIN fresh \/ (run'.pc = "saving" /\ list[k].at < run.cursor)
  <2>1. CASE k - before <= Len(fresh)
    BY <2>1, <1>15, <1>17
  <2>2. CASE ~(k - before <= Len(fresh))
    <3>1. k - before \in DOMAIN page /\ before + Len(fresh) < k
      BY <2>2, <1>4, <1>15, <1>17
    <3>2. Len(fresh) < Len(page)
      BY <3>1, <1>15
    <3> QED BY <3>1, <3>2, <1>9, <1>13, <1>16
  <2> QED BY <2>1, <2>2
<1>18. /\ Len(fresh) <= PageLimit
       /\ \A i \in DOMAIN fresh : /\ before + i \in DOMAIN list /\ fresh[i] = list[before + i]
                                  /\ fresh[i].at >= run.cursor
  <2>1. Len(fresh) <= PageLimit
    BY <1>2, <1>4, <1>6, <1>15
  <2> QED BY <2>1, <1>4, <1>6
<1>19. ASSUME done
       PROVE  \/ \A k \in DOMAIN list : k > before + PageLimit => list[k].at < run.cursor
              \/ Len(list) <= before + PageLimit
              \/ run.page = MaxPages
  <2>1. CASE Len(fresh) < Len(page)
    <3>1. ASSUME NEW k \in DOMAIN list, k > before + PageLimit PROVE list[k].at < run.cursor
      <4>1. before + Len(fresh) < k
        BY <3>1, <1>2, <1>15, <1>18
      <4> QED BY <4>1, <2>1, <1>16
    <3> QED BY <3>1
  <2>2. CASE LastPage(run.page, counted)
    <3>1. run.page * PageLimit >= Len(list) \/ Len(page) < PageLimit
      BY <2>2, <1>3 DEF LastPage
    <3>2. before + PageLimit >= Len(list) \/ Len(page) < PageLimit
      BY <3>1, <1>4
    <3>3. CASE before + PageLimit >= Len(list)
      BY <3>3, <1>2, <1>15
    <3>4. CASE Len(page) < PageLimit
      <4>1. ~(Len(list) > before + PageLimit)
        BY <3>4, <1>2, <1>4
      <4> QED BY <4>1, <1>2, <1>15
    <3> QED BY <3>2, <3>3, <3>4
  <2> QED BY <2>1, <2>2, <1>9, <1>19
<1>20. \/ run'.pc = "paging" /\ run'.page = run.page + 1 /\ run.page + 1 \in 1 .. MaxPages
       \/ /\ run'.pc = "saving" /\ run'.page = run.page
          /\ \/ \A k \in DOMAIN list : k > before + PageLimit => list[k].at < run.cursor
             \/ Len(list) <= before + PageLimit
             \/ run.page = MaxPages
  <2>1. CASE ~done
    <3>1. run.page # MaxPages
      BY <2>1, <1>9
    <3>2. run.page + 1 \in 1 .. MaxPages
      BY <3>1, <1>1, <1>2
    <3> QED BY <3>2, <2>1, <1>13
  <2>2. CASE done
    <3>1. run'.pc = "saving" /\ run'.page = run.page
      BY <2>2, <1>13
    <3> QED BY <3>1, <2>2, <1>19
  <2> QED BY <2>1, <2>2
<1>21. before = (run.page - 1) * PageLimit /\ before + PageLimit = run.page * PageLimit
  BY <1>4
<1>22. PageRead(before, fresh, new)
  BY <1>7, <1>14, <1>17, <1>18, <1>20, <1>21, Zenon DEF PageRead
<1> QED BY <1>22, <1>6, <1>8


\* The list with a new entry on top: the others move down.
LEMMA AddEntries ==
  ASSUME NEW s \in Seq(Entry), NEW e \in Entry, NEW t, t = <<e>> \o s
  PROVE  /\ t \in Seq(Entry) /\ Len(t) = Len(s) + 1
         /\ 1 \in DOMAIN t /\ t[1] = e
         /\ \A k \in DOMAIN t : (k = 1 /\ t[k] = e) \/ (k - 1 \in DOMAIN s /\ t[k] = s[k - 1])
         /\ MoviesOf(t) = {e.movie} \cup MoviesOf(s)
         /\ Distinct(s) /\ e.movie \notin MoviesOf(s) => Distinct(t)
         /\ Falling(s) /\ (\A k \in DOMAIN s : s[k].at <= e.at) => Falling(t)
<1>1. PICK top \in Seq(Entry) : top = <<e>> /\ Len(top) = 1 /\ DOMAIN top = {1} /\ top[1] = e
  <2>1. <<e>> \in Seq(Entry) /\ Len(<<e>>) = 1 /\ DOMAIN <<e>> = {1} /\ <<e>>[1] = e
    OBVIOUS
  <2> QED BY <2>1, Zenon
<1>2. t = top \o s
  BY <1>1
<1>3. \A k \in DOMAIN s : s[k].at \in Nat /\ e.at \in Nat
  <2>1. \A k \in DOMAIN s : s[k] \in Entry
    OBVIOUS
  <2> QED BY <2>1, TraktBounds DEF Entry
<1>4. /\ t \in Seq(Entry) /\ Len(t) = Len(s) + 1
      /\ 1 \in DOMAIN t /\ t[1] = e
      /\ \A k \in DOMAIN t : (k = 1 /\ t[k] = e) \/ (k - 1 \in DOMAIN s /\ t[k] = s[k - 1])
      /\ MoviesOf(t) = MoviesOf(top) \cup MoviesOf(s)
  <2>1. /\ t \in Seq(Entry) /\ Len(t) = Len(top) + Len(s)
        /\ \A k \in DOMAIN top : k \in DOMAIN t /\ t[k] = top[k]
        /\ \A k \in DOMAIN t : \/ k \in DOMAIN top /\ t[k] = top[k]
                               \/ k - Len(top) \in DOMAIN s /\ t[k] = s[k - Len(top)]
        /\ MoviesOf(t) = MoviesOf(top) \cup MoviesOf(s)
    <3>1. /\ t \in Seq(Entry) /\ Len(t) = Len(top) + Len(s)
          /\ MoviesOf(t) = MoviesOf(top) \cup MoviesOf(s)
      BY <1>2, ConcatEntries, Zenon
    <3>2. \A k \in DOMAIN top : k \in DOMAIN t /\ t[k] = top[k]
      BY <1>2, ConcatEntries
    <3>3. \A k \in DOMAIN t : \/ k \in DOMAIN top /\ t[k] = top[k]
                              \/ k - Len(top) \in DOMAIN s /\ t[k] = s[k - Len(top)]
      BY <1>2, ConcatEntries
    <3> QED BY <3>1, <3>2, <3>3, Zenon
  <2>2. Len(s) \in Nat
    BY LenProperties
  <2>3. Len(t) = Len(s) + 1
    BY <1>1, <2>1, <2>2
  <2> QED BY <1>1, <2>1, <2>3
<1>5. MoviesOf(top) = {e.movie}
  BY <1>1 DEF MoviesOf
<1>6. Distinct(top) /\ Falling(top)
  BY <1>1 DEF Distinct, Falling
<1>7. ASSUME Distinct(s), e.movie \notin MoviesOf(s) PROVE Distinct(t)
  <2>1. \A k \in DOMAIN s : s[k].movie \notin MoviesOf(top)
    BY <1>5, <1>7 DEF MoviesOf
  <2> QED BY <1>1, <1>2, <1>6, <1>7, <2>1, ConcatInOrder
<1>8. ASSUME Falling(s), \A k \in DOMAIN s : s[k].at <= e.at PROVE Falling(t)
  <2>1. \A i \in DOMAIN top, k \in DOMAIN s : top[i].at >= s[k].at
    BY <1>1, <1>3, <1>8
  <2> QED BY <1>1, <1>2, <1>6, <1>8, <2>1, ConcatInOrder
<1> QED BY <1>4, <1>5, <1>7, <1>8

\* The step that adds a movie, with the entry it puts on top.
LEMMA AddPutsOnTop ==
  ASSUME TypeInv, NEW m \in Movies, NEW at \in 1 .. MaxClock, AddToList(m, at)
  PROVE  \E e \in Entry :
           /\ e.movie = m /\ e.at = at /\ list' = <<e>> \o list
           /\ m \notin MoviesOf(list) /\ Len(list) < MaxListed
           /\ clock' = at /\ clock <= at /\ made' = made
           /\ run'.pc = run.pc /\ run'.page = run.page /\ run'.cursor = run.cursor
           /\ run'.items = run.items /\ run' \in Run
           /\ \/ run.pc = "idle" /\ run' = run
              \/ run.pc # "idle" /\ run'.added = run.added + 1
<1>1. PICK e : e = [movie |-> m, at |-> at]
  OBVIOUS
<1>2. e \in Entry /\ e.movie = m /\ e.at = at
  BY <1>1 DEF Entry
<1>3. /\ list' = <<e>> \o list /\ m \notin MoviesOf(list) /\ Len(list) < MaxListed
      /\ clock' = at /\ made' = made /\ at \in {clock, clock + 1}
  BY <1>1 DEF AddToList
<1>4. clock \in Nat /\ clock <= at
  BY <1>3 DEF TypeInv, TraktTypeOK
<1>5. run \in Run
  BY DEF TypeInv, TraktTypeOK
<1>6. run = [pc |-> run.pc, page |-> run.page, cursor |-> run.cursor, items |-> run.items,
             added |-> run.added]
  BY <1>5 DEF Run
<1>7. CASE run.pc = "idle"
  <2>1. run' = run
    BY <1>7 DEF AddToList
  <2> QED BY <2>1, <1>2, <1>3, <1>4, <1>5, <1>7
<1>8. CASE run.pc # "idle"
  <2>1. run' = [run EXCEPT !.added = @ + 1] /\ run.added < AddsWhilePaging
    BY <1>8 DEF AddToList
  <2>2. run' = [pc |-> run.pc, page |-> run.page, cursor |-> run.cursor, items |-> run.items,
                added |-> run.added + 1]
    BY <1>6, <2>1
  <2>3. run.added + 1 \in 0 .. AddsWhilePaging
    BY <1>5, <2>1, TraktBounds DEF Run
  <2>4. run' \in Run
    BY <1>5, <2>2, <2>3 DEF Run
  <2>5. /\ run'.pc = run.pc /\ run'.page = run.page /\ run'.cursor = run.cursor
        /\ run'.items = run.items /\ run'.added = run.added + 1
    BY <2>2
  <2> QED BY <2>4, <2>5, <1>2, <1>3, <1>4, <1>8
<1> QED BY <1>7, <1>8

-----------------------------------------------------------------------------
(* Types.                                                                  *)

\* A run, field by field.
LEMMA RunFields ==
  ASSUME NEW pc \in {"idle", "paging", "saving"}, NEW page \in 1 .. MaxPages,
         NEW cursor \in 0 .. MaxClock, NEW items \in Seq(Entry),
         NEW added \in 0 .. AddsWhilePaging, NEW r,
         r = [pc |-> pc, page |-> page, cursor |-> cursor, items |-> items, added |-> added]
  PROVE  r \in Run
BY DEF Run

\* No page, no run and no item of it yet: NoRun is a run.
LEMMA NoRunIsARun == NoRun \in Run
<1>1. 1 \in 1 .. MaxPages /\ 0 \in 0 .. MaxClock /\ 0 \in 0 .. AddsWhilePaging
  BY PageAssumption, TraktBounds
<1>2. << >> \in Seq(Entry)
  OBVIOUS
<1> QED BY <1>1, <1>2 DEF NoRun, Run

\* A run starts on the first page, with the newest second that was processed.
LEMMA RunBegins ==
  ASSUME TypeInv, BeginRun
  PROVE  /\ run' = [pc |-> "paging", page |-> 1, cursor |-> TraktCursor, items |-> << >>,
                    added |-> 0]
         /\ TraktCursor \in 0 .. MaxClock
<1>1. made \in Seq(Entry) /\ DOMAIN made = 1 .. Len(made)
  BY DEF TypeInv, TraktTypeOK
<1>2. \A k \in DOMAIN made : made[k] \in Entry
  BY <1>1
<1>3. \A k \in DOMAIN made : made[k].at \in 1 .. MaxClock
  BY <1>2 DEF Entry
<1>4. TraktCursor \in 0 .. MaxClock
  BY <1>1, <1>3, CursorIsNewest, TraktBounds
<1> QED BY <1>4 DEF BeginRun, NoRun

\* The types are kept by every step.
LEMMA TypesKept ==
  ASSUME TypeInv, Falling(list), [TraktNext]_traktVars
  PROVE  TypeInv'
<1>1. /\ list \in Seq(Entry) /\ made \in Seq(Entry) /\ run \in Run /\ clock \in 1 .. MaxClock
      /\ created \in Seq(Nat) /\ Len(created) = Len(made)
      /\ failures \in 0 .. failed /\ streak \in 0 .. failed
      /\ monitor \in {"none", "up", "down"} /\ failed \in Nat
  BY DEF TypeInv, TraktTypeOK
<1>2. CASE UNCHANGED traktVars
  BY <1>1, <1>2 DEF traktVars, TypeInv, TraktTypeOK
<1>3. ASSUME NEW m \in Movies, NEW at \in 1 .. MaxClock, AddToList(m, at) PROVE TypeInv'
  <2>1. PICK e \in Entry : list' = <<e>> \o list /\ clock' = at /\ made' = made /\ run' \in Run
    BY <1>3, AddPutsOnTop
  <2>2. list' \in Seq(Entry)
    BY <1>1, <2>1, AddEntries
  <2>3. UNCHANGED <<created, failures, streak, failed, monitor>>
    BY <1>3 DEF AddToList
  <2> QED BY <1>1, <2>1, <2>2, <2>3 DEF TypeInv, TraktTypeOK
<1>4. ASSUME NEW k \in DOMAIN list, RemoveFromList(k) PROVE TypeInv'
  <2>1. list' = RemoveAt(list, k) /\ UNCHANGED <<clock, made, created, run, failures, streak, failed, monitor>>
    BY <1>4 DEF RemoveFromList
  <2>2. list' \in Seq(Entry)
    BY <1>1, <2>1, RemoveAtEntries
  <2> QED BY <1>1, <2>1, <2>2 DEF TypeInv, TraktTypeOK
<1>5. CASE BeginRun
  <2>1. UNCHANGED <<list, clock, made, created, failures, streak, failed, monitor>>
    BY <1>5 DEF BeginRun
  <2>2. << >> \in Seq(Entry) /\ 1 \in 1 .. MaxPages /\ 0 \in 0 .. AddsWhilePaging
    BY PageAssumption, TraktBounds
  <2>3. run' \in Run
    BY <1>5, <2>2, RunBegins, RunFields
  <2> QED BY <1>1, <2>1, <2>3 DEF TypeInv, TraktTypeOK
<1>6. ASSUME NEW counted \in PageCounts, FetchPage(counted) PROVE TypeInv'
  <2>1. UNCHANGED <<list, clock, made, created, failures, streak, failed, monitor>>
    BY <1>6 DEF FetchPage, ReadPage
  <2>2. PICK before \in Nat, fresh \in Seq(Entry), new \in Seq(Entry) : PageRead(before, fresh, new)
    BY <1>6, FetchReadsPage
  <2>3. /\ run' = [pc |-> run'.pc, page |-> run'.page, cursor |-> run.cursor,
                   items |-> run.items \o new, added |-> run.added]
        /\ run'.pc \in {"paging", "saving"} /\ run'.page \in {run.page, run.page + 1}
        /\ run'.page = run.page + 1 => run.page + 1 \in 1 .. MaxPages \/ run'.page = run.page
    BY <2>2, Zenon DEF PageRead
  <2>4. /\ run.page \in 1 .. MaxPages /\ run.cursor \in 0 .. MaxClock /\ run.items \in Seq(Entry)
        /\ run.added \in 0 .. AddsWhilePaging
    BY <1>1 DEF Run
  <2>5. run.items \o new \in Seq(Entry)
    BY <2>4, ConcatEntries
  <2>6. run'.page \in 1 .. MaxPages
    BY <2>3, <2>4
  <2>7. run' \in Run
    BY <2>3, <2>4, <2>5, <2>6, RunFields
  <2> QED BY <1>1, <2>1, <2>7 DEF TypeInv, TraktTypeOK
<1>7. CASE SaveRun
  <2>1. /\ run' = NoRun /\ failures' = 0 /\ streak' = 0 /\ monitor' \in {"up", monitor}
        /\ UNCHANGED <<list, clock, failed>>
    BY <1>7 DEF SaveRun, StoreRun, Ping
  <2>2. PICK oldest \in Seq(Entry), new \in Seq(Entry) : made' = made \o new
    BY <1>7, SaveAppends
  <2>3. made' \in Seq(Entry)
    BY <1>1, <2>2, ConcatEntries
  <2>4. created' \in Seq(Nat) /\ Len(created') = Len(made')
    BY <1>7, SaveStamps
  <2> QED BY <1>1, <2>1, <2>3, <2>4, NoRunIsARun DEF TypeInv, TraktTypeOK
<1>8. CASE SignalFailure
  <2>1. made' = made /\ created' = created /\ run' = NoRun
    BY <1>8, FailureStoresNothing
  <2>2. /\ failures' = failures + 1 /\ streak' = streak + 1 /\ failed' = failed + 1
        /\ monitor' \in {"down", monitor} /\ UNCHANGED <<list, clock>>
    BY <1>8 DEF SignalFailure, FailRun, Ping
  <2>3. failures' \in 0 .. failed' /\ streak' \in 0 .. failed' /\ failed' \in Nat
    BY <1>1, <2>2
  <2> QED BY <1>1, <2>1, <2>2, <2>3, NoRunIsARun DEF TypeInv, TraktTypeOK
<1>9. CASE StopProcess
  <2>1. run' = NoRun /\ failures' = 0 /\ UNCHANGED <<list, clock, made, created, streak, failed, monitor>>
    BY <1>9 DEF StopProcess
  <2> QED BY <1>1, <2>1, NoRunIsARun DEF TypeInv, TraktTypeOK
<1> QED BY <1>2, <1>3, <1>4, <1>5, <1>6, <1>7, <1>8, <1>9 DEF TraktNext, SyncStep


-----------------------------------------------------------------------------
(* Each movie once.                                                        *)

\* The list is newest first and has each movie once; so has what the run has collected,
\* all of it from the cursor on; the cursor is still the newest second of the queue.
ListInv ==
  /\ Distinct(list) /\ Distinct(made) /\ Distinct(run.items)
  /\ Falling(list)
  /\ \A k \in DOMAIN list : list[k].at <= clock
  /\ \A k \in DOMAIN made : made[k].at <= clock
  /\ \A k \in DOMAIN run.items : run.items[k].at >= run.cursor /\ run.items[k].at <= clock
  /\ run.pc = "idle" => run.items = << >>
  /\ run.pc # "idle" => run.cursor = TraktCursor

Seen == Unusable \cup MoviesOf(run.items)

\* A list of entries as the provers use it.
LEMMA EntrySeq ==
  ASSUME NEW s \in Seq(Entry)
  PROVE  /\ Len(s) \in Nat /\ DOMAIN s = 1 .. Len(s)
         /\ \A k \in DOMAIN s : s[k] \in Entry /\ s[k].movie \in Movies /\ s[k].at \in Nat
<1>1. Len(s) \in Nat /\ DOMAIN s = 1 .. Len(s)
  OBVIOUS
<1>2. \A k \in DOMAIN s : s[k] \in Entry
  OBVIOUS
<1>3. \A e \in Entry : e.movie \in Movies /\ e.at \in Nat
  BY TraktBounds DEF Entry
<1> QED BY <1>1, <1>2, <1>3

\* The sequences and the numbers of a state.
LEMMA TypesOfState ==
  ASSUME TypeInv
  PROVE  /\ list \in Seq(Entry) /\ made \in Seq(Entry) /\ run.items \in Seq(Entry)
         /\ clock \in Nat /\ run.page \in Nat \ {0} /\ run.page <= MaxPages
         /\ run.cursor \in Nat /\ run.added \in 0 .. AddsWhilePaging
         /\ run.pc \in {"idle", "paging", "saving"}
BY PageAssumption, TraktBounds DEF TypeInv, TraktTypeOK, Run

\* NoRun has collected nothing.
LEMMA NoRunIsIdle ==
  /\ NoRun.pc = "idle" /\ NoRun.items = << >> /\ NoRun.page = 1 /\ NoRun.added = 0
  /\ Distinct(NoRun.items) /\ Falling(NoRun.items) /\ DOMAIN NoRun.items = {}
BY DEF NoRun, Distinct, Falling

\* What one page adds to the items: entries that stand on that page of the list, in its
\* order, that are not seen yet; and all of those that are not older than the cursor.
LEMMA PageAdds ==
  ASSUME TypeInv, Distinct(list), Falling(list),
         NEW before \in Nat, NEW fresh \in Seq(Entry), NEW new \in Seq(Entry),
         PageRead(before, fresh, new)
  PROVE  /\ Distinct(new) /\ Falling(new)
         /\ \A i \in DOMAIN new : /\ new[i].movie \notin Seen
                                  /\ new[i].at >= run.cursor
                                  /\ \E k \in DOMAIN list : /\ before < k /\ k <= before + PageLimit
                                                            /\ list[k] = new[i]
         /\ \A k \in DOMAIN list :
              before < k /\ k <= before + PageLimit /\ list[k].movie \notin Seen =>
                \/ \E i \in DOMAIN new : new[i] = list[k]
                \/ run'.pc = "saving" /\ list[k].at < run.cursor
<1>1. /\ new = Wanted(fresh, run.items) /\ Len(fresh) <= PageLimit
      /\ \A i \in DOMAIN fresh : /\ before + i \in DOMAIN list /\ fresh[i] = list[before + i]
                                 /\ fresh[i].at >= run.cursor
      /\ \A k \in DOMAIN list : before < k /\ k <= before + PageLimit =>
           k - before \in DOMAIN fresh \/ (run'.pc = "saving" /\ list[k].at < run.cursor)
  BY Zenon DEF PageRead
<1>2. new = Without(fresh, Seen)
  BY <1>1 DEF Wanted, Seen
<1>3. /\ list \in Seq(Entry) /\ Len(list) \in Nat /\ DOMAIN list = 1 .. Len(list)
      /\ Len(fresh) \in Nat /\ DOMAIN fresh = 1 .. Len(fresh) /\ PageLimit \in Nat
  BY TypesOfState, EntrySeq, PageAssumption
<1>4. Distinct(fresh)
  <2> SUFFICES ASSUME NEW i \in DOMAIN fresh, NEW j \in DOMAIN fresh,
                      fresh[i].movie = fresh[j].movie
               PROVE  i = j
    BY DEF Distinct
  <2>1. before + i = before + j
    BY <1>1 DEF Distinct
  <2> QED BY <2>1, <1>3
<1>5. Falling(fresh)
  <2> SUFFICES ASSUME NEW i \in DOMAIN fresh, NEW j \in DOMAIN fresh, i < j
               PROVE  fresh[i].at >= fresh[j].at
    BY DEF Falling
  <2>1. before + i < before + j
    BY <1>3
  <2> QED BY <2>1, <1>1 DEF Falling
<1>6. /\ \A i \in DOMAIN new : new[i].movie \notin Seen /\ \E k \in DOMAIN fresh : new[i] = fresh[k]
      /\ \A k \in DOMAIN fresh : fresh[k].movie \notin Seen => \E i \in DOMAIN new : new[i] = fresh[k]
      /\ Distinct(new) /\ Falling(new)
  BY <1>2, <1>4, <1>5, WithoutSelects
<1>7. ASSUME NEW i \in DOMAIN new
      PROVE  /\ new[i].at >= run.cursor
             /\ \E k \in DOMAIN list : before < k /\ k <= before + PageLimit /\ list[k] = new[i]
  <2>1. PICK k \in DOMAIN fresh : new[i] = fresh[k]
    BY <1>6
  <2>2. before + k \in DOMAIN list /\ fresh[k] = list[before + k] /\ fresh[k].at >= run.cursor
    BY <1>1
  <2>3. before < before + k /\ before + k <= before + PageLimit
    BY <1>1, <1>3
  <2> QED BY <2>1, <2>2, <2>3
<1>8. ASSUME NEW k \in DOMAIN list, before < k, k <= before + PageLimit, list[k].movie \notin Seen
      PROVE  \/ \E i \in DOMAIN new : new[i] = list[k]
             \/ run'.pc = "saving" /\ list[k].at < run.cursor
  <2>1. CASE k - before \in DOMAIN fresh
    <3>1. before + (k - before) = k
      BY <1>3
    <3>2. fresh[k - before] = list[k]
      BY <2>1, <3>1, <1>1
    <3> QED BY <2>1, <3>2, <1>6, <1>8
  <2> QED BY <2>1, <1>1, <1>8
<1> QED BY <1>6, <1>7, <1>8


\* The items after a page has been read.
LEMMA ItemsAfterPage ==
  ASSUME TypeInv, NEW before \in Nat, NEW fresh \in Seq(Entry), NEW new \in Seq(Entry),
         PageRead(before, fresh, new)
  PROVE  /\ run'.items = run.items \o new /\ run'.items \in Seq(Entry)
         /\ MoviesOf(run'.items) = MoviesOf(run.items) \cup MoviesOf(new)
         /\ run'.cursor = run.cursor /\ run'.added = run.added
         /\ run'.pc \in {"paging", "saving"}
         /\ \A k \in DOMAIN run'.items :
              \/ \E i \in DOMAIN run.items : run'.items[k] = run.items[i]
              \/ \E i \in DOMAIN new : run'.items[k] = new[i]
<1>1. run' = [pc |-> run'.pc, page |-> run'.page, cursor |-> run.cursor,
              items |-> run.items \o new, added |-> run.added]
  BY Zenon DEF PageRead
<1>2. run'.items = run.items \o new /\ run'.cursor = run.cursor /\ run'.added = run.added
  BY <1>1
<1>3. run'.pc \in {"paging", "saving"}
  BY Zenon DEF PageRead
<1>4. run.items \in Seq(Entry)
  BY TypesOfState
<1>5. PICK items : items = run'.items
  OBVIOUS
<1>6. items = run.items \o new
  BY <1>2, <1>5
<1>7. items \in Seq(Entry) /\ MoviesOf(items) = MoviesOf(run.items) \cup MoviesOf(new)
  BY <1>4, <1>6, ConcatEntries, Zenon
<1>8. \A k \in DOMAIN items : \/ k \in DOMAIN run.items /\ items[k] = run.items[k]
                              \/ k - Len(run.items) \in DOMAIN new /\ items[k] = new[k - Len(run.items)]
  BY <1>4, <1>6, ConcatEntries
<1> QED BY <1>2, <1>3, <1>5, <1>7, <1>8

\* Whatever clears the run and leaves the list and the queue alone keeps ListInv.
LEMMA DroppedRunKeeps ==
  ASSUME ListInv, UNCHANGED <<list, clock, made>>, run' = NoRun
  PROVE  ListInv'
<1>1. /\ run'.pc = "idle" /\ run'.items = << >>
      /\ Distinct(run'.items) /\ DOMAIN run'.items = {}
  BY NoRunIsIdle
<1> QED BY <1>1 DEF ListInv, Distinct, Falling

\* The cursor changes only with the queue.
LEMMA CursorUnchanged == UNCHANGED made => TraktCursor' = TraktCursor
BY DEF TraktCursor

\* ListInv is kept by every step.
LEMMA ListInvKept ==
  ASSUME TypeInv, ListInv, [TraktNext]_traktVars
  PROVE  ListInv'
<1>1. /\ list \in Seq(Entry) /\ made \in Seq(Entry) /\ run.items \in Seq(Entry)
      /\ clock \in Nat /\ run.cursor \in Nat
  BY TypesOfState
<1>2. /\ Distinct(list) /\ Distinct(made) /\ Distinct(run.items) /\ Falling(list)
      /\ \A k \in DOMAIN list : list[k].at <= clock
      /\ \A k \in DOMAIN made : made[k].at <= clock
      /\ \A k \in DOMAIN run.items : run.items[k].at >= run.cursor /\ run.items[k].at <= clock
      /\ run.pc = "idle" => run.items = << >>
      /\ run.pc # "idle" => run.cursor = TraktCursor
  BY DEF ListInv
<1>3. /\ \A k \in DOMAIN list : list[k].at \in Nat
      /\ \A k \in DOMAIN made : made[k].at \in Nat
      /\ \A k \in DOMAIN run.items : run.items[k].at \in Nat
  BY <1>1, EntrySeq
<1>4. CASE UNCHANGED traktVars
  BY <1>4 DEF traktVars, ListInv, Distinct, Falling, TraktCursor
<1>5. ASSUME NEW m \in Movies, NEW at \in 1 .. MaxClock, AddToList(m, at) PROVE ListInv'
  <2>1. PICK e \in Entry :
          /\ e.movie = m /\ e.at = at /\ list' = <<e>> \o list
          /\ m \notin MoviesOf(list) /\ clock' = at /\ clock <= at /\ made' = made
          /\ run'.pc = run.pc /\ run'.cursor = run.cursor /\ run'.items = run.items
    BY <1>5, AddPutsOnTop, ZenonT(40)
  <2>2. at \in Nat
    BY TraktBounds
  <2>3. \A k \in DOMAIN list : list[k].at <= e.at
    BY <1>1, <1>2, <1>3, <2>1, <2>2
  <2>4. PICK longer : longer = list'
    OBVIOUS
  <2>5. longer = <<e>> \o list
    BY <2>1, <2>4
  <2>6. \A k \in DOMAIN longer : (k = 1 /\ longer[k] = e) \/ (k - 1 \in DOMAIN list /\ longer[k] = list[k - 1])
    BY <1>1, <2>5, AddEntries
  <2>7. Distinct(longer) /\ Falling(longer)
    BY <1>1, <1>2, <2>1, <2>3, <2>5, AddEntries, Zenon
  <2>8. \A k \in DOMAIN longer : longer[k].at <= at
    BY <2>1, <2>2, <2>3, <2>6
  <2>9. /\ \A k \in DOMAIN made' : made'[k].at <= clock'
        /\ \A k \in DOMAIN run'.items : run'.items[k].at >= run'.cursor /\ run'.items[k].at <= clock'
    BY <1>1, <1>2, <1>3, <2>1, <2>2
  <2>10. /\ Distinct(made') /\ Distinct(run'.items)
         /\ run'.pc = "idle" => run'.items = << >>
         /\ run'.pc # "idle" => run'.cursor = TraktCursor'
    BY <1>2, <2>1, CursorUnchanged
  <2> QED BY <2>1, <2>4, <2>7, <2>8, <2>9, <2>10 DEF ListInv, Distinct, Falling
<1>6. ASSUME NEW k \in DOMAIN list, RemoveFromList(k) PROVE ListInv'
  <2>1. list' = RemoveAt(list, k) /\ UNCHANGED <<clock, made, run>>
    BY <1>6 DEF RemoveFromList
  <2>2. PICK shorter : shorter = list'
    OBVIOUS
  <2>3. /\ \A i \in DOMAIN shorter : \E j \in DOMAIN list : shorter[i] = list[j]
        /\ Distinct(shorter) /\ Falling(shorter)
    BY <1>1, <1>2, <2>1, <2>2, RemovedEntries
  <2>4. \A i \in DOMAIN shorter : shorter[i].at <= clock
    BY <1>2, <2>3
  <2> QED BY <1>2, <2>1, <2>2, <2>3, <2>4, CursorUnchanged DEF ListInv, Distinct, Falling
<1>7. CASE BeginRun
  <2>1. UNCHANGED <<list, clock, made>>
    BY <1>7 DEF BeginRun
  <2>2. run'.pc = "paging" /\ run'.cursor = TraktCursor /\ run'.items = << >>
    BY <1>7, RunBegins
  <2>3. Distinct(run'.items) /\ DOMAIN run'.items = {}
    BY <2>2 DEF Distinct
  <2> QED BY <1>2, <2>1, <2>2, <2>3, CursorUnchanged DEF ListInv, Distinct, Falling
<1>8. ASSUME NEW counted \in PageCounts, FetchPage(counted) PROVE ListInv'
  <2>1. UNCHANGED <<list, clock, made>> /\ run.pc = "paging"
    BY <1>8 DEF FetchPage, ReadPage
  <2>2. PICK before \in Nat, fresh \in Seq(Entry), new \in Seq(Entry) : PageRead(before, fresh, new)
    BY <1>2, <1>8, FetchReadsPage
  <2>3. PICK items : items = run'.items
    OBVIOUS
  <2>4. /\ items = run.items \o new
        /\ run'.cursor = run.cursor /\ run'.pc # "idle"
        /\ \A k \in DOMAIN items : \/ \E i \in DOMAIN run.items : items[k] = run.items[i]
                                   \/ \E i \in DOMAIN new : items[k] = new[i]
    BY <2>2, <2>3, ItemsAfterPage
  <2>5. /\ Distinct(new)
        /\ \A i \in DOMAIN new : /\ new[i].movie \notin Seen /\ new[i].at >= run.cursor
                                 /\ \E k \in DOMAIN list : list[k] = new[i]
    BY <1>2, <2>2, PageAdds
  <2>6. \A i \in DOMAIN new : new[i].movie \notin MoviesOf(run.items) /\ new[i].at <= clock
    BY <1>2, <2>5 DEF Seen
  <2>7. Distinct(items)
    BY <1>1, <1>2, <2>4, <2>5, <2>6, ConcatInOrder
  <2>8. \A k \in DOMAIN items : items[k].at >= run.cursor /\ items[k].at <= clock
    BY <1>2, <2>4, <2>5, <2>6
  <2> QED BY <1>2, <2>1, <2>3, <2>4, <2>7, <2>8, CursorUnchanged DEF ListInv, Distinct, Falling
<1>9. CASE SaveRun
  <2>1. UNCHANGED <<list, clock>> /\ run' = NoRun
    BY <1>9 DEF SaveRun, StoreRun
  <2>2. PICK oldest \in Seq(Entry), new \in Seq(Entry) :
          oldest = Reverse(run.items) /\ new = Without(oldest, Processed) /\ made' = made \o new
    BY <1>9, SaveAppends
  <2>3. Distinct(oldest) /\ \A i \in DOMAIN oldest : \E k \in DOMAIN run.items : oldest[i] = run.items[k]
    BY <1>1, <1>2, <2>2, ReverseEntries
  <2>4. /\ Distinct(new)
        /\ \A i \in DOMAIN new : new[i].movie \notin Processed /\ \E k \in DOMAIN oldest : new[i] = oldest[k]
    BY <2>2, <2>3, WithoutSelects
  <2>5. PICK longer : longer = made'
    OBVIOUS
  <2>6. Distinct(longer)
    BY <1>1, <1>2, <2>2, <2>4, <2>5, ConcatInOrder DEF Processed
  <2>7. \A k \in DOMAIN longer : \/ k \in DOMAIN made /\ longer[k] = made[k]
                                 \/ k - Len(made) \in DOMAIN new /\ longer[k] = new[k - Len(made)]
    BY <1>1, <2>2, <2>5, ConcatEntries
  <2>8. \A k \in DOMAIN longer : longer[k].at <= clock
    <3>1. \A i \in DOMAIN new : new[i].at <= clock
      BY <1>2, <2>3, <2>4
    <3> QED BY <1>2, <2>7, <3>1
  <2>9. /\ run'.pc = "idle" /\ run'.items = << >>
        /\ Distinct(run'.items) /\ DOMAIN run'.items = {}
    BY <2>1, NoRunIsIdle
  <2> QED BY <1>2, <2>1, <2>5, <2>6, <2>8, <2>9 DEF ListInv, Distinct, Falling
<1>10. CASE SignalFailure
  <2>1. made' = made /\ run' = NoRun
    BY <1>10, FailureStoresNothing
  <2>2. UNCHANGED <<list, clock>>
    BY <1>10 DEF SignalFailure, FailRun
  <2> QED BY <2>1, <2>2, DroppedRunKeeps
<1>11. CASE StopProcess
  BY <1>11, DroppedRunKeeps DEF StopProcess
<1> QED BY <1>4, <1>5, <1>6, <1>7, <1>8, <1>9, <1>10, <1>11 DEF TraktNext, SyncStep

\* Nothing is listed, made or running at first.
LEMMA TraktStarts == TraktInit => TypeInv /\ ListInv
<1> SUFFICES ASSUME TraktInit PROVE TypeInv /\ ListInv
  OBVIOUS
<1>1. << >> \in Seq(Entry) /\ << >> \in Seq(Nat) /\ DOMAIN << >> = {}
  OBVIOUS
<1>2. /\ list = << >> /\ made = << >> /\ created = << >> /\ run = NoRun /\ clock = 1 /\ failures = 0 /\ streak = 0
      /\ failed = 0 /\ monitor = "none"
  BY DEF TraktInit
<1>3. TypeInv
  BY <1>1, <1>2, NoRunIsARun, TraktBounds DEF TypeInv, TraktTypeOK
<1>4. ListInv
  BY <1>1, <1>2, NoRunIsIdle DEF ListInv, Distinct, Falling
<1> QED BY <1>3, <1>4

\* Both hold in every state.
LEMMA ListInvAlways == TraktSpec => [](TypeInv /\ ListInv)
<1>1. TypeInv /\ ListInv /\ [TraktNext]_traktVars => (TypeInv /\ ListInv)'
  BY TypesKept, ListInvKept DEF ListInv
<1> QED BY <1>1, TraktStarts, PTL DEF TraktSpec

\* The types of the state, among them the page and the cursor of a run.
THEOREM TraktTypes == TraktSpec => []TraktTypeOK
<1>1. TypeInv => TraktTypeOK
  BY DEF TypeInv
<1> QED BY <1>1, ListInvAlways, PTL

\* "Each movie is scheduled once": the queue has no movie twice, and neither has what a
\* run hands to the insert, however the list moved while it was read (collect, SyncOnce).
THEOREM EachMovieOnce == TraktSpec => []ScheduledOnce
<1>1. ListInv => ScheduledOnce
  BY DEF ListInv, ScheduledOnce, Distinct
<1> QED BY <1>1, ListInvAlways, PTL

-----------------------------------------------------------------------------
(* The order of the rows.                                                  *)

\* What is on the list and not seen yet is not newer than what has been collected, unless
\* it was moved in front of the next page by what the owner added since: `added` entries
\* move that much of the list past a page boundary and no more.
OrderInv ==
  /\ Rising(made) /\ Falling(run.items)
  /\ run.pc = "paging" /\ run.page = 1 => run.items = << >>
  /\ run.pc = "paging" =>
       \A k \in DOMAIN list : list[k].movie \notin Seen =>
         \/ k + PageLimit - run.added <= (run.page - 1) * PageLimit
         \/ \A i \in DOMAIN run.items : run.items[i].at >= list[k].at

\* After the first page there is at least a page in front.
LEMMA PageInFront ==
  ASSUME NEW page \in Nat \ {0}, page # 1
  PROVE  (page - 1) * PageLimit >= PageLimit
<1>1. PageLimit \in Nat
  BY PageAssumption
<1>2. PICK rest \in Nat : page - 1 = rest + 1
  <2>1. page - 2 \in Nat /\ page - 1 = (page - 2) + 1
    OBVIOUS
  <2> QED BY <2>1
<1>3. rest * PageLimit \in Nat /\ (rest + 1) * PageLimit = rest * PageLimit + PageLimit
  BY <1>1
<1> QED BY <1>1, <1>2, <1>3

\* A run that is not paging has nothing to be in order.
LEMMA OrderWithoutPaging ==
  ASSUME Rising(made'), Falling(run'.items), run'.pc # "paging"
  PROVE  OrderInv'
BY DEF OrderInv, Rising, Falling

\* A movie that the owner adds moves the rest of the list down by one.
LEMMA OrderAfterAdd ==
  ASSUME TypeInv, OrderInv, AddsWhilePaging <= PageLimit,
         NEW m \in Movies, NEW at \in 1 .. MaxClock, AddToList(m, at)
  PROVE  OrderInv'
<1>1. PICK e \in Entry :
        /\ list' = <<e>> \o list /\ made' = made
        /\ run'.pc = run.pc /\ run'.page = run.page /\ run'.items = run.items
        /\ \/ run.pc = "idle" /\ run' = run
           \/ run.pc # "idle" /\ run'.added = run.added + 1
  BY AddPutsOnTop, ZenonT(40)
<1>2. /\ list \in Seq(Entry) /\ run.page \in Nat \ {0} /\ run.added \in Nat
      /\ PageLimit \in Nat /\ Len(list) \in Nat /\ DOMAIN list = 1 .. Len(list)
  BY TypesOfState, EntrySeq, PageAssumption
<1>3. Rising(made') /\ Falling(run'.items)
  BY <1>1 DEF OrderInv, Rising, Falling
<1>4. CASE run.pc # "paging"
  BY <1>1, <1>3, <1>4, OrderWithoutPaging
<1>5. CASE run.pc = "paging"
  <2>1. run'.added = run.added + 1
    BY <1>1, <1>5
  <2>2. PICK longer : longer = list'
    OBVIOUS
  <2>3. longer = <<e>> \o list
    BY <1>1, <2>2
  <2>4. \A k \in DOMAIN longer : (k = 1 /\ longer[k] = e) \/ (k - 1 \in DOMAIN list /\ longer[k] = list[k - 1])
    BY <1>2, <2>3, AddEntries
  <2>5. PICK front : front = (run.page - 1) * PageLimit
    OBVIOUS
  <2>6. front \in Nat /\ (run.page # 1 => front >= PageLimit)
    BY <1>2, <2>5, PageInFront
  <2>7. ASSUME NEW k \in DOMAIN longer, longer[k].movie \notin Seen
        PROVE  \/ k + PageLimit - (run.added + 1) <= front
               \/ \A i \in DOMAIN run.items : run.items[i].at >= longer[k].at
    <3>1. CASE k = 1
      <4>1. CASE run.page = 1
        <5>1. run.items = << >>
          BY <1>5, <4>1 DEF OrderInv
        <5> QED BY <5>1
      <4>2. CASE run.page # 1
        <5>1. front >= PageLimit
          BY <2>6, <4>2
        <5> QED BY <5>1, <3>1, <1>2, <2>6
      <4> QED BY <4>1, <4>2
    <3>2. CASE k - 1 \in DOMAIN list /\ longer[k] = list[k - 1]
      <4>1. \/ (k - 1) + PageLimit - run.added <= front
            \/ \A i \in DOMAIN run.items : run.items[i].at >= list[k - 1].at
        BY <1>5, <2>5, <2>7, <3>2 DEF OrderInv
      <4>2. k \in Int
        BY <1>2, <2>4, <3>2
      <4>3. (k - 1) + PageLimit - run.added = k + PageLimit - (run.added + 1)
        <5>1. \A x, y, z \in Int : (x - 1) + y - z = x + y - (z + 1)
          OBVIOUS
        <5>2. PageLimit \in Int /\ run.added \in Int
          BY <1>2
        <5> QED BY <4>2, <5>1, <5>2, Zenon
      <4> QED BY <4>1, <4>3, <3>2
    <3> QED BY <3>1, <3>2, <2>4
  <2> QED BY <1>1, <1>3, <1>5, <2>1, <2>2, <2>5, <2>7 DEF OrderInv, Rising, Falling, Seen, MoviesOf
<1> QED BY <1>4, <1>5

\* A movie that the owner removes moves the rest up.
LEMMA OrderAfterRemove ==
  ASSUME TypeInv, OrderInv, NEW gone \in DOMAIN list, RemoveFromList(gone)
  PROVE  OrderInv'
<1>1. list' = RemoveAt(list, gone) /\ UNCHANGED <<made, run>>
  BY DEF RemoveFromList
<1>2. /\ list \in Seq(Entry) /\ run.page \in Nat \ {0} /\ run.added \in Nat
      /\ PageLimit \in Nat /\ Len(list) \in Nat /\ DOMAIN list = 1 .. Len(list)
  BY TypesOfState, EntrySeq, PageAssumption
<1>3. PICK shorter : shorter = list'
  OBVIOUS
<1>4. shorter = RemoveAt(list, gone)
  BY <1>1, <1>3
<1>5. \A k \in DOMAIN shorter : \E j \in DOMAIN list : (j = k \/ j = k + 1) /\ shorter[k] = list[j]
  <2>1. list \in Seq(Entry)
    BY <1>2
  <2> QED BY <2>1, <1>4, RemovedEntries
<1>6. shorter \in Seq(Entry)
  BY <1>2, <1>4, RemovedEntries
<1>7. PICK front : front = (run.page - 1) * PageLimit
  OBVIOUS
<1>8. front \in Nat
  BY <1>2, <1>7
<1>9. ASSUME run.pc = "paging", NEW k \in DOMAIN shorter, shorter[k].movie \notin Seen
      PROVE  \/ k + PageLimit - run.added <= front
             \/ \A i \in DOMAIN run.items : run.items[i].at >= shorter[k].at
  <2>1. k \in Nat
    BY <1>6, EntrySeq
  <2>2. PICK j \in DOMAIN list : (j = k \/ j = k + 1) /\ shorter[k] = list[j]
    BY <1>5, Zenon
  <2>3. \/ j + PageLimit - run.added <= front
        \/ \A i \in DOMAIN run.items : run.items[i].at >= list[j].at
    BY <1>7, <1>9, <2>2 DEF OrderInv
  <2>4. j + PageLimit - run.added <= front => k + PageLimit - run.added <= front
    BY <1>2, <1>8, <2>1, <2>2
  <2> QED BY <2>2, <2>3, <2>4
<1> QED BY <1>1, <1>3, <1>7, <1>9 DEF OrderInv, Rising, Falling, Seen, MoviesOf

\* A page that is read goes below what is there, and leaves nothing unseen before its end
\* except what has moved there.
LEMMA OrderAfterPage ==
  ASSUME TypeInv, ListInv, OrderInv, AddsWhilePaging <= PageLimit,
         NEW counted, FetchPage(counted)
  PROVE  OrderInv'
<1>1. UNCHANGED <<list, made>> /\ run.pc = "paging"
  BY DEF FetchPage, ReadPage
<1>2. /\ list \in Seq(Entry) /\ run.items \in Seq(Entry) /\ run.page \in Nat \ {0}
      /\ run.added \in Nat /\ run.added <= PageLimit /\ PageLimit \in Nat
      /\ Len(list) \in Nat /\ DOMAIN list = 1 .. Len(list)
      /\ \A k \in DOMAIN list : list[k].at \in Nat
  BY TypesOfState, EntrySeq, PageAssumption, TraktBounds
<1>3. Distinct(list) /\ Falling(list)
  BY DEF ListInv
<1>4. PICK before \in Nat, fresh \in Seq(Entry), new \in Seq(Entry) : PageRead(before, fresh, new)
  BY <1>3, FetchReadsPage
<1>5. before = (run.page - 1) * PageLimit /\ before + PageLimit = run.page * PageLimit
  BY <1>4, Zenon DEF PageRead
<1>6. /\ Falling(new)
      /\ \A i \in DOMAIN new : new[i].movie \notin Seen /\
           \E k \in DOMAIN list : before < k /\ k <= before + PageLimit /\ list[k] = new[i]
      /\ \A k \in DOMAIN list :
           before < k /\ k <= before + PageLimit /\ list[k].movie \notin Seen =>
             (\E i \in DOMAIN new : new[i] = list[k]) \/ run'.pc = "saving"
  BY <1>3, <1>4, PageAdds
<1>7. PICK items : items = run'.items
  OBVIOUS
<1>8. /\ items = run.items \o new /\ MoviesOf(items) = MoviesOf(run.items) \cup MoviesOf(new)
      /\ run'.added = run.added
      /\ \A k \in DOMAIN items : \/ \E i \in DOMAIN run.items : items[k] = run.items[i]
                                 \/ \E i \in DOMAIN new : items[k] = new[i]
  BY <1>4, <1>7, ItemsAfterPage
<1>9. ASSUME NEW k \in DOMAIN list, before < k, list[k].movie \notin Seen
      PROVE  \A i \in DOMAIN run.items : run.items[i].at >= list[k].at
  <2>1. ~(k + PageLimit - run.added <= before)
    BY <1>2, <1>9
  <2> QED BY <2>1, <1>1, <1>5, <1>9 DEF OrderInv
<1>10. Falling(items)
  <2>1. ASSUME NEW i \in DOMAIN run.items, NEW j \in DOMAIN new PROVE run.items[i].at >= new[j].at
    <3>1. PICK k \in DOMAIN list : before < k /\ list[k] = new[j]
      BY <1>6
    <3>2. list[k].movie \notin Seen
      BY <1>6, <3>1
    <3> QED BY <3>1, <3>2, <1>9
  <2>2. Falling(run.items)
    BY DEF OrderInv
  <2> QED BY <2>1, <2>2, <1>2, <1>6, <1>8, ConcatInOrder
<1>11. Rising(made') /\ Falling(run'.items)
  BY <1>1, <1>7, <1>10 DEF OrderInv, Rising, Falling
<1>12. CASE run'.pc # "paging"
  BY <1>11, <1>12, OrderWithoutPaging
<1>13. CASE run'.pc = "paging"
  <2>1. run'.page = run.page + 1
    BY <1>4, <1>13 DEF PageRead
  <2>2. run'.page # 1
    BY <1>2, <2>1
  <2>3. (run'.page - 1) * PageLimit = before + PageLimit
    <3>1. run'.page - 1 = run.page
      BY <1>2, <2>1
    <3> QED BY <3>1, <1>5
  <2>4. ASSUME NEW k \in DOMAIN list, list[k].movie \notin Unusable \cup MoviesOf(items)
        PROVE  \/ k + PageLimit - run.added <= before + PageLimit
               \/ \A i \in DOMAIN items : items[i].at >= list[k].at
    <3>1. list[k].movie \notin Seen /\ k \in Nat
      BY <2>4, <1>2, <1>8 DEF Seen
    <3>2. CASE k <= before
      BY <3>1, <3>2, <1>2
    <3>3. CASE before < k /\ k <= before + PageLimit
      <4>1. PICK i \in DOMAIN new : new[i] = list[k]
        BY <3>1, <3>3, <1>6, <1>13
      <4>2. list[k].movie \in MoviesOf(new)
        BY <4>1 DEF MoviesOf
      <4> QED BY <4>2, <2>4, <1>8
    <3>4. CASE before + PageLimit < k
      <4>1. \A i \in DOMAIN run.items : run.items[i].at >= list[k].at
        BY <3>1, <3>4, <1>2, <1>9
      <4>2. ASSUME NEW i \in DOMAIN new PROVE new[i].at >= list[k].at
        <5>1. PICK j \in DOMAIN list : j <= before + PageLimit /\ list[j] = new[i]
          BY <1>6
        <5>2. j < k
          BY <5>1, <3>4, <1>2
        <5> QED BY <5>1, <5>2, <1>3 DEF Falling
      <4> QED BY <4>1, <4>2, <1>8
    <3> QED BY <3>1, <3>2, <3>3, <3>4, <1>2
  <2>5. Seen' = Unusable \cup MoviesOf(items)
    BY <1>7 DEF Seen, MoviesOf
  <2>6. ASSUME NEW k \in DOMAIN list', list'[k].movie \notin Seen'
        PROVE  \/ k + PageLimit - run'.added <= (run'.page - 1) * PageLimit
               \/ \A i \in DOMAIN run'.items : run'.items[i].at >= list'[k].at
    <3>1. k \in DOMAIN list /\ list[k].movie \notin Unusable \cup MoviesOf(items) /\ list' = list
      BY <2>5, <2>6, <1>1
    <3> QED BY <3>1, <2>3, <2>4, <1>7, <1>8, Zenon
  <2> QED BY <2>2, <2>6, <1>11 DEF OrderInv, Rising, Falling
<1> QED BY <1>12, <1>13


\* Everything a run stores is from its cursor on, and the cursor is the newest second that
\* was there: what is appended, oldest first, goes after it.
LEMMA OrderAfterSave ==
  ASSUME TypeInv, ListInv, OrderInv, SaveRun
  PROVE  OrderInv'
<1>1. /\ made \in Seq(Entry) /\ run.items \in Seq(Entry) /\ run.cursor \in Nat
      /\ \A k \in DOMAIN made : made[k].at \in Nat
      /\ \A k \in DOMAIN run.items : run.items[k].at \in Nat
  BY TypesOfState, EntrySeq
<1>2. run' = NoRun /\ run.pc = "saving"
  BY DEF SaveRun, StoreRun
<1>3. PICK oldest \in Seq(Entry), new \in Seq(Entry) :
        oldest = Reverse(run.items) /\ new = Without(oldest, Processed) /\ made' = made \o new
  BY SaveAppends
<1>4. Rising(made) /\ Falling(run.items)
  BY DEF OrderInv
<1>5. Rising(oldest) /\ \A i \in DOMAIN oldest : \E k \in DOMAIN run.items : oldest[i] = run.items[k]
  BY <1>1, <1>3, <1>4, ReverseEntries
<1>6. Rising(new) /\ \A i \in DOMAIN new : \E k \in DOMAIN oldest : new[i] = oldest[k]
  BY <1>3, <1>5, WithoutSelects
<1>7. \A i \in DOMAIN made, k \in DOMAIN new : made[i].at <= new[k].at
  <2> TAKE i \in DOMAIN made, k \in DOMAIN new
  <2>1. PICK j \in DOMAIN run.items : new[k] = run.items[j]
    BY <1>5, <1>6
  <2>2. run.items[j].at >= run.cursor /\ run.cursor = TraktCursor
    BY <1>2 DEF ListInv
  <2>3. made[i].at <= TraktCursor
    BY <1>1, CursorIsNewest
  <2> QED BY <2>1, <2>2, <2>3, <1>1
<1>8. PICK longer : longer = made'
  OBVIOUS
<1>9. longer = made \o new
  BY <1>3, <1>8
<1>10. Rising(longer)
  BY <1>1, <1>4, <1>6, <1>7, <1>9, ConcatInOrder
<1>11. Rising(made')
  BY <1>8, <1>10 DEF Rising
<1>12. Falling(run'.items) /\ run'.pc # "paging"
  BY <1>2, NoRunIsIdle
<1> QED BY <1>11, <1>12, OrderWithoutPaging

\* OrderInv is kept by every step, as long as the owner adds no more than a page of movies
\* while a run reads the list.
LEMMA OrderInvKept ==
  ASSUME TypeInv, ListInv, OrderInv, AddsWhilePaging <= PageLimit, [TraktNext]_traktVars
  PROVE  OrderInv'
<1>1. CASE UNCHANGED traktVars
  BY <1>1 DEF traktVars, OrderInv, Rising, Falling, Seen, MoviesOf
<1>2. CASE BeginRun
  <2>1. made' = made /\ list' = list
    BY <1>2 DEF BeginRun
  <2>2. run'.pc = "paging" /\ run'.page = 1 /\ run'.items = << >>
    BY <1>2, RunBegins
  <2>3. Falling(run'.items) /\ \A i \in DOMAIN run'.items : FALSE
    BY <2>2 DEF Falling
  <2> QED BY <2>1, <2>2, <2>3 DEF OrderInv, Rising, Falling
<1>3. ASSUME made' = made, run' = NoRun PROVE OrderInv'
  <2>1. Falling(run'.items) /\ run'.pc # "paging"
    BY <1>3, NoRunIsIdle
  <2> QED BY <2>1, <1>3, OrderWithoutPaging DEF OrderInv, Rising, Falling
<1>4. CASE SignalFailure
  BY <1>3, <1>4, FailureStoresNothing
<1>5. CASE StopProcess
  BY <1>3, <1>5 DEF StopProcess
<1> QED BY <1>1, <1>2, <1>4, <1>5, OrderAfterAdd, OrderAfterRemove, OrderAfterPage,
           OrderAfterSave DEF TraktNext, SyncStep

\* "Entries are returned oldest first" (collect): the rows go into the table in the order
\* the movies were added, across runs, restarts and edits of the list, as long as the owner
\* adds no more than a page of movies while a run reads the list.
THEOREM InsertionFollowsList ==
  ASSUME AddsWhilePaging <= PageLimit
  PROVE  TraktSpec => []InsertedInListOrder
<1>1. TraktInit => OrderInv
  <2> SUFFICES ASSUME TraktInit PROVE OrderInv
    OBVIOUS
  <2>1. made = << >> /\ run = NoRun
    BY DEF TraktInit
  <2>2. Rising(made) /\ Falling(run.items) /\ run.pc # "paging"
    BY <2>1, NoRunIsIdle DEF Rising
  <2> QED BY <2>2 DEF OrderInv
<1>2. TypeInv /\ ListInv /\ OrderInv /\ [TraktNext]_traktVars => OrderInv'
  BY OrderInvKept
<1>3. OrderInv => InsertedInListOrder
  BY DEF OrderInv, Rising, InsertedInListOrder
<1> QED BY <1>1, <1>2, <1>3, ListInvAlways, PTL DEF TraktSpec

-----------------------------------------------------------------------------
(* The order of the queue, which ClaimNext serves by created_at.           *)

\* Rows that were stored later were not created earlier.
StampInv ==
  /\ \A j, k \in DOMAIN created : j < k => created[j] <= created[k]
  /\ RunsServedInListOrder

\* The second of a run is not before that of any row there is.
LEMMA NowIsLatest ==
  ASSUME TypeInv, StampInv, NEW now \in Seconds, NEW k \in 1 .. Len(created)
  PROVE  created[k] <= now
<1>1. created \in Seq(Nat) /\ created # << >> /\ Last(created) = created[Len(created)]
  BY DEF TypeInv, TraktTypeOK, Last
<1>2. k = Len(created) \/ k < Len(created)
  BY <1>1
<1>3. created[k] <= created[Len(created)]
  BY <1>1, <1>2 DEF StampInv
<1>4. created[k] \in Nat /\ created[Len(created)] \in Nat
  BY <1>1
<1> QED BY <1>1, <1>3, <1>4 DEF Seconds

\* What a run adds is from its cursor on, and gets its second.
LEMMA StampsAfterSave ==
  ASSUME TypeInv, ListInv, StampInv, SaveRun
  PROVE  StampInv'
<1>1. /\ made \in Seq(Entry) /\ created \in Seq(Nat) /\ Len(created) = Len(made)
      /\ run.items \in Seq(Entry) /\ run.cursor \in Nat
      /\ \A k \in DOMAIN made : made[k].at \in Nat
      /\ \A k \in DOMAIN run.items : run.items[k].at \in Nat
  BY TypesOfState, EntrySeq DEF TypeInv, TraktTypeOK
<1>2. run.pc = "saving"
  BY DEF SaveRun, StoreRun
<1>3. PICK oldest \in Seq(Entry), new \in Seq(Entry) :
        oldest = Reverse(run.items) /\ new = Without(oldest, Processed) /\ made' = made \o new
  BY SaveAppends
<1>4. \A i \in DOMAIN new : \E k \in DOMAIN run.items : new[i] = run.items[k]
  BY <1>1, <1>3, ReverseEntries, WithoutSelects
<1>5. \A i \in DOMAIN made, k \in DOMAIN new : made[i].at <= new[k].at
  <2> TAKE i \in DOMAIN made, k \in DOMAIN new
  <2>1. PICK j \in DOMAIN run.items : new[k] = run.items[j]
    BY <1>4
  <2>2. run.items[j].at >= run.cursor /\ run.cursor = TraktCursor
    BY <1>2 DEF ListInv
  <2>3. made[i].at <= TraktCursor
    BY <1>1, CursorIsNewest
  <2> QED BY <2>1, <2>2, <2>3, <1>1
<1>6. PICK now \in Seconds :
        /\ now \in Nat /\ created' \in Seq(Nat) /\ Len(created') = Len(made')
        /\ \A k \in 1 .. Len(made') : created'[k] = IF k <= Len(made) THEN created[k] ELSE now
  BY SaveStamps
<1>7. \A k \in 1 .. Len(made) : created[k] \in Nat /\ created[k] <= now
  BY <1>1, NowIsLatest
<1>8. /\ DOMAIN made' = 1 .. Len(made') /\ DOMAIN made = 1 .. Len(made)
      /\ DOMAIN new = 1 .. Len(new) /\ Len(new) \in Nat /\ Len(made) \in Nat
      /\ Len(made') = Len(made) + Len(new)
      /\ \A k \in 1 .. Len(made') :
           made'[k] = IF k <= Len(made) THEN made[k] ELSE new[k - Len(made)]
  BY <1>1, <1>3, ConcatProperties
<1>9. /\ \A j, k \in 1 .. Len(made) : j < k => created[j] <= created[k]
      /\ \A j, k \in 1 .. Len(made) : created[j] < created[k] => made[j].at <= made[k].at
  <2>1. DOMAIN created = 1 .. Len(made) /\ DOMAIN made = 1 .. Len(made)
    BY <1>1
  <2> QED BY ONLY <2>1, StampInv DEF StampInv, RunsServedInListOrder
<1>10. \A k \in 1 .. Len(made') :
         /\ k <= Len(made) => /\ k \in 1 .. Len(made) /\ made'[k] = made[k]
                              /\ created'[k] = created[k] /\ created'[k] <= now
         /\ k > Len(made) => /\ k - Len(made) \in 1 .. Len(new)
                             /\ made'[k] = new[k - Len(made)] /\ created'[k] = now
         /\ created'[k] \in Nat
  BY <1>6, <1>7, <1>8
<1>11. ASSUME NEW j \in 1 .. Len(made'), NEW k \in 1 .. Len(made')
       PROVE  /\ j < k => created'[j] <= created'[k]
              /\ created'[j] < created'[k] => made'[j].at <= made'[k].at
  <2>1. CASE j <= Len(made) /\ k <= Len(made)
    BY <1>9, <1>10, <2>1
  <2>2. CASE j <= Len(made) /\ k > Len(made)
    BY <1>5, <1>8, <1>10, <2>2
  <2>3. CASE j > Len(made)
    <3>1. created'[j] = now /\ created'[k] <= now
      BY <1>6, <1>8, <1>10, <2>3
    <3>2. j < k => created'[k] = now
      BY <1>8, <1>10, <2>3
    <3> QED BY <1>6, <3>1, <3>2
  <2> QED BY <1>8, <2>1, <2>2, <2>3
<1> QED BY <1>6, <1>8, <1>11 DEF StampInv, RunsServedInListOrder

\* A run that does not end in a save stamps nothing.
LEMMA StampInvKept ==
  ASSUME TypeInv, ListInv, StampInv, [TraktNext]_traktVars
  PROVE  StampInv'
<1>1. CASE UNCHANGED <<made, created>>
  BY <1>1 DEF StampInv, RunsServedInListOrder
<1>2. CASE SignalFailure
  BY <1>1, <1>2, FailureStoresNothing
<1>3. CASE SaveRun
  BY <1>3, StampsAfterSave
<1>4. UNCHANGED <<made, created>> \/ SignalFailure \/ SaveRun
  BY DEF TraktNext, SyncStep, AddToList, RemoveFromList, BeginRun, FetchPage, ReadPage,
         StopProcess, traktVars
<1> QED BY <1>1, <1>2, <1>3, <1>4

\* The order that ClaimNext's ORDER BY created_at keeps, whatever the list, the edits and
\* the failures: no addition is served after the later ones that another run found.
THEOREM RunsAreServedInOrder == TraktSpec => []RunsServedInListOrder
<1>1. TraktInit => StampInv
  BY DEF TraktInit, StampInv, RunsServedInListOrder
<1>2. TypeInv /\ ListInv /\ StampInv /\ [TraktNext]_traktVars => StampInv'
  BY StampInvKept
<1>3. StampInv => RunsServedInListOrder
  BY DEF StampInv
<1> QED BY <1>1, <1>2, <1>3, ListInvAlways, PTL DEF TraktSpec

-----------------------------------------------------------------------------
(* Nothing passed over.                                                    *)

\* The k-th entry is newer than all that the run has collected.
Newer(k) == \A i \in DOMAIN list : list[i].movie \in MoviesOf(run.items) => k < i

\* What a run has not seen is newer than what it has, or still in front of it, or behind
\* its cursor: stored with the rest, it will not be taken for processed.
CoverInv ==
  /\ Len(list) <= MaxListed /\ NothingPassedOver
  /\ \A i \in DOMAIN run.items : \E k \in DOMAIN list : list[k] = run.items[i]
  /\ run.pc # "idle" =>
       \A k \in DOMAIN list : list[k].movie \notin Seen =>
         \/ Newer(k)
         \/ run.pc = "paging" /\ k > (run.page - 1) * PageLimit
         \/ run.pc = "saving" /\ list[k].at < run.cursor

\* Whatever clears the run and leaves the list and the queue alone passes over nothing.
LEMMA CoverWithoutRun ==
  ASSUME CoverInv, UNCHANGED <<list, made>>, run' = NoRun
  PROVE  CoverInv'
<1>1. run'.pc = "idle" /\ DOMAIN run'.items = {}
  BY NoRunIsIdle
<1> QED BY <1>1, CursorUnchanged DEF CoverInv, NothingPassedOver, Processed, MoviesOf

\* A movie that the owner adds is newer than all that was there.
LEMMA CoverAfterAdd ==
  ASSUME TypeInv, ListInv, CoverInv,
         NEW m \in Movies, NEW at \in 1 .. MaxClock, AddToList(m, at)
  PROVE  CoverInv'
<1>1. PICK e \in Entry :
        /\ e.movie = m /\ e.at = at /\ list' = <<e>> \o list
        /\ m \notin MoviesOf(list) /\ Len(list) < MaxListed /\ clock <= at /\ made' = made
        /\ run'.pc = run.pc /\ run'.page = run.page /\ run'.cursor = run.cursor
        /\ run'.items = run.items
  BY AddPutsOnTop, ZenonT(40)
<1>2. /\ list \in Seq(Entry) /\ made \in Seq(Entry) /\ run.page \in Nat \ {0} /\ clock \in Nat
      /\ PageLimit \in Nat /\ Len(list) \in Nat /\ DOMAIN list = 1 .. Len(list)
      /\ at \in Nat /\ MaxListed \in Nat /\ \A k \in DOMAIN made : made[k].at \in Nat
  BY TypesOfState, EntrySeq, PageAssumption, TraktBounds
<1>3. PICK longer : longer = list'
  OBVIOUS
<1>4. longer = <<e>> \o list
  BY <1>1, <1>3
<1>5. \A k \in DOMAIN longer : (k = 1 /\ longer[k] = e) \/ (k - 1 \in DOMAIN list /\ longer[k] = list[k - 1])
  BY <1>2, <1>4, AddEntries
<1>6. longer \in Seq(Entry) /\ Len(longer) = Len(list) + 1
  BY <1>2, <1>4, AddEntries, Zenon
<1>7. DOMAIN longer = 1 .. Len(list) + 1
  BY <1>6, EntrySeq
<1>8. \A k \in DOMAIN list : k + 1 \in DOMAIN longer /\ longer[k + 1] = list[k]
  <2> TAKE k \in DOMAIN list
  <2>1. k + 1 \in DOMAIN longer /\ k + 1 # 1 /\ (k + 1) - 1 = k
    BY <1>2, <1>7
  <2>2. longer[k + 1] = list[(k + 1) - 1]
    BY <2>1, <1>5
  <2> QED BY <2>1, <2>2
<1>9. Len(longer) <= MaxListed
  BY <1>1, <1>2, <1>6
<1>10. TraktCursor \in Nat /\ TraktCursor <= at /\ TraktCursor' = TraktCursor
  <2>1. TraktCursor \in Nat /\ (TraktCursor = 0 \/ \E k \in DOMAIN made : made[k].at = TraktCursor)
    BY <1>2, CursorIsNewest
  <2>2. \A k \in DOMAIN made : made[k].at <= clock
    BY DEF ListInv
  <2> QED BY <2>1, <2>2, <1>1, <1>2, CursorUnchanged
<1>11. ASSUME NEW k \in DOMAIN longer, longer[k].at < TraktCursor
       PROVE  longer[k].movie \in Processed \cup Unusable
  <2>1. ~(k = 1 /\ longer[k] = e)
    BY <1>1, <1>2, <1>10, <1>11
  <2>2. k - 1 \in DOMAIN list /\ longer[k] = list[k - 1]
    BY <2>1, <1>5
  <2> QED BY <2>2, <1>11 DEF CoverInv, NothingPassedOver
<1>12. \A i \in DOMAIN run.items : \E k \in DOMAIN longer : longer[k] = run.items[i]
  BY <1>8 DEF CoverInv
<1>13. m \notin MoviesOf(run.items)
  BY <1>1 DEF CoverInv, MoviesOf
<1>14. ASSUME run.pc # "idle", NEW k \in DOMAIN longer, longer[k].movie \notin Seen
       PROVE  \/ \A i \in DOMAIN longer : longer[i].movie \in MoviesOf(run.items) => k < i
              \/ run.pc = "paging" /\ k > (run.page - 1) * PageLimit
              \/ run.pc = "saving" /\ longer[k].at < run.cursor
  <2>1. ASSUME NEW i \in DOMAIN longer, longer[i].movie \in MoviesOf(run.items)
        PROVE  i - 1 \in DOMAIN list /\ longer[i] = list[i - 1]
    BY <2>1, <1>1, <1>5, <1>13
  <2>2. CASE k = 1 /\ longer[k] = e
    <3>1. ASSUME NEW i \in DOMAIN longer, longer[i].movie \in MoviesOf(run.items) PROVE k < i
      <4>1. i - 1 \in 1 .. Len(list) /\ i \in Nat
        BY <2>1, <3>1, <1>2, <1>7
      <4> QED BY <4>1, <2>2, <1>2
    <3> QED BY <3>1
  <2>3. CASE k - 1 \in DOMAIN list /\ longer[k] = list[k - 1]
    <3>1. k \in Nat /\ (run.page - 1) * PageLimit \in Nat
      BY <1>2, <1>7, SMTT(30)
    <3>2. \/ Newer(k - 1)
          \/ run.pc = "paging" /\ k - 1 > (run.page - 1) * PageLimit
          \/ run.pc = "saving" /\ list[k - 1].at < run.cursor
      BY <2>3, <1>14 DEF CoverInv
    <3>3. CASE Newer(k - 1)
      <4>1. ASSUME NEW i \in DOMAIN longer, longer[i].movie \in MoviesOf(run.items) PROVE k < i
        <5>1. i - 1 \in DOMAIN list /\ list[i - 1].movie \in MoviesOf(run.items) /\ i \in Nat
          BY <2>1, <4>1, <1>2, <1>7
        <5>2. k - 1 < i - 1
          BY <5>1, <3>3 DEF Newer
        <5> QED BY <5>1, <5>2, <3>1
      <4> QED BY <4>1
    <3>4. CASE run.pc = "paging" /\ k - 1 > (run.page - 1) * PageLimit
      BY <3>1, <3>4
    <3> QED BY <3>2, <3>3, <3>4, <2>3
  <2> QED BY <2>2, <2>3, <1>5
<1>15. Seen' = Seen
  BY <1>1 DEF Seen, MoviesOf
<1>16. NothingPassedOver'
  BY <1>1, <1>3, <1>10, <1>11 DEF NothingPassedOver, Processed, MoviesOf
<1>17. run'.pc # "idle" =>
         \A k \in DOMAIN list' : list'[k].movie \notin Seen' =>
           \/ Newer(k)'
           \/ run'.pc = "paging" /\ k > (run'.page - 1) * PageLimit
           \/ run'.pc = "saving" /\ list'[k].at < run'.cursor
  BY <1>1, <1>3, <1>14, <1>15 DEF Newer, MoviesOf
<1> QED BY <1>1, <1>3, <1>9, <1>12, <1>16, <1>17 DEF CoverInv


\* Between two runs the owner may remove what he wants.
LEMMA CoverAfterRemove ==
  ASSUME TypeInv, ListInv, CoverInv, ~RemoveWhilePaging,
         NEW gone \in DOMAIN list, RemoveFromList(gone)
  PROVE  CoverInv'
<1>1. list' = RemoveAt(list, gone) /\ UNCHANGED <<made, run>> /\ run.pc = "idle"
  BY DEF RemoveFromList
<1>2. list \in Seq(Entry) /\ Len(list) \in Nat /\ MaxListed \in Nat
  BY TypesOfState, EntrySeq, TraktBounds
<1>3. PICK shorter : shorter = list'
  OBVIOUS
<1>4. shorter = RemoveAt(list, gone)
  BY <1>1, <1>3
<1>5. Len(shorter) = Len(list) - 1
  <2>1. list \in Seq(Entry)
    BY <1>2
  <2> QED BY <2>1, <1>4, RemoveAtEntries
<1>6. \A k \in DOMAIN shorter : \E j \in DOMAIN list : shorter[k] = list[j]
  <2>1. list \in Seq(Entry)
    BY <1>2
  <2> QED BY <2>1, <1>4, RemovedEntries
<1>7. Len(shorter) <= MaxListed
  BY <1>2, <1>5 DEF CoverInv
<1>8. \A k \in DOMAIN shorter :
        shorter[k].at < TraktCursor => shorter[k].movie \in Processed \cup Unusable
  BY <1>6 DEF CoverInv, NothingPassedOver
<1>9. NothingPassedOver'
  BY <1>1, <1>3, <1>8, CursorUnchanged DEF NothingPassedOver, Processed, MoviesOf
<1>10. DOMAIN run'.items = {} /\ run'.pc = "idle"
  <2>1. run.items = << >>
    BY <1>1 DEF ListInv
  <2> QED BY <2>1, <1>1
<1> QED BY <1>3, <1>7, <1>9, <1>10 DEF CoverInv

\* A page leaves nothing unseen before its end but what is newer than everything seen; and
\* the run ends where the list is older than the cursor or where the list ends, which is
\* never later than the last page it may read.
LEMMA CoverAfterPage ==
  ASSUME TypeInv, ListInv, CoverInv, MaxListed <= PageLimit * MaxPages,
         NEW counted, FetchPage(counted)
  PROVE  CoverInv'
<1>1. UNCHANGED <<list, made>> /\ run.pc = "paging"
  BY DEF FetchPage, ReadPage
<1>2. /\ run.page \in Nat \ {0} /\ MaxPages \in Nat /\ PageLimit \in Nat /\ MaxListed \in Nat
      /\ list \in Seq(Entry)
  BY TypesOfState, PageAssumption, TraktBounds
<1>3. Len(list) \in Nat /\ DOMAIN list = 1 .. Len(list) /\ \A k \in DOMAIN list : list[k].at \in Nat
  BY <1>2, EntrySeq
<1>4. Distinct(list) /\ Falling(list)
  BY DEF ListInv
<1>5. PICK before \in Nat, fresh \in Seq(Entry), new \in Seq(Entry) : PageRead(before, fresh, new)
  BY <1>4, FetchReadsPage
<1>6. before = (run.page - 1) * PageLimit /\ before + PageLimit = run.page * PageLimit
  BY <1>5, Zenon DEF PageRead
<1>7. /\ \A i \in DOMAIN new :
           \E k \in DOMAIN list : before < k /\ k <= before + PageLimit /\ list[k] = new[i]
      /\ \A k \in DOMAIN list :
           before < k /\ k <= before + PageLimit /\ list[k].movie \notin Seen =>
             \/ \E i \in DOMAIN new : new[i] = list[k]
             \/ run'.pc = "saving" /\ list[k].at < run.cursor
  BY <1>4, <1>5, PageAdds
<1>8. PICK items : items = run'.items
  OBVIOUS
<1>9. /\ MoviesOf(items) = MoviesOf(run.items) \cup MoviesOf(new)
      /\ run'.cursor = run.cursor /\ run'.pc \in {"paging", "saving"}
      /\ \A k \in DOMAIN items : \/ \E i \in DOMAIN run.items : items[k] = run.items[i]
                                 \/ \E i \in DOMAIN new : items[k] = new[i]
  BY <1>5, <1>8, ItemsAfterPage
<1>10. \A i \in DOMAIN items : \E k \in DOMAIN list : list[k] = items[i]
  BY <1>7, <1>9 DEF CoverInv
<1>11. \/ run'.pc = "paging" /\ (run'.page - 1) * PageLimit = before + PageLimit
       \/ /\ run'.pc = "saving"
          /\ \A k \in DOMAIN list : k > before + PageLimit => list[k].at < run.cursor
  <2>1. CASE run'.pc = "paging"
    <3>1. run'.page = run.page + 1
      BY <1>5, <2>1 DEF PageRead
    <3>2. run'.page - 1 = run.page
      BY <1>2, <3>1
    <3> QED BY <3>2, <1>6, <2>1
  <2>2. CASE run'.pc = "saving"
    <3>1. \/ \A k \in DOMAIN list : k > before + PageLimit => list[k].at < run.cursor
          \/ Len(list) <= before + PageLimit
          \/ run.page = MaxPages
      BY <1>5, <2>2 DEF PageRead
    <3>2. run.page = MaxPages => Len(list) <= before + PageLimit
      <4>1. Len(list) <= MaxListed
        BY DEF CoverInv
      <4>2. MaxPages * PageLimit = PageLimit * MaxPages
        BY <1>2
      <4>3. PageLimit * MaxPages \in Nat
        BY <1>2
      <4> QED BY <4>1, <4>2, <4>3, <1>2, <1>3, <1>6
    <3>3. Len(list) <= before + PageLimit => \A k \in DOMAIN list : ~(k > before + PageLimit)
      BY <1>2, <1>3
    <3> QED BY <3>1, <3>2, <3>3, <2>2
  <2> QED BY <2>1, <2>2, <1>9
<1>12. ASSUME NEW k \in DOMAIN list, list[k].movie \notin Unusable \cup MoviesOf(items)
       PROVE  \/ \A i \in DOMAIN list : list[i].movie \in MoviesOf(items) => k < i
              \/ run'.pc = "paging" /\ k > (run'.page - 1) * PageLimit
              \/ run'.pc = "saving" /\ list[k].at < run.cursor
  <2>1. list[k].movie \notin Seen /\ list[k].movie \notin MoviesOf(new) /\ k \in Nat
    BY <1>3, <1>9, <1>12 DEF Seen
  <2>2. CASE k <= before
    <3>1. Newer(k)
      <4>1. ~(k > before)
        BY <2>1, <2>2
      <4> QED BY <4>1, <2>1, <1>1, <1>6 DEF CoverInv
    <3>2. ASSUME NEW i \in DOMAIN list, list[i].movie \in MoviesOf(items) PROVE k < i
      <4>1. CASE list[i].movie \in MoviesOf(run.items)
        BY <4>1, <3>1 DEF Newer
      <4>2. CASE list[i].movie \in MoviesOf(new)
        <5>1. PICK x \in DOMAIN new : new[x].movie = list[i].movie
          BY <4>2 DEF MoviesOf
        <5>2. PICK j \in DOMAIN list : before < j /\ list[j] = new[x]
          BY <1>7
        <5>3. j = i
          BY <5>1, <5>2, <1>4 DEF Distinct
        <5> QED BY <5>2, <5>3, <2>1, <2>2, <1>3
      <4> QED BY <4>1, <4>2, <3>2, <1>9
    <3> QED BY <3>2
  <2>3. CASE before < k /\ k <= before + PageLimit
    <3>1. ~\E i \in DOMAIN new : new[i] = list[k]
      BY <2>1 DEF MoviesOf
    <3> QED BY <3>1, <2>1, <2>3, <1>7
  <2>4. CASE k > before + PageLimit
    BY <2>4, <1>11
  <2> QED BY <2>1, <2>2, <2>3, <2>4, <1>2
<1>13. Seen' = Unusable \cup MoviesOf(items)
  BY <1>8 DEF Seen, MoviesOf
<1>14. ASSUME NEW k \in DOMAIN list', list'[k].movie \notin Seen'
       PROVE  \/ Newer(k)'
              \/ run'.pc = "paging" /\ k > (run'.page - 1) * PageLimit
              \/ run'.pc = "saving" /\ list'[k].at < run'.cursor
  <2>1. list' = list /\ MoviesOf(run.items)' = MoviesOf(items)
    BY <1>1, <1>8 DEF MoviesOf
  <2>2. k \in DOMAIN list /\ list[k].movie \notin Unusable \cup MoviesOf(items)
    BY <2>1, <1>13, <1>14
  <2>3. Newer(k)' <=> \A i \in DOMAIN list : list[i].movie \in MoviesOf(items) => k < i
    BY <2>1 DEF Newer
  <2> QED BY <2>1, <2>2, <2>3, <1>9, <1>12, Zenon
<1>15. NothingPassedOver' /\ Len(list') <= MaxListed
  BY <1>1, CursorUnchanged DEF CoverInv, NothingPassedOver, Processed, MoviesOf
<1>16. \A i \in DOMAIN run'.items : \E k \in DOMAIN list' : list'[k] = run'.items[i]
  BY <1>1, <1>8, <1>10
<1> QED BY <1>14, <1>15, <1>16, Zenon DEF CoverInv


\* The newest entry a run stores stands below all that is newer than what it has seen: what
\* is older than the new cursor was stored with it, or was older than the old one.
LEMMA CoverAfterSave ==
  ASSUME TypeInv, ListInv, CoverInv, SaveRun
  PROVE  CoverInv'
<1>1. /\ made \in Seq(Entry) /\ run.items \in Seq(Entry) /\ list \in Seq(Entry)
  BY TypesOfState
<1>2. /\ DOMAIN list = 1 .. Len(list) /\ Len(list) \in Nat
      /\ \A k \in DOMAIN list : list[k].at \in Nat
      /\ \A k \in DOMAIN made : made[k].at \in Nat
  BY <1>1, EntrySeq
<1>3. list' = list /\ run' = NoRun /\ run.pc = "saving"
  BY DEF SaveRun, StoreRun
<1>4. PICK oldest \in Seq(Entry), new \in Seq(Entry) :
        oldest = Reverse(run.items) /\ new = Without(oldest, Processed) /\ made' = made \o new
  BY SaveAppends
<1>5. /\ \A i \in DOMAIN oldest : \E k \in DOMAIN run.items : oldest[i] = run.items[k]
      /\ \A k \in DOMAIN run.items : \E i \in DOMAIN oldest : oldest[i] = run.items[k]
  BY <1>1, <1>4, ReverseEntries
<1>6. /\ \A i \in DOMAIN new : \E k \in DOMAIN oldest : new[i] = oldest[k]
      /\ \A k \in DOMAIN oldest : oldest[k].movie \notin Processed => \E i \in DOMAIN new : new[i] = oldest[k]
  BY <1>4, WithoutSelects
<1>7. PICK longer : longer = made'
  OBVIOUS
<1>8. longer = made \o new
  BY <1>4, <1>7
<1>9. longer \in Seq(Entry) /\ MoviesOf(longer) = Processed \cup MoviesOf(new)
  BY <1>1, <1>8, ConcatEntries, Zenon DEF Processed
<1>10. \A k \in DOMAIN longer : \/ \E j \in DOMAIN made : longer[k] = made[j]
                                \/ \E i \in DOMAIN new : longer[k] = new[i]
  <2>1. \A k \in DOMAIN longer : \/ k \in DOMAIN made /\ longer[k] = made[k]
                                 \/ k - Len(made) \in DOMAIN new /\ longer[k] = new[k - Len(made)]
    BY <1>1, <1>8, ConcatEntries
  <2> QED BY <2>1
<1>11. MoviesOf(run.items) \subseteq MoviesOf(longer)
  <2> SUFFICES ASSUME NEW x \in DOMAIN run.items PROVE run.items[x].movie \in MoviesOf(longer)
    BY DEF MoviesOf
  <2>1. PICK i \in DOMAIN oldest : oldest[i] = run.items[x]
    BY <1>5
  <2>2. CASE oldest[i].movie \in Processed
    BY <2>1, <2>2, <1>9
  <2>3. CASE oldest[i].movie \notin Processed
    <3>1. PICK j \in DOMAIN new : new[j] = oldest[i]
      BY <1>6, <2>3
    <3>2. new[j].movie \in MoviesOf(new)
      BY DEF MoviesOf
    <3> QED BY <2>1, <3>1, <3>2, <1>9
  <2> QED BY <2>2, <2>3
<1>12. PICK cursor : cursor = Max({0} \cup {longer[k].at : k \in DOMAIN longer})
  OBVIOUS
<1>13. cursor \in Nat /\ (cursor = 0 \/ \E k \in DOMAIN longer : longer[k].at = cursor)
  BY <1>9, <1>12, NewestSecond
<1>14. TraktCursor \in Nat /\ \A k \in DOMAIN made : made[k].at <= TraktCursor
  BY <1>1, CursorIsNewest
<1>15. ASSUME NEW k \in DOMAIN list, list[k].at < TraktCursor
       PROVE  list[k].movie \in MoviesOf(longer) \cup Unusable
  BY <1>9, <1>15 DEF CoverInv, NothingPassedOver
<1>16. ASSUME NEW k \in DOMAIN list, list[k].at < cursor
       PROVE  list[k].movie \in MoviesOf(longer) \cup Unusable
  <2>1. CASE list[k].movie \in Seen
    BY <2>1, <1>11 DEF Seen
  <2>2. CASE list[k].movie \notin Seen
    <3>1. Newer(k) \/ list[k].at < run.cursor
      BY <2>2, <1>3 DEF CoverInv
    <3>2. CASE list[k].at < run.cursor
      <4>1. run.cursor = TraktCursor
        BY <1>3 DEF ListInv
      <4> QED BY <4>1, <3>2, <1>15
    <3>3. CASE Newer(k)
      <4>1. PICK x \in DOMAIN longer : longer[x].at = cursor
        BY <1>2, <1>13, <1>16
      <4>2. CASE \E j \in DOMAIN made : longer[x] = made[j]
        <5>1. PICK j \in DOMAIN made : longer[x] = made[j]
          BY <4>2
        <5>2. made[j].at <= TraktCursor /\ list[k].at < made[j].at
          BY <4>1, <5>1, <1>14, <1>16
        <5>3. list[k].at < TraktCursor
          BY <5>2, <1>2, <1>14
        <5> QED BY <5>3, <1>15
      <4>3. CASE \E i \in DOMAIN new : longer[x] = new[i]
        <5>1. PICK i \in DOMAIN run.items : longer[x] = run.items[i]
          BY <4>3, <1>5, <1>6
        <5>2. PICK y \in DOMAIN list : list[y] = run.items[i]
          BY DEF CoverInv
        <5>3. k < y
          BY <5>2, <3>3 DEF Newer, MoviesOf
        <5>4. list[k].at >= list[y].at
          BY <5>3 DEF ListInv, Falling
        <5>5. list[k].at < list[y].at
          BY <4>1, <5>1, <5>2, <1>16
        <5> QED BY <5>4, <5>5, <1>2
      <4> QED BY <4>2, <4>3, <1>10
    <3> QED BY <3>1, <3>2, <3>3
  <2> QED BY <2>1, <2>2
<1>17. NothingPassedOver'
  <2>1. TraktCursor' = cursor /\ Processed' = MoviesOf(longer)
    BY <1>7, <1>12 DEF TraktCursor, Processed, MoviesOf
  <2> QED BY <2>1, <1>3, <1>16 DEF NothingPassedOver
<1>18. run'.pc = "idle" /\ DOMAIN run'.items = {} /\ Len(list') <= MaxListed
  BY <1>3, NoRunIsIdle DEF CoverInv
<1> QED BY <1>17, <1>18 DEF CoverInv

\* CoverInv is kept by every step, as long as the owner removes nothing while a run reads
\* the list, and the list fits the pages a run may read.
LEMMA CoverInvKept ==
  ASSUME TypeInv, ListInv, CoverInv, ~RemoveWhilePaging, MaxListed <= PageLimit * MaxPages,
         [TraktNext]_traktVars
  PROVE  CoverInv'
<1>1. CASE UNCHANGED traktVars
  BY <1>1, CursorUnchanged DEF traktVars, CoverInv, NothingPassedOver, Newer, Processed, Seen, MoviesOf
<1>2. CASE BeginRun
  <2>1. made' = made /\ list' = list
    BY <1>2 DEF BeginRun
  <2>2. run'.pc = "paging" /\ run'.page = 1 /\ run'.items = << >>
    BY <1>2, RunBegins
  <2>3. (run'.page - 1) * PageLimit = 0 /\ DOMAIN run'.items = {}
    <3>1. PageLimit \in Nat
      BY PageAssumption
    <3> QED BY <2>2, <3>1
  <2>4. \A k \in DOMAIN list : k > 0
    BY TypesOfState, EntrySeq
  <2> QED BY <2>1, <2>2, <2>3, <2>4, CursorUnchanged DEF CoverInv, NothingPassedOver, Processed, MoviesOf
<1>3. CASE SignalFailure
  <2>1. made' = made /\ run' = NoRun
    BY <1>3, FailureStoresNothing
  <2>2. list' = list
    BY <1>3 DEF SignalFailure, FailRun
  <2> QED BY <2>1, <2>2, CoverWithoutRun
<1>4. CASE StopProcess
  BY <1>4, CoverWithoutRun DEF StopProcess
<1> QED BY <1>1, <1>2, <1>3, <1>4, CoverAfterAdd, CoverAfterRemove, CoverAfterPage,
           CoverAfterSave DEF TraktNext, SyncStep

\* "Queue every new movie": nothing usable on the list is older than the cursor without
\* having been scheduled (collect, TraktCursor), as long as the owner removes nothing while
\* a run reads the list and the list fits the pages a run may read.
THEOREM NothingIsPassedOver ==
  ASSUME ~RemoveWhilePaging, MaxListed <= PageLimit * MaxPages
  PROVE  TraktSpec => []NothingPassedOver
<1>1. TraktInit => CoverInv
  <2> SUFFICES ASSUME TraktInit PROVE CoverInv
    OBVIOUS
  <2>1. list = << >> /\ run = NoRun
    BY DEF TraktInit
  <2>2. Len(list) = 0 /\ DOMAIN list = {} /\ MaxListed \in Nat
    BY <2>1, TraktBounds
  <2>3. run.pc = "idle" /\ DOMAIN run.items = {}
    BY <2>1, NoRunIsIdle
  <2>4. Len(list) <= MaxListed
    BY <2>2
  <2> QED BY <2>2, <2>3, <2>4 DEF CoverInv, NothingPassedOver
<1>2. TypeInv /\ ListInv /\ CoverInv /\ [TraktNext]_traktVars => CoverInv'
  BY CoverInvKept
<1>3. CoverInv => NothingPassedOver
  BY DEF CoverInv
<1> QED BY <1>1, <1>2, <1>3, ListInvAlways, PTL DEF TraktSpec

-----------------------------------------------------------------------------
(* No false alarm.                                                         *)


\* Syncer.failures is forgotten by a restart, the runs that failed are not: the
\* counter never claims more than what happened.
CountsAgree == failures \in Nat /\ streak \in Nat /\ failures <= streak

\* No run, failed run or restart breaks that.
LEMMA CountsAgreeAlways == TraktSpec => []CountsAgree
<1>1. TraktInit => CountsAgree
  BY DEF TraktInit, CountsAgree
<1>2. CountsAgree /\ [TraktNext]_traktVars => CountsAgree'
  <2> SUFFICES ASSUME CountsAgree, [TraktNext]_traktVars PROVE CountsAgree'
    OBVIOUS
  <2>1. CASE UNCHANGED <<failures, streak>>
    BY <2>1 DEF CountsAgree
  <2>2. CASE SaveRun
    BY <2>2 DEF SaveRun, StoreRun, CountsAgree
  <2>3. CASE SignalFailure
    BY <2>3 DEF SignalFailure, FailRun, CountsAgree
  <2>4. CASE StopProcess
    BY <2>4 DEF StopProcess, CountsAgree
  <2>5. \/ UNCHANGED <<failures, streak>>
        \/ SaveRun \/ SignalFailure \/ StopProcess
    BY DEF TraktNext, SyncStep, AddToList, RemoveFromList, BeginRun, FetchPage, ReadPage,
           traktVars
  <2> QED BY <2>1, <2>2, <2>3, <2>4, <2>5
<1> QED BY <1>1, <1>2, PTL DEF TraktSpec

\* The monitor hears that the sync is down only after AlertAfter failed runs in a row,
\* whatever stopped and restarted in between (signalFailure).
THEOREM NeverAFalseAlarm == TraktSpec => NoFalseAlarm
<1>1. CountsAgree /\ [TraktNext]_traktVars
        => [monitor' = "down" /\ monitor # "down" => streak' >= AlertAfter]_traktVars
  <2> SUFFICES ASSUME CountsAgree, [TraktNext]_traktVars,
                      monitor' = "down", monitor # "down"
               PROVE  streak' >= AlertAfter
    OBVIOUS
  <2>1. ~SaveRun
    BY DEF SaveRun, StoreRun, Ping
  <2>2. monitor' # monitor
    OBVIOUS
  <2>3. SignalFailure
    BY <2>1, <2>2 DEF TraktNext, SyncStep, AddToList, RemoveFromList, BeginRun, FetchPage,
                      ReadPage, StopProcess, traktVars
  <2>4. failures + 1 >= AlertAfter
    BY <2>3, <2>2, AlertAssumption DEF SignalFailure, FailRun, CountsAgree
  <2> QED BY <2>3, <2>4, AlertAssumption DEF SignalFailure, FailRun, CountsAgree
<1> QED BY <1>1, CountsAgreeAlways, PTL DEF TraktSpec, NoFalseAlarm
=============================================================================
