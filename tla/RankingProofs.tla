--------------------------- MODULE RankingProofs ---------------------------
(***************************************************************************)
(* Theorems about the operators of Ranking, for every list of trackers and *)
(* priorities, all releases and all settings of the backoff: the order of  *)
(* releases, the delay of a retry, and what a round makes of its answers.  *)
(*                                                                         *)
(* doubled, FoldLeft and FlattenSeq are recursive functions, which TLA+    *)
(* defines by a choice.  For each it is shown that there is something to   *)
(* choose (RecursionExists), so that the choice obeys its equation; after  *)
(* that the loops are followed step by step.                               *)
(***************************************************************************)
EXTENDS Ranking, NumberFacts, SequenceTheorems

\* Ranks are numbers, and the tokens have different ones.
LEMMA RanksTellTokensApart ==
  ASSUME NEW a \in Candidate, NEW b \in Candidate
  PROVE  /\ qualityRank(a.release.quality) \in 1 .. 4
         /\ codecRank(a.release.codec) \in 1 .. 3
         /\ Priorities[a.tracker] \in Int
         /\ a.release.size \in Nat
         /\ qualityRank(a.release.quality) = qualityRank(b.release.quality)
              => a.release.quality = b.release.quality
         /\ codecRank(a.release.codec) = codecRank(b.release.codec)
              => a.release.codec = b.release.codec
<1>1. /\ a.tracker \in Trackers /\ a.release \in Release
      /\ b.tracker \in Trackers /\ b.release \in Release
  BY DEF Candidate
<1>2. /\ a.release.quality \in {"2160p", "1080p", "720p", "sd"}
      /\ a.release.codec \in {"h265", "h264", "other"}
      /\ a.release.size \in Nat
      /\ b.release.quality \in {"2160p", "1080p", "720p", "sd"}
      /\ b.release.codec \in {"h265", "h264", "other"}
  BY <1>1 DEF Release
<1>3. Priorities[a.tracker] \in Int
  BY <1>1, PrioritiesAssumption DEF Trackers
<1>4. /\ qualityRank(a.release.quality) \in 1 .. 4
      /\ qualityRank(a.release.quality) = qualityRank(b.release.quality)
           => a.release.quality = b.release.quality
  BY <1>2 DEF qualityRank
<1>5. /\ codecRank(a.release.codec) \in 1 .. 3
      /\ codecRank(a.release.codec) = codecRank(b.release.codec)
           => a.release.codec = b.release.codec
  BY <1>2 DEF codecRank
<1> QED BY <1>2, <1>3, <1>4, <1>5

\* sort.SliceStable needs a strict weak order (media.Better): no candidate beats itself,
\* beating is transitive, and so is being equally good.
THEOREM BetterIsStrictWeakOrder ==
  ASSUME NEW a \in Candidate, NEW b \in Candidate, NEW c \in Candidate
  PROVE  /\ ~Better(a, a)
         /\ Better(a, b) /\ Better(b, c) => Better(a, c)
         /\ ~Better(a, b) /\ ~Better(b, a) /\ ~Better(b, c) /\ ~Better(c, b)
              => ~Better(a, c) /\ ~Better(c, a)
<1> DEFINE q(x) == qualityRank(x.release.quality)
           d(x) == codecRank(x.release.codec)
           p(x) == Priorities[x.tracker]
           s(x) == x.release.size
<1>1. \A x \in {a, b, c} : q(x) \in Int /\ d(x) \in Int /\ p(x) \in Int /\ s(x) \in Int
  BY RanksTellTokensApart
<1>2. \A x, y \in {a, b, c} :
        Better(x, y) <=> \/ q(x) > q(y)
                         \/ q(x) = q(y) /\ d(x) > d(y)
                         \/ q(x) = q(y) /\ d(x) = d(y) /\ p(x) < p(y)
                         \/ q(x) = q(y) /\ d(x) = d(y) /\ p(x) = p(y) /\ s(x) > s(y)
  BY DEF Better
<1> HIDE DEF q, d, p, s
<1> QED BY <1>1, <1>2

\* "The winner does not change between two runs of the same search" (worker.go): among
\* the candidates of a round at most one is beaten by none and comes first among its
\* equals, so the choice is settled by what the trackers offer and by nothing else.
THEOREM WinnerIsUnique ==
  ASSUME NEW offers \in SUBSET Candidate, NEW x \in offers, NEW y \in offers,
         \A c \in offers : ~Better(c, x) /\ (~Better(x, c) => x.tracker <= c.tracker),
         \A c \in offers : ~Better(c, y) /\ (~Better(y, c) => y.tracker <= c.tracker)
  PROVE  x = y
<1>1. x \in Candidate /\ y \in Candidate
  OBVIOUS
<1>2. ~Better(x, y) /\ ~Better(y, x) /\ x.tracker <= y.tracker /\ y.tracker <= x.tracker
  OBVIOUS
<1>3. x.tracker = y.tracker
  <2>1. x.tracker \in Nat /\ y.tracker \in Nat
    BY <1>1, PrioritiesAssumption DEF Candidate, Trackers
  <2> QED BY <1>2, <2>1
<1>4. /\ qualityRank(x.release.quality) = qualityRank(y.release.quality)
      /\ codecRank(x.release.codec) = codecRank(y.release.codec)
      /\ x.release.size = y.release.size
  BY <1>1, <1>2, RanksTellTokensApart DEF Better
<1>5. x.release.quality = y.release.quality /\ x.release.codec = y.release.codec
  BY <1>1, <1>4, RanksTellTokensApart
<1>6. x.release = y.release
  BY <1>1, <1>4, <1>5 DEF Candidate, Release
<1> QED BY <1>1, <1>3, <1>6 DEF Candidate

-----------------------------------------------------------------------------
(* storage.Backoff. The definition of doubled is recursive: there is a     *)
(* function that satisfies it, hence the one it chooses does.              *)

\* What the recursion says, step by step.
LEMMA DoubledStepByStep ==
  /\ doubled[1] = BaseSeconds
  /\ \A n \in Nat \ {0} : doubled[n + 1] = Min({2 * doubled[n], MaxBackoffSeconds})
<1> DEFINE Delays == 0 .. MaxBackoffSeconds
           Next(d) == Min({2 * d, MaxBackoffSeconds})
           Obeys(f) == f = [attempt \in Nat \ {0} |->
                              IF attempt = 1 THEN BaseSeconds
                              ELSE Min({2 * f[attempt - 1], MaxBackoffSeconds})]
           step == [n \in Nat |-> [d \in Delays |-> Next(d)]]
<1>1. BaseSeconds \in Delays
  BY BackoffAssumption
<1>2. ASSUME NEW d \in Delays PROVE Next(d) \in Delays
  <2>1. 2 * d \in Nat /\ MaxBackoffSeconds \in Nat
    BY BackoffAssumption
  <2>2. Next(d) = IF 2 * d <= MaxBackoffSeconds THEN 2 * d ELSE MaxBackoffSeconds
    BY <2>1, MinOfTwo
  <2> HIDE DEF Next
  <2> QED BY <2>1, <2>2
<1> HIDE DEF Next
<1>3. \A n \in Nat, d \in Delays : step[n][d] \in Delays
  BY <1>2
<1>4. PICK g : Follows(g, Delays, BaseSeconds, step)
  <2> HIDE DEF step, Delays
  <2> QED BY <1>1, <1>3, RecursionExists, Zenon
<1>5. \A n \in Nat : g[n + 1] = Next(g[n])
  BY <1>4 DEF Follows
<1> DEFINE h == [attempt \in Nat \ {0} |-> g[attempt - 1]]
<1>6. ASSUME NEW attempt \in Nat \ {0}
      PROVE  h[attempt] = IF attempt = 1 THEN BaseSeconds ELSE Next(h[attempt - 1])
  <2>1. CASE attempt = 1
    BY <2>1, <1>4 DEF Follows
  <2>2. CASE attempt # 1
    <3>1. attempt - 1 \in Nat \ {0} /\ attempt - 2 \in Nat /\ (attempt - 2) + 1 = attempt - 1
          /\ (attempt - 1) - 1 = attempt - 2
      BY <2>2
    <3>2. h[attempt] = g[attempt - 1] /\ h[attempt - 1] = g[attempt - 2]
      BY <3>1
    <3>3. g[attempt - 1] = Next(g[attempt - 2])
      BY <1>5, <3>1
    <3> QED BY <2>2, <3>2, <3>3
  <2> QED BY <2>1, <2>2
<1>7. Obeys(h)
  BY <1>6 DEF Next
<1>8. doubled = CHOOSE f : Obeys(f)
  BY DEF doubled
<1>9. Obeys(doubled)
  <2> HIDE DEF Obeys, h
  <2> QED BY <1>7, <1>8, Zenon
<1>10. ASSUME NEW n \in Nat \ {0}
       PROVE  doubled[n + 1] = Min({2 * doubled[n], MaxBackoffSeconds})
  <2>1. n + 1 \in Nat \ {0} /\ n + 1 # 1 /\ (n + 1) - 1 = n
    OBVIOUS
  <2> QED BY <1>9, <2>1
<1>11. doubled[1] = BaseSeconds
  BY <1>9
<1> QED BY <1>10, <1>11

\* "The schedule of the README (3s, 6s, 12s, ...)": each further attempt waits twice as
\* long as the one before, until the delay meets the cap, which it never passes.
THEOREM DelayDoublesUpToTheCap ==
  ASSUME NEW attempt \in Nat \ {0}
  PROVE  /\ Backoff(attempt) \in 1 .. MaxBackoffSeconds
         /\ Backoff(attempt) = Min({BaseSeconds * 2 ^ (attempt - 1), MaxBackoffSeconds})
<1> DEFINE B == BaseSeconds
           M == MaxBackoffSeconds
           Right(k) == doubled[k + 1] = Min({B * 2 ^ k, M})
<1>1. B \in Nat \ {0} /\ M \in Nat /\ B <= M
  BY BackoffAssumption
<1>2. ASSUME NEW k \in Nat
      PROVE  /\ 2 ^ k \in Nat \ {0} /\ B * 2 ^ k \in Nat \ {0}
             /\ Min({B * 2 ^ k, M}) \in 1 .. M
             /\ Min({B * 2 ^ k, M}) = IF B * 2 ^ k <= M THEN B * 2 ^ k ELSE M
             /\ B * 2 ^ (k + 1) = 2 * (B * 2 ^ k)
  <2>1. 2 ^ k \in Nat \ {0}
    BY PowerIsPositive
  <2>2. PICK p : p = 2 ^ k
    OBVIOUS
  <2>3. p \in Nat \ {0} /\ 2 ^ (k + 1) = 2 * p
    BY <2>1, <2>2, PowersDouble
  <2> HIDE DEF B, M
  <2>4. \A b, q \in Nat \ {0} : b * q \in Nat \ {0} /\ b * (2 * q) = 2 * (b * q)
    OBVIOUS
  <2>5. B * p \in Nat \ {0} /\ B * 2 ^ (k + 1) = 2 * (B * p)
    BY <1>1, <2>3, <2>4
  <2>6. Min({B * p, M}) = IF B * p <= M THEN B * p ELSE M
    BY <1>1, <2>5, MinOfTwo
  <2>7. Min({B * p, M}) \in 1 .. M
    BY <1>1, <2>5, <2>6
  <2> QED BY <2>1, <2>2, <2>5, <2>6, <2>7
<1>3. Right(0)
  <2>1. B * 2 ^ 0 = B
    BY <1>1, PowerOfZero
  <2>2. Min({B * 2 ^ 0, M}) = B
    BY <1>1, <1>2, <2>1
  <2>3. doubled[0 + 1] = B
    BY DoubledStepByStep
  <2> QED BY <2>2, <2>3
<1>4. ASSUME NEW k \in Nat, Right(k) PROVE Right(k + 1)
  <2>1. doubled[(k + 1) + 1] = Min({2 * doubled[k + 1], M})
    BY DoubledStepByStep
  <2>2. PICK p : p = B * 2 ^ k
    OBVIOUS
  <2>3. p \in Nat /\ doubled[k + 1] = (IF p <= M THEN p ELSE M) /\ B * 2 ^ (k + 1) = 2 * p
    BY <1>2, <1>4, <2>2
  <2>4. PICK d : d = doubled[k + 1]
    OBVIOUS
  <2>5. Min({2 * d, M}) = IF 2 * d <= M THEN 2 * d ELSE M
    BY <1>1, <2>3, <2>4, MinOfTwo
  <2>6. Min({2 * p, M}) = IF 2 * p <= M THEN 2 * p ELSE M
    BY <1>1, <2>3, MinOfTwo
  <2>7. Min({2 * d, M}) = Min({2 * p, M})
    BY <1>1, <2>3, <2>4, <2>5, <2>6
  <2> QED BY <2>1, <2>3, <2>4, <2>7
<1>5. \A k \in Nat : k \in {j \in Nat : Right(j)}
  <2> HIDE DEF Right
  <2> DEFINE Good == {j \in Nat : Right(j)}
  <2>1. 0 \in Good /\ \A k \in Nat : k \in Good => k + 1 \in Good
    BY <1>3, <1>4
  <2> HIDE DEF Good
  <2>2. \A k \in Nat : k \in Good
    BY <2>1, NumberInduction
  <2> QED BY <2>2 DEF Good
<1>6. attempt - 1 \in Nat /\ (attempt - 1) + 1 = attempt
  OBVIOUS
<1>7. Right(attempt - 1)
  BY <1>5, <1>6, Zenon
<1>8. doubled[attempt] = Min({B * 2 ^ (attempt - 1), M})
  BY <1>6, <1>7 DEF Right
<1> QED BY <1>2, <1>6, <1>8 DEF Backoff

-----------------------------------------------------------------------------
(* sort.SliceStable. Only the first place matters, and who is in the list. *)

\* The members of a list.
Members(s) == {s[k] : k \in DOMAIN s}

\* Insertion adds the candidate and nothing else. It takes the first place only from
\* one that it beats.
LEMMA InsertionFacts ==
  ASSUME NEW s \in Seq(Candidate), NEW c \in Candidate
  PROVE  /\ InsertStable(s, c) \in Seq(Candidate)
         /\ Members(InsertStable(s, c)) = Members(s) \cup {c}
         /\ InsertStable(s, c) # << >>
         /\ s = << >> \/ Better(c, s[1]) => InsertStable(s, c)[1] = c
         /\ s # << >> /\ ~Better(c, s[1]) => InsertStable(s, c)[1] = s[1]
<1> DEFINE beaten == {k \in DOMAIN s : Better(c, s[k])}
<1>1. DOMAIN s = 1 .. Len(s) /\ Len(s) \in Nat /\ \A k \in 1 .. Len(s) : s[k] \in Candidate
  OBVIOUS
<1>2. CASE beaten = {}
  <2>1. InsertStable(s, c) = Append(s, c)
    BY <1>2 DEF InsertStable
  <2>2. PICK t : t = Append(s, c)
    OBVIOUS
  <2>3. /\ t \in Seq(Candidate) /\ Len(t) = Len(s) + 1 /\ DOMAIN t = 1 .. Len(s) + 1
        /\ t[Len(s) + 1] = c /\ \A k \in 1 .. Len(s) : t[k] = s[k]
    BY <2>2
  <2>4. Members(t) = Members(s) \cup {c}
    BY <1>1, <2>3 DEF Members
  <2>5. t # << >>
    BY <1>1, <2>3
  <2>6. s = << >> => t[1] = c
    BY <2>3
  <2>7. s # << >> => 1 \in DOMAIN s
    BY <1>1
  <2>8. s # << >> => ~Better(c, s[1]) /\ t[1] = s[1]
    BY <1>1, <1>2, <2>3, <2>7
  <2> QED BY <2>1, <2>2, <2>3, <2>4, <2>5, <2>6, <2>8
<1>3. CASE beaten # {}
  <2>1. PICK m : m = Min(beaten)
    OBVIOUS
  <2>2. m \in beaten /\ \A k \in beaten : m <= k
    <3>1. beaten \subseteq Nat
      BY <1>1
    <3> HIDE DEF beaten
    <3> QED BY <1>3, <2>1, <3>1, MinIsLeast
  <2>3. m \in 1 .. Len(s) /\ Better(c, s[m])
    BY <1>1, <2>2
  <2>4. InsertStable(s, c) = InsertAt(s, m, c)
    BY <1>3, <2>1 DEF InsertStable
  <2>5. PICK t : t = InsertAt(s, m, c)
    OBVIOUS
  <2>6. /\ t \in Seq(Candidate) /\ Len(t) = Len(s) + 1
        /\ \A k \in 1 .. Len(s) + 1 :
             t[k] = IF k < m THEN s[k] ELSE IF k = m THEN c ELSE s[k - 1]
    <3>1. /\ SubSeq(s, 1, m - 1) \in Seq(Candidate) /\ Len(SubSeq(s, 1, m - 1)) = m - 1
          /\ \A k \in 1 .. m - 1 : SubSeq(s, 1, m - 1)[k] = s[k]
      BY <1>1, <2>3, SubSeqProperties
    <3>2. /\ SubSeq(s, m, Len(s)) \in Seq(Candidate) /\ Len(SubSeq(s, m, Len(s))) = Len(s) - m + 1
          /\ \A k \in 1 .. Len(s) - m + 1 : SubSeq(s, m, Len(s))[k] = s[m + k - 1]
      BY <1>1, <2>3, SubSeqProperties
    <3>3. PICK a, b : a = SubSeq(s, 1, m - 1) /\ b = SubSeq(s, m, Len(s))
      OBVIOUS
    <3>4. a \in Seq(Candidate) /\ b \in Seq(Candidate) /\ <<c>> \in Seq(Candidate)
      BY <3>1, <3>2, <3>3
    <3>5. t = a \o <<c>> \o b
      BY <2>5, <3>3 DEF InsertAt
    <3>6. /\ a \o <<c>> \in Seq(Candidate) /\ Len(a \o <<c>>) = m
          /\ \A k \in 1 .. m : (a \o <<c>>)[k] = IF k < m THEN s[k] ELSE c
      BY <2>3, <3>1, <3>3, <3>4
    <3>7. PICK ac : ac = a \o <<c>>
      OBVIOUS
    <3>8. t \in Seq(Candidate) /\ Len(t) = m + (Len(s) - m + 1)
      BY <3>2, <3>3, <3>4, <3>5, <3>6, <3>7
    <3>9. ASSUME NEW k \in 1 .. Len(s) + 1
          PROVE  t[k] = IF k < m THEN s[k] ELSE IF k = m THEN c ELSE s[k - 1]
      <4>1. CASE k <= m
        BY <1>1, <2>3, <3>4, <3>5, <3>6, <3>7, <3>8, <4>1
      <4>2. CASE k > m
        <5>1. k - m \in 1 .. Len(s) - m + 1 /\ m + (k - m) - 1 = k - 1
          BY <1>1, <2>3, <4>2
        <5>2. t[k] = b[k - m]
          BY <1>1, <2>3, <3>4, <3>5, <3>6, <3>7, <3>8, <4>2
        <5> QED BY <2>3, <3>2, <3>3, <4>2, <5>1, <5>2
      <4> QED BY <2>3, <4>1, <4>2
    <3> QED BY <1>1, <2>3, <3>8, <3>9
  <2>7. DOMAIN t = 1 .. Len(s) + 1
    BY <2>6
  <2>8. Members(t) = Members(s) \cup {c}
    <3>1. ASSUME NEW k \in 1 .. Len(s) PROVE s[k] \in Members(t)
      <4>1. CASE k < m
        BY <1>1, <2>6, <2>7, <4>1 DEF Members
      <4>2. CASE k >= m
        <5>1. t[k + 1] = s[k] /\ k + 1 \in DOMAIN t
          BY <1>1, <2>3, <2>6, <2>7, <4>2
        <5> QED BY <5>1 DEF Members
      <4> QED BY <2>3, <4>1, <4>2
    <3>2. c \in Members(t)
      BY <1>1, <2>3, <2>6, <2>7 DEF Members
    <3>3. ASSUME NEW k \in 1 .. Len(s) + 1 PROVE t[k] \in Members(s) \cup {c}
      <4>1. k < m => k \in DOMAIN s
        BY <1>1, <2>3
      <4>2. k > m => k - 1 \in DOMAIN s
        BY <1>1, <2>3
      <4> QED BY <2>3, <2>6, <4>1, <4>2 DEF Members
    <3> QED BY <1>1, <2>7, <3>1, <3>2, <3>3 DEF Members
  <2>9. t # << >>
    BY <1>1, <2>6
  <2>10. s # << >> /\ (Better(c, s[1]) => t[1] = c) /\ (~Better(c, s[1]) => t[1] = s[1])
    <3>1. s # << >> /\ 1 \in DOMAIN s
      BY <1>1, <2>3
    <3>2. Better(c, s[1]) => m = 1
      BY <2>2, <2>3, <3>1
    <3>3. ~Better(c, s[1]) => m > 1
      BY <2>3
    <3> QED BY <1>1, <2>3, <2>6, <3>1, <3>2, <3>3
  <2> QED BY <2>4, <2>5, <2>6, <2>8, <2>9, <2>10
<1> QED BY <1>2, <1>3

\* FoldLeft recurses over sets of positions, taking the last one away. Over the first
\* positions that is a loop over the list.
LEMMA SortStepByStep ==
  ASSUME NEW cs \in Seq(Candidate)
  PROVE  \E p : /\ p[0] = << >> /\ SortStable(cs) = p[Len(cs)]
                /\ \A k \in Nat : k + 1 \in DOMAIN cs => p[k + 1] = InsertStable(p[k], cs[k + 1])
<1> DEFINE Lists == Seq(Candidate)
           P == DOMAIN cs
           step(S) == [k \in Nat |-> [d \in Lists |->
                         IF k + 1 \in S THEN InsertStable(d, cs[k + 1]) ELSE d]]
           G(S) == CHOOSE g : Follows(g, Lists, << >>, step(S))
           Obeys(f) == f = [S \in SUBSET P |->
                              IF S = {} THEN << >>
                              ELSE LET x == Max(S) IN InsertStable(f[S \ {x}], cs[x])]
<1>1. PICK n \in Nat : n = Len(cs) /\ P = 1 .. n /\ \A k \in P : cs[k] \in Candidate
  OBVIOUS
<1>2. << >> \in Lists /\ \A d \in Lists : \A c \in Candidate : InsertStable(d, c) \in Lists
  BY InsertionFacts
<1>3. ASSUME NEW S \in SUBSET P PROVE Follows(G(S), Lists, << >>, step(S))
  <2>1. \A k \in Nat, d \in Lists : step(S)[k][d] \in Lists
    BY <1>1, <1>2
  <2>2. PICK t : t = step(S)
    OBVIOUS
  <2> HIDE DEF step, Lists
  <2>3. \E g : Follows(g, Lists, << >>, t)
    BY <1>2, <2>1, <2>2, RecursionExists
  <2> QED BY <2>2, <2>3, Zenon
<1>4. ASSUME NEW S \in SUBSET P
      PROVE  /\ G(S)[0] = << >>
             /\ \A k \in Nat : G(S)[k + 1] = IF k + 1 \in S THEN InsertStable(G(S)[k], cs[k + 1])
                                                            ELSE G(S)[k]
  <2>1. PICK g : g = G(S)
    OBVIOUS
  <2>2. Follows(g, Lists, << >>, step(S))
    BY <1>3, <2>1, Zenon
  <2>3. g[0] = << >> /\ \A k \in Nat : g[k] \in Lists /\ g[k + 1] = step(S)[k][g[k]]
    <3> HIDE DEF step, Lists
    <3> QED BY <2>2 DEF Follows
  <2>4. ASSUME NEW k \in Nat, NEW d \in Lists
        PROVE  step(S)[k][d] = IF k + 1 \in S THEN InsertStable(d, cs[k + 1]) ELSE d
    <3> HIDE DEF Lists
    <3> QED OBVIOUS
  <2> HIDE DEF step, Lists, G
  <2>5. \A k \in Nat : g[k + 1] = IF k + 1 \in S THEN InsertStable(g[k], cs[k + 1]) ELSE g[k]
    BY <2>3, <2>4
  <2> QED BY <2>1, <2>3, <2>5
<1> HIDE DEF G
<1>5. ASSUME NEW S \in SUBSET P, NEW m \in Nat, \A k \in S : k <= m
      PROVE  \A j \in Nat : G(S)[m + j] = G(S)[m]
  <2> DEFINE Same == {j \in Nat : G(S)[m + j] = G(S)[m]}
  <2>1. 0 \in Same
    OBVIOUS
  <2>2. ASSUME NEW j \in Nat, j \in Same PROVE j + 1 \in Same
    <3>1. m + j \in Nat /\ m + (j + 1) = (m + j) + 1 /\ ~((m + j) + 1 <= m)
      OBVIOUS
    <3>2. G(S)[(m + j) + 1] = G(S)[m + j]
      BY <1>4, <1>5, <3>1
    <3> QED BY <2>2, <3>1, <3>2
  <2> HIDE DEF Same
  <2>3. \A j \in Nat : j \in Same
    BY <2>1, <2>2, NumberInduction
  <2> QED BY <2>3 DEF Same
<1>6. ASSUME NEW S \in SUBSET P, NEW T \in SUBSET P, NEW m \in Nat,
             \A k \in Nat : k <= m => (k \in S <=> k \in T)
      PROVE  G(S)[m] = G(T)[m]
  <2> DEFINE Same == {j \in Nat : j <= m => G(S)[j] = G(T)[j]}
  <2>1. 0 \in Same
    BY <1>4
  <2>2. ASSUME NEW j \in Nat, j \in Same PROVE j + 1 \in Same
    <3> SUFFICES ASSUME j + 1 <= m PROVE G(S)[j + 1] = G(T)[j + 1]
      OBVIOUS
    <3>1. G(S)[j] = G(T)[j] /\ (j + 1 \in S <=> j + 1 \in T)
      BY <1>6, <2>2
    <3>2. /\ G(S)[j + 1] = IF j + 1 \in S THEN InsertStable(G(S)[j], cs[j + 1]) ELSE G(S)[j]
          /\ G(T)[j + 1] = IF j + 1 \in T THEN InsertStable(G(T)[j], cs[j + 1]) ELSE G(T)[j]
      BY <1>4
    <3> QED BY <3>1, <3>2
  <2> HIDE DEF Same
  <2>3. m \in Same
    BY <2>1, <2>2, NumberInduction
  <2> QED BY <2>3 DEF Same
<1> DEFINE h == [S \in SUBSET P |-> G(S)[n]]
<1>7. ASSUME NEW S \in SUBSET P, S # {}, NEW x, x = Max(S)
      PROVE  h[S] = InsertStable(h[S \ {x}], cs[x])
  <2>1. x \in S /\ (\A k \in S : k <= x) /\ x \in 1 .. n
    <3>1. S \subseteq Nat /\ \A k \in S : k <= n
      BY <1>1
    <3>2. x \in S /\ \A k \in S : k <= x
      BY <1>7, <3>1, MaxIsGreatest
    <3> QED BY <1>1, <3>2
  <2>2. PICK y \in Nat : x = y + 1 /\ y + 1 \in S
    BY <2>1
  <2>3. PICK a \in Nat, b \in Nat : n = x + a /\ n = y + b
    <3>1. n - x \in Nat /\ n - y \in Nat /\ n = x + (n - x) /\ n = y + (n - y)
      BY <2>1, <2>2
    <3> QED BY <3>1
  <2>4. PICK R \in SUBSET P : R = S \ {x}
    OBVIOUS
  <2>5. \A k \in R : k <= y
    BY <1>1, <2>1, <2>2, <2>4
  <2>6. \A k \in Nat : k <= y => (k \in S <=> k \in R)
    BY <2>2, <2>4
  <2>7. G(S)[n] = G(S)[x]
    BY <1>5, <2>1, <2>3
  <2>8. G(R)[n] = G(R)[y]
    BY <1>5, <2>3, <2>5, ZenonT(40)
  <2>9. G(S)[y] = G(R)[y]
    BY <1>6, <2>6
  <2>10. G(S)[x] = InsertStable(G(S)[y], cs[x])
    BY <1>4, <2>2
  <2>11. h[S] = G(S)[n] /\ h[R] = G(R)[n]
    OBVIOUS
  <2> QED BY <2>4, <2>7, <2>8, <2>9, <2>10, <2>11
<1>8. h[{}] = << >>
  <2>1. PICK S \in SUBSET P : S = {}
    OBVIOUS
  <2>2. 0 \in Nat /\ 0 + n = n /\ \A k \in S : k <= 0
    BY <2>1
  <2>3. G(S)[0 + n] = G(S)[0]
    BY <1>5, <2>2
  <2>4. h[S] = G(S)[n] /\ G(S)[0] = << >>
    BY <1>4
  <2> QED BY <2>1, <2>2, <2>3, <2>4
<1>9. Obeys(h)
  <2> HIDE DEF h, P
  <2>1. \A S \in SUBSET P : h[S] = IF S = {} THEN << >>
                                   ELSE LET x == Max(S) IN InsertStable(h[S \ {x}], cs[x])
    BY <1>7, <1>8
  <2>2. h = [S \in SUBSET P |-> h[S]]
    BY DEF h
  <2> QED BY <2>1, <2>2
<1> DEFINE iter == CHOOSE f : Obeys(f)
<1>10. Obeys(iter)
  <2> HIDE DEF Obeys, h
  <2> QED BY <1>9, Zenon
<1>11. SortStable(cs) = iter[P]
  BY DEF SortStable, FoldLeft, MapThenFoldSet
<1> HIDE DEF iter
<1> DEFINE p == [k \in Nat |-> iter[1 .. k]]
<1>12. p[0] = << >>
  <2>1. 1 .. 0 = {}
    OBVIOUS
  <2> QED BY <1>10, <2>1
<1>13. ASSUME NEW k \in Nat, k + 1 \in P PROVE p[k + 1] = InsertStable(p[k], cs[k + 1])
  <2>1. 1 .. k + 1 \in SUBSET P /\ 1 .. k + 1 # {}
    BY <1>1, <1>13
  <2>2. Max(1 .. k + 1) = k + 1
    <3>1. \A j \in 1 .. k + 1 : j <= k + 1
      OBVIOUS
    <3>2. PICK T : T = 1 .. k + 1
      OBVIOUS
    <3>3. T \subseteq Nat /\ T # {} /\ k + 1 \in Nat /\ \A j \in T : j <= k + 1
      BY <2>1, <3>1, <3>2
    <3>4. Max(T) \in T /\ \A j \in T : j <= Max(T)
      BY <3>3, MaxIsGreatest
    <3> QED BY <3>2, <3>4
  <2>3. (1 .. k + 1) \ {k + 1} = 1 .. k
    OBVIOUS
  <2>4. iter[1 .. k + 1] = InsertStable(iter[(1 .. k + 1) \ {k + 1}], cs[k + 1])
    <3>1. \A S \in SUBSET P : S # {} => iter[S] = InsertStable(iter[S \ {Max(S)}], cs[Max(S)])
      BY <1>10
    <3> QED BY <2>1, <2>2, <3>1, Zenon
  <2>5. p[k + 1] = iter[1 .. k + 1] /\ p[k] = iter[1 .. k]
    OBVIOUS
  <2> QED BY <2>3, <2>4, <2>5
<1>14. SortStable(cs) = p[Len(cs)]
  BY <1>1, <1>11
<1> HIDE DEF p
<1> QED BY <1>12, <1>13, <1>14

\* sort.SliceStable keeps the candidates, and the first place goes to the first among
\* those that nobody beats: it beats all that stood before it.
LEMMA FirstOfTheBest ==
  ASSUME NEW cs \in Seq(Candidate)
  PROVE  /\ SortStable(cs) \in Seq(Candidate)
         /\ Members(SortStable(cs)) = Members(cs)
         /\ cs # << >> =>
              \E i \in DOMAIN cs :
                /\ SortStable(cs) # << >> /\ SortStable(cs)[1] = cs[i]
                /\ \A j \in DOMAIN cs : ~Better(cs[j], cs[i]) /\ (j < i => Better(cs[i], cs[j]))
<1> DEFINE Lists == Seq(Candidate)
           Leads(k, i) == \A j \in 1 .. k : ~Better(cs[j], cs[i]) /\ (j < i => Better(cs[i], cs[j]))
<1>1. PICK n \in Nat : n = Len(cs) /\ DOMAIN cs = 1 .. n /\ \A k \in 1 .. n : cs[k] \in Candidate
  OBVIOUS
<1>2. PICK p : /\ p[0] = << >> /\ SortStable(cs) = p[n]
               /\ \A k \in Nat : k + 1 \in 1 .. n => p[k + 1] = InsertStable(p[k], cs[k + 1])
  BY <1>1, SortStepByStep
<1> DEFINE Sorted(k) == /\ p[k] \in Lists /\ Members(p[k]) = {cs[i] : i \in 1 .. k}
                        /\ k = 0 => p[k] = << >>
                        /\ k # 0 => \E i \in 1 .. k : p[k] # << >> /\ p[k][1] = cs[i] /\ Leads(k, i)
<1>3. Sorted(0)
  <2>1. << >> \in Lists /\ Members(<< >>) = {} /\ 1 .. 0 = {}
    BY DEF Members
  <2> QED BY <1>2, <2>1
<1>4. ASSUME NEW k \in Nat, k + 1 \in 1 .. n, Sorted(k) PROVE Sorted(k + 1)
  <2>0. PICK t : t = p[k + 1]
    OBVIOUS
  <2>1. PICK x \in Candidate, s \in Lists :
          x = cs[k + 1] /\ s = p[k] /\ t = p[k + 1] /\ t = InsertStable(s, x)
    BY <1>1, <1>2, <1>4, <2>0
  <2>2. /\ t \in Lists /\ Members(t) = Members(s) \cup {x} /\ t # << >>
        /\ s = << >> \/ Better(x, s[1]) => t[1] = x
        /\ s # << >> /\ ~Better(x, s[1]) => t[1] = s[1]
    <3>1. PICK u : u = InsertStable(s, x)
      OBVIOUS
    <3>2. /\ u \in Seq(Candidate) /\ Members(u) = Members(s) \cup {x} /\ u # << >>
          /\ s = << >> \/ Better(x, s[1]) => u[1] = x
          /\ s # << >> /\ ~Better(x, s[1]) => u[1] = s[1]
      BY <3>1, InsertionFacts
    <3>3. t = u
      BY <2>1, <3>1
    <3> QED BY <3>2, <3>3
  <2>3. \A i \in 1 .. k + 1 : i \in 1 .. k \/ i = k + 1
    OBVIOUS
  <2>4. \A i \in 1 .. k : i \in 1 .. k + 1 /\ i \in 1 .. n
    BY <1>4
  <2>5. Members(t) = {cs[i] : i \in 1 .. k + 1}
    <3>1. Members(s) = {cs[i] : i \in 1 .. k}
      BY <1>4, <2>1
    <3>2. k + 1 \in 1 .. k + 1
      OBVIOUS
    <3> QED BY <2>1, <2>2, <2>3, <2>4, <3>1, <3>2
  <2>6. ~Better(x, x)
    BY BetterIsStrictWeakOrder
  <2>7. \E i \in 1 .. k + 1 : t[1] = cs[i] /\ Leads(k + 1, i)
    <3>1. CASE k = 0
      <4>1. t[1] = cs[1] /\ x = cs[1]
        BY <3>1, <1>4, <2>1, <2>2
      <4>2. Leads(k + 1, 1)
        BY <2>6, <3>1, <4>1
      <4> QED BY <3>1, <4>1, <4>2
    <3>2. CASE k # 0
      <4>1. PICK i \in 1 .. k : s # << >> /\ s[1] = cs[i] /\ Leads(k, i)
        BY <1>4, <2>1, <3>2
      <4>2. i \in 1 .. n /\ cs[i] \in Candidate
        BY <1>1, <2>4
      <4>3. CASE Better(x, cs[i])
        <5>1. ASSUME NEW j \in 1 .. k PROVE ~Better(cs[j], x) /\ Better(x, cs[j])
          <6>1. cs[j] \in Candidate /\ ~Better(cs[j], cs[i])
            BY <1>1, <2>4, <4>1
          <6>2. ~Better(cs[j], x)
            BY <4>2, <4>3, <6>1, BetterIsStrictWeakOrder
          <6>3. Better(cs[i], cs[j]) => Better(x, cs[j])
            BY <4>2, <4>3, <6>1, BetterIsStrictWeakOrder
          <6>4. ~Better(cs[i], cs[j]) => Better(x, cs[j])
            BY <4>2, <4>3, <6>1, <6>2, BetterIsStrictWeakOrder
          <6> QED BY <6>2, <6>3, <6>4
        <5>2. Leads(k + 1, k + 1)
          BY <2>1, <2>3, <2>6, <5>1
        <5>3. t[1] = cs[k + 1] /\ k + 1 \in 1 .. k + 1
          BY <2>1, <2>2, <4>1, <4>3
        <5> QED BY <5>2, <5>3
      <4>4. CASE ~Better(x, cs[i])
        <5>1. ~(k + 1 < i)
          OBVIOUS
        <5>2. Leads(k + 1, i)
          BY <2>1, <2>3, <4>1, <4>4, <5>1
        <5>3. t[1] = cs[i] /\ i \in 1 .. k + 1
          BY <2>2, <2>4, <4>1, <4>4
        <5> QED BY <5>2, <5>3
      <4> QED BY <4>3, <4>4
    <3> QED BY <3>1, <3>2
  <2>8. k + 1 # 0
    OBVIOUS
  <2> HIDE DEF Leads, Lists
  <2> QED BY <2>1, <2>2, <2>5, <2>7, <2>8
<1> HIDE DEF Sorted
<1>5. Sorted(n)
  <2> DEFINE Reached == {k \in Nat : k <= n => Sorted(k)}
  <2>1. 0 \in Reached
    BY <1>3
  <2>2. ASSUME NEW k \in Nat, k \in Reached PROVE k + 1 \in Reached
    BY <1>4, <2>2
  <2> HIDE DEF Reached
  <2>3. n \in Reached
    BY <2>1, <2>2, NumberInduction
  <2> QED BY <2>3 DEF Reached
<1>6. cs # << >> => n # 0
  BY <1>1
<1>7. /\ p[n] \in Lists /\ Members(p[n]) = {cs[i] : i \in 1 .. n}
      /\ cs # << >> => \E i \in 1 .. n : p[n] # << >> /\ p[n][1] = cs[i] /\ Leads(n, i)
  BY <1>5, <1>6 DEF Sorted
<1>8. Members(cs) = {cs[i] : i \in 1 .. n}
  BY <1>1 DEF Members
<1> QED BY <1>1, <1>2, <1>7, <1>8

-----------------------------------------------------------------------------
(* The slots of outcomes, one list for each tracker, read one after the    *)
(* other.                                                                  *)

InTrackerOrder(s) == \A i, j \in DOMAIN s : i < j => s[i].tracker <= s[j].tracker

\* The concatenation of two lists has the members of both. It is in the order of the
\* trackers if both are, and the trackers of the first come before those of the second.
LEMMA ConcatFacts ==
  ASSUME NEW a \in Seq(Candidate), NEW b \in Seq(Candidate), NEW s, s = a \o b
  PROVE  /\ s \in Seq(Candidate)
         /\ Members(s) = Members(a) \cup Members(b)
         /\ InTrackerOrder(a) /\ InTrackerOrder(b)
              /\ (\A x \in Members(a), y \in Members(b) : x.tracker <= y.tracker)
                => InTrackerOrder(s)
<1>1. PICK m \in Nat, n \in Nat : m = Len(a) /\ n = Len(b) /\ DOMAIN a = 1 .. m /\ DOMAIN b = 1 .. n
  OBVIOUS
<1>2. /\ s \in Seq(Candidate) /\ DOMAIN s = 1 .. m + n
      /\ \A i \in 1 .. m + n : s[i] = IF i <= m THEN a[i] ELSE b[i - m]
  BY <1>1
<1>3. \A i \in 1 .. m : i \in 1 .. m + n /\ s[i] = a[i]
  BY <1>2
<1>4. \A i \in 1 .. n : i + m \in 1 .. m + n /\ s[i + m] = b[i]
  <2>1. ASSUME NEW i \in 1 .. n PROVE i + m \in 1 .. m + n /\ ~(i + m <= m) /\ (i + m) - m = i
    OBVIOUS
  <2> QED BY <1>2, <2>1
<1>5. \A i \in 1 .. m + n : (i \in 1 .. m /\ s[i] = a[i]) \/ (i > m /\ i - m \in 1 .. n /\ s[i] = b[i - m])
  BY <1>2
<1>6. Members(s) = Members(a) \cup Members(b)
  <2>1. /\ Members(s) = {s[i] : i \in 1 .. m + n}
        /\ Members(a) = {a[i] : i \in 1 .. m} /\ Members(b) = {b[i] : i \in 1 .. n}
    BY <1>1, <1>2 DEF Members
  <2>2. \A i \in 1 .. m + n : s[i] \in Members(a) \/ s[i] \in Members(b)
    BY <1>5, <2>1
  <2>3. \A i \in 1 .. m : a[i] \in Members(s)
    BY <1>3, <2>1
  <2>4. \A i \in 1 .. n : b[i] \in Members(s)
    BY <1>4, <2>1
  <2> QED BY <2>1, <2>2, <2>3, <2>4
<1>7. ASSUME InTrackerOrder(a), InTrackerOrder(b),
             \A x \in Members(a), y \in Members(b) : x.tracker <= y.tracker,
             NEW i \in 1 .. m + n, NEW j \in 1 .. m + n, i < j
      PROVE  s[i].tracker <= s[j].tracker
  <2>1. CASE j \in 1 .. m
    <3>1. i < j
      BY <1>7
    <3>2. i \in 1 .. m
      BY <2>1, <3>1
    <3>3. s[i] = a[i] /\ s[j] = a[j]
      BY <1>3, <2>1, <3>2
    <3>4. a[i].tracker <= a[j].tracker
      BY <1>1, <1>7, <2>1, <3>1, <3>2 DEF InTrackerOrder
    <3> QED BY <3>3, <3>4
  <2>2. CASE j \notin 1 .. m /\ i \in 1 .. m
    <3>1. s[i] = a[i] /\ i \in DOMAIN a
      BY <1>1, <1>3, <2>2
    <3>2. s[j] = b[j - m] /\ j - m \in DOMAIN b
      BY <1>1, <1>5, <2>2
    <3>3. s[i] \in Members(a) /\ s[j] \in Members(b)
      BY <3>1, <3>2 DEF Members
    <3> QED BY <1>7, <3>3
  <2>3. CASE j \notin 1 .. m /\ i \notin 1 .. m
    <3>1. i - m \in 1 .. n /\ j - m \in 1 .. n /\ s[i] = b[i - m] /\ s[j] = b[j - m]
      BY <1>5, <2>3
    <3>2. i - m < j - m
      BY <1>7
    <3> QED BY <1>1, <1>7, <3>1, <3>2 DEF InTrackerOrder
  <2> QED BY <2>1, <2>2, <2>3
<1>8. DOMAIN s = 1 .. m + n
  BY <1>2
<1> QED BY <1>2, <1>6, <1>7, <1>8 DEF InTrackerOrder

\* FlattenSeq is that, list after list.
LEMMA FlattenStepByStep ==
  ASSUME NEW n \in Nat \ {0}, NEW seqs \in [1 .. n -> Seq(Candidate)]
  PROVE  \E f : /\ f[1] = seqs[1] /\ FlattenSeq(seqs) = f[n]
                /\ \A k \in Nat \ {0} : k + 1 \in 1 .. n => f[k + 1] = f[k] \o seqs[k + 1]
<1> DEFINE Lists == Seq(Candidate)
           step == [k \in Nat |-> [d \in Lists |-> IF k + 2 \in 1 .. n THEN d \o seqs[k + 2] ELSE d]]
           Obeys(f) == f = [i \in 1 .. n |-> IF i = 1 THEN seqs[i] ELSE f[i - 1] \o seqs[i]]
<1>1. Len(seqs) = n
  OBVIOUS
<1>2. seqs[1] \in Lists
  OBVIOUS
<1>3. \A k \in Nat, d \in Lists : step[k][d] \in Lists
  BY ConcatFacts
<1>4. PICK g : Follows(g, Lists, seqs[1], step)
  <2> HIDE DEF Lists, step
  <2> QED BY <1>2, <1>3, RecursionExists, Zenon
<1>5. /\ g[0] = seqs[1]
      /\ \A k \in Nat : k + 2 \in 1 .. n => g[k + 1] = g[k] \o seqs[k + 2]
  <2>1. g[0] = seqs[1] /\ \A k \in Nat : g[k] \in Lists /\ g[k + 1] = step[k][g[k]]
    <3> HIDE DEF step, Lists
    <3> QED BY <1>4 DEF Follows
  <2>2. ASSUME NEW k \in Nat, NEW d \in Lists, k + 2 \in 1 .. n PROVE step[k][d] = d \o seqs[k + 2]
    <3> HIDE DEF Lists
    <3> QED BY <2>2
  <2> HIDE DEF step, Lists
  <2> QED BY <2>1, <2>2
<1> DEFINE h == [i \in 1 .. n |-> g[i - 1]]
<1>6. ASSUME NEW i \in 1 .. n PROVE h[i] = IF i = 1 THEN seqs[i] ELSE h[i - 1] \o seqs[i]
  <2>1. CASE i = 1
    BY <1>5, <2>1
  <2>2. CASE i # 1
    <3>1. PICK k \in Nat : i = k + 2
      <4>1. i - 2 \in Nat /\ i = (i - 2) + 2
        BY <2>2
      <4> QED BY <4>1
    <3>2. k + 1 \in 1 .. n /\ i - 1 = k + 1 /\ (k + 1) - 1 = k
      BY <2>2, <3>1
    <3>3. h[i] = g[k + 1] /\ h[i - 1] = g[k]
      BY <3>2
    <3> QED BY <1>5, <2>2, <3>1, <3>3
  <2> QED BY <2>1, <2>2
<1>7. Obeys(h)
  <2> HIDE DEF h
  <2>1. h = [i \in 1 .. n |-> h[i]]
    BY DEF h
  <2> QED BY <1>6, <2>1
<1> DEFINE flatten == CHOOSE f : Obeys(f)
<1>8. Obeys(flatten)
  <2> HIDE DEF Obeys, h
  <2> QED BY <1>7, Zenon
<1>9. FlattenSeq(seqs) = flatten[n]
  BY <1>1 DEF FlattenSeq
<1> HIDE DEF flatten
<1>10. flatten[1] = seqs[1]
  BY <1>8
<1>11. ASSUME NEW k \in Nat \ {0}, k + 1 \in 1 .. n PROVE flatten[k + 1] = flatten[k] \o seqs[k + 1]
  <2>1. k + 1 # 1 /\ (k + 1) - 1 = k
    OBVIOUS
  <2> QED BY <1>8, <1>11, <2>1
<1> QED BY <1>9, <1>10, <1>11

\* With one list for each tracker the candidates come in the order of the trackers.
LEMMA FlattenFacts ==
  ASSUME NEW n \in Nat \ {0}, NEW seqs \in [1 .. n -> Seq(Candidate)],
         \A k \in 1 .. n : \A c \in Members(seqs[k]) : c.tracker = k
  PROVE  /\ FlattenSeq(seqs) \in Seq(Candidate)
         /\ \A c : c \in Members(FlattenSeq(seqs)) <=> \E k \in 1 .. n : c \in Members(seqs[k])
         /\ InTrackerOrder(FlattenSeq(seqs))
<1>1. PICK f : /\ f[1] = seqs[1] /\ FlattenSeq(seqs) = f[n]
               /\ \A k \in Nat \ {0} : k + 1 \in 1 .. n => f[k + 1] = f[k] \o seqs[k + 1]
  BY FlattenStepByStep
<1> DEFINE Good(k) == /\ f[k] \in Seq(Candidate)
                      /\ \A c : c \in Members(f[k]) <=> \E i \in 1 .. k : c \in Members(seqs[i])
                      /\ InTrackerOrder(f[k])
<1>2. \A k \in 1 .. n : InTrackerOrder(seqs[k])
  <2> SUFFICES ASSUME NEW k \in 1 .. n, NEW i \in DOMAIN seqs[k], NEW j \in DOMAIN seqs[k]
               PROVE  seqs[k][i].tracker <= seqs[k][j].tracker
    BY DEF InTrackerOrder
  <2>1. seqs[k][i] \in Members(seqs[k]) /\ seqs[k][j] \in Members(seqs[k])
    BY DEF Members
  <2> QED BY <2>1
<1>3. Good(1)
  <2>1. 1 \in 1 .. n /\ 1 .. 1 = {1}
    OBVIOUS
  <2> QED BY <1>1, <1>2, <2>1
<1>4. ASSUME NEW k \in Nat \ {0}, k + 1 \in 1 .. n, Good(k) PROVE Good(k + 1)
  <2>1. PICK a, b, s : a = f[k] /\ b = seqs[k + 1] /\ s = f[k + 1]
    OBVIOUS
  <2>2. a \in Seq(Candidate) /\ b \in Seq(Candidate) /\ s = a \o b
    BY <1>1, <1>4, <2>1
  <2>3. /\ s \in Seq(Candidate) /\ Members(s) = Members(a) \cup Members(b)
    BY <2>2, ConcatFacts
  <2>4. \A c : c \in Members(a) <=> \E i \in 1 .. k : c \in Members(seqs[i])
    BY <1>4, <2>1
  <2>5. \A c : c \in Members(s) <=> \E i \in 1 .. k + 1 : c \in Members(seqs[i])
    <3>1. \A i \in 1 .. k + 1 : i \in 1 .. k \/ i = k + 1
      OBVIOUS
    <3>2. k + 1 \in 1 .. k + 1 /\ \A i \in 1 .. k : i \in 1 .. k + 1
      OBVIOUS
    <3> QED BY <2>1, <2>3, <2>4, <3>1, <3>2
  <2>6. InTrackerOrder(s)
    <3>1. ASSUME NEW x \in Members(a), NEW y \in Members(b) PROVE x.tracker <= y.tracker
      <4>1. PICK l \in 1 .. k : x \in Members(seqs[l])
        BY <2>4
      <4>2. l \in 1 .. n /\ x.tracker = l /\ y.tracker = k + 1
        BY <1>4, <2>1, <4>1
      <4> QED BY <4>2
    <3>2. InTrackerOrder(a) /\ InTrackerOrder(b)
      BY <1>2, <1>4, <2>1
    <3> QED BY <2>2, <3>1, <3>2, ConcatFacts
  <2> QED BY <2>1, <2>3, <2>5, <2>6
<1> HIDE DEF Good
<1>5. Good(n)
  <2> DEFINE Reached == {k \in Nat : k + 1 <= n => Good(k + 1)}
  <2>1. 0 \in Reached
    BY <1>3
  <2>2. ASSUME NEW k \in Nat, k \in Reached PROVE k + 1 \in Reached
    BY <1>4, <2>2
  <2> HIDE DEF Reached
  <2>3. n - 1 \in Nat /\ (n - 1) + 1 = n
    OBVIOUS
  <2>4. n - 1 \in Reached
    BY <2>1, <2>2, <2>3, NumberInduction
  <2> QED BY <2>3, <2>4 DEF Reached
<1> QED BY <1>1, <1>5 DEF Good

\* What a tracker offers are its releases.
LEMMA OfferFacts ==
  ASSUME NEW t \in Trackers, NEW page \in Seq(Release)
  PROVE  /\ Offer(t, page) \in Seq(Candidate)
         /\ \A c : c \in Members(Offer(t, page))
                     <=> \E k \in DOMAIN page : c = [tracker |-> t, release |-> page[k]]
<1>1. PICK cs : cs = [k \in DOMAIN page |-> [tracker |-> t, release |-> page[k]]]
  OBVIOUS
<1>2. PICK n \in Nat : DOMAIN page = 1 .. n /\ \A k \in 1 .. n : page[k] \in Release
  <2>1. Len(page) \in Nat /\ DOMAIN page = 1 .. Len(page) /\ \A k \in 1 .. Len(page) : page[k] \in Release
    BY LenProperties, ElementOfSeq
  <2> QED BY <2>1
<1>3. \A k \in 1 .. n : [tracker |-> t, release |-> page[k]] \in Candidate
  BY <1>2 DEF Candidate
<1>4. cs \in Seq(Candidate)
  <2>1. cs = [k \in 1 .. n |-> [tracker |-> t, release |-> page[k]]]
    BY <1>1, <1>2
  <2>2. cs \in [1 .. n -> Candidate]
    BY <1>3, <2>1
  <2> QED BY <2>2, SeqDef
<1>5. \A c : c \in Members(cs) <=> \E k \in DOMAIN page : c = [tracker |-> t, release |-> page[k]]
  BY <1>1, <1>2 DEF Members
<1>6. Offer(t, page) = SortStable(cs)
  BY <1>1 DEF Offer
<1>7. SortStable(cs) \in Seq(Candidate) /\ Members(SortStable(cs)) = Members(cs)
  BY <1>4, FirstOfTheBest
<1> QED BY <1>5, <1>6, <1>7

\* "A tracker that is down must not withhold a release" (worker.go): whatever order the
\* answers arrive in, the first candidate of a round is best among everything any
\* tracker offered, and among its equals it comes from the tracker configured first.
THEOREM MergePicksTheBest ==
  ASSUME NEW outcomes, \A t \in Trackers : outcomes[t].page \in Seq(Release), NEW arrival,
         NEW t \in Trackers, NEW k \in DOMAIN outcomes[t].page,
         NEW c, c = [tracker |-> t, release |-> outcomes[t].page[k]],
         NEW best, best = Merge(outcomes, arrival)[1]
  PROVE  /\ Merge(outcomes, arrival) # << >>
         /\ ~Better(c, best)
         /\ ~Better(best, c) => best.tracker <= t
<1>1. PICK n \in Nat \ {0} : Trackers = 1 .. n
  <2>1. Len(Priorities) \in Nat /\ Trackers = 1 .. Len(Priorities)
    BY PrioritiesAssumption, LenProperties DEF Trackers
  <2>2. Len(Priorities) # 0
    BY PrioritiesAssumption, EmptySeq
  <2> QED BY <2>1, <2>2
<1> DEFINE slots == [u \in 1 .. n |-> Offer(u, outcomes[u].page)]
<1>2. \A u \in 1 .. n : /\ Offer(u, outcomes[u].page) \in Seq(Candidate)
                        /\ \A d : d \in Members(Offer(u, outcomes[u].page))
                             <=> \E i \in DOMAIN outcomes[u].page :
                                   d = [tracker |-> u, release |-> outcomes[u].page[i]]
  BY <1>1, OfferFacts
<1>3. PICK s : s = slots
  OBVIOUS
<1>4. /\ s \in [1 .. n -> Seq(Candidate)]
      /\ \A u \in 1 .. n : \A d : d \in Members(s[u])
           <=> \E i \in DOMAIN outcomes[u].page :
                 d = [tracker |-> u, release |-> outcomes[u].page[i]]
  BY <1>2, <1>3
<1>5. Merge(outcomes, arrival) = SortStable(FlattenSeq(s))
  <2>1. MergeOrder(arrival) = [u \in 1 .. n |-> u]
    BY <1>1 DEF MergeOrder
  <2>2. DOMAIN MergeOrder(arrival) = 1 .. n /\ \A u \in 1 .. n : MergeOrder(arrival)[u] = u
    BY <2>1
  <2>3. slots = [u \in DOMAIN MergeOrder(arrival) |->
                   Offer(MergeOrder(arrival)[u], outcomes[MergeOrder(arrival)[u]].page)]
    BY <2>2
  <2> QED BY <1>3, <2>3 DEF Merge
<1>6. PICK all : all = FlattenSeq(s)
  OBVIOUS
<1>7. /\ all \in Seq(Candidate) /\ InTrackerOrder(all)
      /\ \A d : d \in Members(all) <=> \E u \in 1 .. n : d \in Members(s[u])
  <2>1. \A u \in 1 .. n : \A d \in Members(s[u]) : d.tracker = u
    BY <1>4
  <2> QED BY <1>4, <1>6, <2>1, FlattenFacts
<1>8. c \in Members(all)
  <2>1. c \in Members(s[t])
    BY <1>1, <1>4
  <2> QED BY <1>1, <1>7, <2>1
<1>9. PICK j \in DOMAIN all : c = all[j]
  BY <1>8 DEF Members
<1>10. PICK i \in DOMAIN all :
         /\ SortStable(all) # << >> /\ SortStable(all)[1] = all[i]
         /\ \A l \in DOMAIN all : ~Better(all[l], all[i]) /\ (l < i => Better(all[i], all[l]))
  <2>1. all # << >>
    BY <1>9
  <2> QED BY <1>7, <2>1, FirstOfTheBest
<1>11. best = all[i] /\ Merge(outcomes, arrival) # << >>
  BY <1>5, <1>6, <1>10
<1>12. ~Better(c, best)
  BY <1>9, <1>10, <1>11
<1>13. ASSUME ~Better(best, c) PROVE best.tracker <= t
  <2>1. i \in Nat /\ j \in Nat /\ ~(j < i)
    BY <1>7, <1>9, <1>10, <1>11, <1>13
  <2>2. c.tracker = t /\ t \in Nat
    BY <1>1
  <2>3. CASE i = j
    BY <1>9, <1>11, <2>2, <2>3
  <2>4. CASE i < j
    BY <1>7, <1>9, <1>11, <2>2, <2>4 DEF InTrackerOrder
  <2> QED BY <2>1, <2>3, <2>4
<1> QED BY <1>11, <1>12, <1>13
=============================================================================
