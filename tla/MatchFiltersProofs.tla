------------------------- MODULE MatchFiltersProofs -------------------------
(***************************************************************************)
(* Proofs about MatchFilters: what a search reports is what its settings    *)
(* ask for, the oldest post first, and no reported post closer than the one *)
(* that is named the closest.  First come facts about the lists of the      *)
(* search: filtering and sorting pick the elements of a list at some        *)
(* places, each of them once.                                               *)
(***************************************************************************)
EXTENDS MatchFilters, FiniteSetTheorems, WellFoundedInduction, TLAPS

MatchSet == [post : Post, ham : Nat, size : Nat, title : Int]

-----------------------------------------------------------------------------
\* The inductive invariant.

\* The settings check_image leaves: for an image a template is known of, the
\* target is overwritten.
Memed == [Settings EXCEPT !.percent = 100]
Current == IF Settings.meme /\ meme # "no" THEN Memed ELSE Settings

Searched == step \notin {"search", "failed"}

SettingsOK ==
    /\ settings \in {Settings, Memed} /\ template \in BOOLEAN
    /\ step = "search" => settings = Settings /\ template = FALSE
    /\ Searched => settings = Current /\ template = (Settings.meme /\ meme = "template")
    /\ step = "meme" => template

StateOK ==
    /\ order \in Orders /\ answer \in Answers
    /\ meme \in {"no", "template", "nohash"} /\ (order.kind # "image" => meme = "no")
    /\ step \in {"search", "filter", "text", "closest", "distance", "meme", "sort",
                 "done", "failed"}
    /\ step \in {"closest", "distance", "meme", "sort"} => order.kind = "image"
    /\ step = "text" => order.kind = "text"
    /\ found \in Seq(MatchSet) /\ matches \in Seq(MatchSet)

Titled == order.kind = "image" /\ order.post /\ Settings.title > 0

DistinctOn(ms, S) == \A i, j \in S : i # j => ms[i].post.id # ms[j].post.id
Distinct(ms) == DistinctOn(ms, DOMAIN ms)

\* The matches as the search makes them.
Fresh(m) == /\ m.ham = m.post.ham /\ m.size = HashSize
            /\ m.title = IF Titled THEN m.post.title ELSE 0
FoundOK ==
    /\ \A i \in DOMAIN found : Fresh(found[i])
    /\ \A i, j \in DOMAIN found : found[i].post.id = found[j].post.id => found[i].post = found[j].post
    /\ order.kind = "image" => Distinct(found)

\* What happens to a match on the way: its distance may be overwritten.
HamOf(p) == IF template /\ p = closest THEN p.meme ELSE p.ham
MatchesOK ==
    /\ \A i \in DOMAIN matches : /\ \E j \in DOMAIN found : matches[i].post = found[j].post
                                /\ matches[i].ham \in 0..matches[i].size
    /\ order.kind = "image" => Distinct(matches)
    /\ step = "filter" => matches = found
    /\ step = "closest" => \A i \in DOMAIN matches : Fresh(matches[i])
    /\ step = "distance" => \A i \in DOMAIN matches : matches[i].ham = HamOf(matches[i].post)

Near(p) == /\ p.annoy <= settings.annoy
           /\ WithinPercent(HamOf(p), settings.percent, HashSize)
MemeNear(p) == /\ p.hashable
               /\ WithinPercent(p.meme, settings.memePercent, MemeHashSize)

\* A post is among the matches exactly if it passes the filters that have run.
Reports(ms, p) == \E i \in DOMAIN ms : ms[i].post = p
Wanted(m, s) ==
    /\ order.post => Passes(m)
    /\ order.post /\ settings.dead /\ m.post.state # "up" => m.post.id \in skipped
    /\ order.kind = "text" /\ s = "done" => m.post.distance >= settings.text
    /\ order.kind = "image" /\ s \in {"meme", "sort", "done"} => Near(m.post)
    /\ order.kind = "image" /\ s \in {"sort", "done"} /\ template => MemeNear(m.post)
KeptOK ==
    Searched /\ step # "filter" =>
        \A j \in DOMAIN found : Reports(matches, found[j].post) <=> Wanted(found[j], step)

Best(m) ==
    \/ (template \/ settings.dead) /\ ~ m.post.live
    \/ closest # NoMatch /\ closest.ham <= m.post.ham
    \/ closest = NoMatch /\ 100 * (HashSize - m.post.ham) <= 40 * HashSize
ClosestOK ==
    /\ closest = NoMatch \/ (\E j \in DOMAIN found : closest = found[j].post)
    /\ step \in {"search", "filter", "text", "closest"} => closest = NoMatch
    /\ step \in {"distance", "meme", "sort", "done"} /\ order.kind = "image"
          => \A i \in DOMAIN matches : Best(matches[i])

IInv == StateOK /\ SettingsOK /\ FoundOK /\ MatchesOK /\ KeptOK /\ ClosestOK /\ OldestFirst

-----------------------------------------------------------------------------
\* Lists.

\* before is a total order of the places in S.
TotalOn(before, S) ==
    /\ \A i \in S : <<i, i>> \in before
    /\ \A i, j \in S : <<i, j>> \in before \/ <<j, i>> \in before
    /\ \A i, j \in S : <<i, j>> \in before /\ <<j, i>> \in before => i = j
    /\ \A i, j, k \in S : <<i, j>> \in before /\ <<j, k>> \in before => <<i, k>> \in before

Below(S, before, i) == {j \in S : <<j, i>> \in before}

LEMMA RankGrows ==
    ASSUME NEW S, IsFiniteSet(S), NEW before, TotalOn(before, S),
           NEW i \in S, NEW j \in S, i # j, <<i, j>> \in before
    PROVE  Cardinality(Below(S, before, i)) < Cardinality(Below(S, before, j))
<1> DEFINE A == Below(S, before, i)
           B == Below(S, before, j)
<1>1. B \in SUBSET S /\ A \in SUBSET B
  BY DEF Below, TotalOn
<1>2. j \in B /\ j \notin A
  BY DEF Below, TotalOn
<1>3. IsFiniteSet(B) /\ Cardinality(B) \in Nat
  BY <1>1, FS_Subset, FS_CardinalityType
<1>4. Cardinality(A) \in Nat
  BY <1>1, <1>3, FS_Subset, FS_CardinalityType
<1>5. Cardinality(A) <= Cardinality(B) /\ (Cardinality(B) = Cardinality(A) => B = A)
  BY <1>1, <1>3, FS_Subset
<1> QED
  BY <1>2, <1>3, <1>4, <1>5

\* Every place of an arranged list has its element, and no two have the same.
LEMMA RankFound ==
    ASSUME NEW S, IsFiniteSet(S), NEW before, TotalOn(before, S)
    PROVE  /\ Cardinality(S) \in Nat
           /\ \A i \in S : Cardinality(Below(S, before, i)) \in 1..Cardinality(S)
           /\ \A k \in 1..Cardinality(S) :
                 \E i \in S : Cardinality(Below(S, before, i)) = k
<1> DEFINE n == Cardinality(S)
           r == [i \in S |-> Cardinality(Below(S, before, i))]
<1>1. n \in Nat
  BY FS_CardinalityType
<1>2. ASSUME NEW i \in S PROVE r[i] \in 1..n
  <2>1. Below(S, before, i) \in SUBSET S /\ i \in Below(S, before, i)
    BY DEF Below, TotalOn
  <2>2. IsFiniteSet(Below(S, before, i)) /\ Cardinality(Below(S, before, i)) <= n
    BY <2>1, FS_Subset
  <2>3. Cardinality(Below(S, before, i)) \in Nat /\ Cardinality(Below(S, before, i)) # 0
    BY <2>1, <2>2, FS_EmptySet, FS_CardinalityType
  <2> QED
    BY <1>1, <2>2, <2>3
<1>3. ASSUME NEW i \in S, NEW j \in S, i # j PROVE r[i] # r[j]
  <2>1. r[i] < r[j] \/ r[j] < r[i]
    BY <1>3, RankGrows DEF TotalOn
  <2> QED
    BY <1>2, <2>1
<1>4. r \in Injection(S, 1..n)
  BY <1>2, <1>3 DEF Injection, IsInjective
<1>5. IsFiniteSet(1..n) /\ Cardinality(1..n) = n
  BY <1>1, FS_Interval
<1>6. r \in Surjection(S, 1..n)
  BY <1>4, <1>5, FS_Injection
<1> QED
  BY <1>1, <1>2, <1>6 DEF Surjection

\* A list made of the elements of old at the places f gives.
By(new, old, S, n, f) ==
    /\ new = [k \in 1..n |-> old[f[k]]]
    /\ \A k, l \in 1..n : k # l => f[k] # f[l]
    /\ \A i \in S : \E k \in 1..n : f[k] = i

Ordered(before, n, f) == \A k, l \in 1..n : k < l => <<f[k], f[l]>> \in before

LEMMA Arranged ==
    ASSUME NEW ms, NEW S, IsFiniteSet(S), NEW before, TotalOn(before, S)
    PROVE  \E f \in [1..Cardinality(S) -> S] :
              /\ By(Arrange(ms, S, before), ms, S, Cardinality(S), f)
              /\ Ordered(before, Cardinality(S), f)
<1> DEFINE n == Cardinality(S)
           r(i) == Cardinality(Below(S, before, i))
           f == [k \in 1..n |-> CHOOSE i \in S : r(i) = k]
<1>1. n \in Nat /\ (\A i \in S : r(i) \in 1..n) /\ (\A k \in 1..n : \E i \in S : r(i) = k)
  BY RankFound
<1>2. ASSUME NEW k \in 1..n PROVE f[k] \in S /\ r(f[k]) = k
  BY <1>1
<1>3. Arrange(ms, S, before) = [k \in 1..n |-> ms[f[k]]]
  BY DEF Arrange, Below
<1>4. ASSUME NEW k \in 1..n, NEW l \in 1..n, k < l
      PROVE  f[k] # f[l] /\ <<f[k], f[l]>> \in before
  <2>1. f[k] # f[l]
    BY <1>1, <1>2, <1>4
  <2>2. CASE <<f[l], f[k]>> \in before
    <3>1. r(f[l]) < r(f[k])
      BY <1>2, <2>1, <2>2, RankGrows
    <3> QED
      BY <1>1, <1>2, <1>4, <3>1
  <2> QED
    BY <1>2, <2>1, <2>2 DEF TotalOn
<1>5. ASSUME NEW i \in S PROVE \E k \in 1..n : f[k] = i
  <2>1. r(i) \in 1..n /\ f[r(i)] \in S /\ r(f[r(i)]) = r(i)
    BY <1>1, <1>2
  <2>2. f[r(i)] = i
    <3>1. CASE f[r(i)] # i
      <4>1. r(f[r(i)]) < r(i) \/ r(i) < r(f[r(i)])
        BY <2>1, <3>1, RankGrows DEF TotalOn
      <4> QED
        BY <1>1, <2>1, <4>1
    <3> QED
      BY <3>1
  <2> QED
    BY <2>1, <2>2
<1>6. f \in [1..n -> S]
  BY <1>2
<1>7. \A k, l \in 1..n : k # l => f[k] # f[l]
  BY <1>1, <1>2
<1> HIDE DEF f, r
<1>8. By(Arrange(ms, S, before), ms, S, n, f) /\ Ordered(before, n, f)
  BY <1>3, <1>4, <1>5, <1>7 DEF By, Ordered
<1> QED
  BY <1>6, <1>8

LEMMA PlacesFinite ==
    ASSUME NEW X, NEW old \in Seq(X), NEW S \in SUBSET DOMAIN old
    PROVE  IsFiniteSet(S) /\ Cardinality(S) \in Nat
<1>1. Len(old) \in Nat /\ DOMAIN old = 1..Len(old)
  OBVIOUS
<1>2. IsFiniteSet(1..Len(old))
  BY <1>1, FS_Interval
<1> QED
  BY <1>1, <1>2, FS_Subset, FS_CardinalityType

LEMMA OnlyBy ==
    ASSUME NEW X, NEW old \in Seq(X), NEW S \in SUBSET DOMAIN old
    PROVE  \E n \in Nat : \E f \in [1..n -> S] : By(Only(old, S), old, S, n, f)
<1> DEFINE R == {p \in S \X S : p[1] <= p[2]}
<1>1. IsFiniteSet(S) /\ Cardinality(S) \in Nat
  BY PlacesFinite
<1>2. S \subseteq Int
  OBVIOUS
<1>3. TotalOn(R, S)
  BY <1>2 DEF TotalOn
<1> HIDE DEF R
<1>4. \E f \in [1..Cardinality(S) -> S] :
           /\ By(Arrange(old, S, R), old, S, Cardinality(S), f)
           /\ Ordered(R, Cardinality(S), f)
  BY <1>1, <1>3, Arranged
<1>5. Only(old, S) = Arrange(old, S, R)
  BY DEF Only, R
<1> QED
  BY <1>1, <1>4, <1>5

\* What new has is what old has at the places in S, each place once.
Takes(new, old, S) ==
    /\ new \in Seq(MatchSet)
    /\ \A k \in DOMAIN new : \E i \in S : new[k] = old[i]
    /\ \A i \in S : \E k \in DOMAIN new : new[k] = old[i]
    /\ DistinctOn(old, S) => Distinct(new)

\* What new reports, the test of the places has let through.
Lets(new, old, S) ==
    /\ new \in Seq(MatchSet) /\ Distinct(new)
    /\ \A k \in DOMAIN new : \E i \in DOMAIN old : i \in S /\ new[k] = old[i]
    /\ \A p : Reports(new, p) <=> \E i \in S : old[i].post = p

LEMMA TakesReports ==
    ASSUME NEW old \in Seq(MatchSet), Distinct(old), NEW S \in SUBSET DOMAIN old,
           NEW new, Takes(new, old, S)
    PROVE  Lets(new, old, S)
<1>1. /\ \A k \in DOMAIN new : \E i \in S : new[k] = old[i]
      /\ \A i \in S : \E k \in DOMAIN new : new[k] = old[i]
  BY DEF Takes
<1>2. DistinctOn(old, S)
  BY DEF Distinct, DistinctOn
<1>3. new \in Seq(MatchSet) /\ Distinct(new)
  BY <1>2 DEF Takes
<1>4. ASSUME NEW p PROVE Reports(new, p) <=> \E i \in S : old[i].post = p
  BY <1>1 DEF Reports
<1> QED
  BY <1>1, <1>3, <1>4 DEF Lets

LEMMA TakesBy ==
    ASSUME NEW old \in Seq(MatchSet), NEW S \in SUBSET DOMAIN old, NEW new,
           NEW n \in Nat, NEW f \in [1..n -> S], By(new, old, S, n, f)
    PROVE  Takes(new, old, S) /\ DOMAIN new = 1..n
<1>1. \A i \in S : old[i] \in MatchSet
  OBVIOUS
<1>2. new = [k \in 1..n |-> old[f[k]]] /\ \A k \in 1..n : f[k] \in S
  BY DEF By
<1>3. new \in [1..n -> MatchSet]
  BY <1>1, <1>2
<1>4. new \in Seq(MatchSet) /\ DOMAIN new = 1..n
  BY <1>3
<1>5. DistinctOn(old, S) => Distinct(new)
  BY <1>2, <1>4 DEF DistinctOn, Distinct, By
<1> QED
  BY <1>2, <1>4, <1>5 DEF Takes, By

LEMMA OnlyTakes ==
    ASSUME NEW old \in Seq(MatchSet), NEW S \in SUBSET DOMAIN old
    PROVE  Takes(Only(old, S), old, S)
<1>1. PICK n \in Nat : \E f \in [1..n -> S] : By(Only(old, S), old, S, n, f)
  BY OnlyBy
<1>2. PICK f \in [1..n -> S] : By(Only(old, S), old, S, n, f)
  BY <1>1
<1> QED
  BY <1>2, TakesBy

\* The stable sort by age: a permutation, the oldest first.
LEMMA SortTakes ==
    ASSUME NEW old \in Seq(MatchSet)
    PROVE  /\ Takes(SortReposts(old), old, DOMAIN old)
           /\ \A k, l \in DOMAIN SortReposts(old) :
                 k < l => SortReposts(old)[k].post.age >= SortReposts(old)[l].post.age
<1> DEFINE S == DOMAIN old
           n == Cardinality(S)
           new == SortReposts(old)
<1>1. IsFiniteSet(S) /\ n \in Nat
  BY PlacesFinite
<1>2. S \subseteq Int /\ \A i \in S : old[i].post.age \in Int
  <2>1. \A i \in S : old[i] \in MatchSet
    OBVIOUS
  <2>2. \A m \in MatchSet : m.post.age \in Int
    BY DEF MatchSet, Post
  <2> QED
    BY <2>1, <2>2
<1>3. \A i, j \in S : <<i, j>> \in Before(old) <=>
                        \/ old[i].post.age > old[j].post.age
                        \/ old[i].post.age = old[j].post.age /\ i <= j
  BY DEF Before
<1>4. TotalOn(Before(old), S)
  <2>1. \A i \in S : <<i, i>> \in Before(old)
    BY <1>2, <1>3
  <2>2. ASSUME NEW i \in S, NEW j \in S
        PROVE  <<i, j>> \in Before(old) \/ <<j, i>> \in Before(old)
    <3>1. \A a, b, x, y \in Int :
              a > b \/ (a = b /\ x <= y) \/ b > a \/ (b = a /\ y <= x)
      OBVIOUS
    <3> QED
      BY <1>2, <1>3, <3>1
  <2>3. \A i, j \in S : <<i, j>> \in Before(old) /\ <<j, i>> \in Before(old) => i = j
    BY <1>2, <1>3
  <2>4. \A i, j, k \in S :
            <<i, j>> \in Before(old) /\ <<j, k>> \in Before(old) => <<i, k>> \in Before(old)
    <3>1. \A a, b, c, x, y, z \in Int :
              /\ a > b \/ (a = b /\ x <= y)
              /\ b > c \/ (b = c /\ y <= z)
              => a > c \/ (a = c /\ x <= z)
      OBVIOUS
    <3>2. ASSUME NEW i \in S, NEW j \in S, NEW k \in S,
                 <<i, j>> \in Before(old), <<j, k>> \in Before(old)
          PROVE  <<i, k>> \in Before(old)
      <4> DEFINE a == old[i].post.age
                 b == old[j].post.age
                 c == old[k].post.age
      <4>1. a \in Int /\ b \in Int /\ c \in Int /\ i \in Int /\ j \in Int /\ k \in Int
        BY <1>2
      <4>2. (a > b \/ (a = b /\ i <= j)) /\ (b > c \/ (b = c /\ j <= k))
        BY <1>3, <3>2
      <4>3. a > c \/ (a = c /\ i <= k)
        <5> HIDE DEF a, b, c
        <5> QED
          BY <3>1, <4>1, <4>2
      <4> QED
        BY <1>3, <4>3
    <3> QED
      BY <3>2
  <2> QED
    BY <2>1, <2>2, <2>3, <2>4 DEF TotalOn
<1>5. \E f \in [1..n -> S] : By(Arrange(old, S, Before(old)), old, S, n, f)
                              /\ Ordered(Before(old), n, f)
  BY <1>1, <1>4, Arranged
<1>6. new = Arrange(old, S, Before(old))
  BY DEF SortReposts
<1>7. PICK f \in [1..n -> S] : By(new, old, S, n, f) /\ Ordered(Before(old), n, f)
  BY <1>5, <1>6
<1>9. Takes(new, old, S) /\ DOMAIN new = 1..n
  BY <1>1, <1>7, TakesBy
<1>10. ASSUME NEW k \in 1..n, NEW l \in 1..n, k < l PROVE new[k].post.age >= new[l].post.age
  <2>1. <<f[k], f[l]>> \in Before(old) /\ f[k] \in S /\ f[l] \in S
    BY <1>7, <1>10 DEF Ordered
  <2>2. old[f[k]].post.age >= old[f[l]].post.age
    BY <1>2, <1>3, <2>1
  <2> QED
    BY <1>7, <2>2 DEF By
<1> QED
  BY <1>9, <1>10

\* What the utility API answers lists each place of Listed once.
LEMMA ReportedTakes ==
    ASSUME NEW old \in Seq(MatchSet), NEW down, NEW new \in Reported(old, down)
    PROVE  Takes(new, old, Listed(old, down))
<1> DEFINE S == Listed(old, down)
           n == Cardinality(S)
<1>1. S \in SUBSET DOMAIN old
  BY DEF Listed
<1>2. IsFiniteSet(S) /\ n \in Nat
  BY <1>1, PlacesFinite
<1>3. PICK s \in SetToSeqs(S) : new = [i \in DOMAIN s |-> old[s[i]]]
  BY DEF Reported
<1>4. s \in [1..n -> S] /\ \A i, j \in 1..n : i # j => s[i] # s[j]
  BY <1>3 DEF SetToSeqs
<1>5. s \in Injection(1..n, S)
  BY <1>4 DEF Injection, IsInjective
<1>6. IsFiniteSet(1..n) /\ Cardinality(1..n) = n
  BY <1>2, FS_Interval
<1>7. s \in Surjection(1..n, S)
  BY <1>2, <1>5, <1>6, FS_Injection
<1>8. By(new, old, S, n, s)
  BY <1>3, <1>4, <1>7 DEF By, Surjection
<1> QED
  BY <1>1, <1>2, <1>4, <1>8, TakesBy

-----------------------------------------------------------------------------
\* Settings.

LEMMA SettingsType ==
    ASSUME order \in Orders
    PROVE  Settings \in SearchSettings
<1>1. \A k \in {"image", "link", "text"} : Config[k] \in SearchSettings
  BY FiltersAssumption
<1>2. /\ order.kind \in {"image", "link", "text"}
      /\ order.from \in {"default", "request", "sub"}
      /\ Typed(order.asked) /\ Typed(SubRow) /\ DOMAIN SubRow = Columns
  BY FiltersAssumption
<1>3. ASSUME NEW p \in Numbers, NEW d \in Int
      PROVE  IfGiven(p, d) \in Int /\ OrDefault(p, d) \in Int
  BY <1>2 DEF IfGiven, OrDefault, Given, Typed
<1>4. ASSUME NEW p, p \notin Numbers, NEW d \in BOOLEAN
      PROVE  IfGiven(p, d) \in BOOLEAN
  BY <1>2, <1>4 DEF IfGiven, Given, Typed
<1>5. CASE order.from = "default"
  BY <1>1, <1>2, <1>5 DEF Settings
<1>6. CASE order.from = "request"
  <2>1. Config["image"] \in SearchSettings /\ Config["link"] \in SearchSettings
    BY <1>1
  <2> DEFINE c == Config["image"]
  <2>2. /\ OrDefault("target_match_percent", c.percent) \in Int
        /\ OrDefault("target_title_match", c.title) \in Int
        /\ OrDefault("target_meme_match_percent", c.memePercent) \in Int
        /\ OrDefault("max_days_old", Config["link"].days) \in Int
    BY <1>3, <2>1 DEF SearchSettings, Numbers
  <2>3. /\ IfGiven("filter_dead_matches", c.dead) \in BOOLEAN
        /\ IfGiven("only_older_matches", c.older) \in BOOLEAN
        /\ IfGiven("filter_same_author", c.author) \in BOOLEAN
        /\ IfGiven("meme_filter", c.meme) \in BOOLEAN
        /\ IfGiven("same_sub", c.sameSub) \in BOOLEAN
    BY <1>4, <2>1 DEF SearchSettings, Numbers
  <2>4. FromRequest \in SearchSettings
    <3>1. PICK n1 \in Int, n2 \in Int, n3 \in Int, n4 \in Int :
              /\ n1 = OrDefault("target_match_percent", c.percent)
              /\ n2 = OrDefault("target_title_match", c.title)
              /\ n3 = OrDefault("target_meme_match_percent", c.memePercent)
              /\ n4 = OrDefault("max_days_old", Config["link"].days)
      BY <2>2
    <3>2. PICK b1 \in BOOLEAN, b2 \in BOOLEAN, b3 \in BOOLEAN, b4 \in BOOLEAN,
               b5 \in BOOLEAN, b6 \in BOOLEAN :
              /\ b1 = IfGiven("filter_dead_matches", c.dead)
              /\ b2 = IfGiven("only_older_matches", c.older)
              /\ b3 = IfGiven("filter_same_author", c.author)
              /\ b4 = (~ IfGiven("include_crossposts", ~ c.cross))
              /\ b5 = IfGiven("meme_filter", c.meme)
              /\ b6 = IfGiven("same_sub", c.sameSub)
      BY <2>3
    <3>3. FromRequest =
            [c EXCEPT !.percent = n1, !.title = n2, !.dead = b1, !.older = b2,
                     !.author = b3, !.cross = b4, !.memePercent = n3, !.meme = b5,
                     !.sameSub = b6, !.days = n4]
      BY <3>1, <3>2 DEF FromRequest
    <3>4. PICK d \in SearchSettings : d = c
      BY <2>1
    <3>5. [d EXCEPT !.percent = n1, !.title = n2, !.dead = b1, !.older = b2,
                     !.author = b3, !.cross = b4, !.memePercent = n3, !.meme = b5,
                     !.sameSub = b6, !.days = n4] \in SearchSettings
      BY DEF SearchSettings
    <3> QED
      BY <3>3, <3>4, <3>5
  <2> QED
    BY <1>6, <2>4 DEF Settings
<1>7. CASE order.from = "sub"
  <2> DEFINE row == [c \in Columns |-> IfGiven(c, SubRow[c])]
  <2>1. ASSUME NEW c \in Columns
        PROVE  row[c] \in IF c \in Numbers THEN Int ELSE BOOLEAN
    BY <1>2, <1>3, <1>4 DEF Typed
  <2>2. Config["image"].annoy \in Int
    BY <1>1 DEF SearchSettings
  <2>3. /\ row["target_image_match"] \in Int /\ row["target_image_meme_match"] \in Int
        /\ row["target_title_match"] \in Int /\ row["target_days_old"] \in Int
        /\ row["target_text_distance"] \in Int
    BY <2>1 DEF Columns, Numbers
  <2>4. /\ row["meme_filter"] \in BOOLEAN /\ row["check_title_similarity"] \in BOOLEAN
        /\ row["same_sub_only"] \in BOOLEAN /\ row["filter_same_author"] \in BOOLEAN
        /\ row["filter_crossposts"] \in BOOLEAN
    BY <2>1 DEF Columns, Numbers
  <2> HIDE DEF row
  <2>5. FromSub \in SearchSettings
    BY <2>2, <2>3, <2>4 DEF FromSub, SearchSettings, row
  <2> QED
    BY <1>7, <2>5 DEF Settings
<1> QED
  BY <1>2, <1>5, <1>6, <1>7

\* A request that says whether crossposts are to be included is heard.
LEMMA CrossSetting ==
    ASSUME order \in Orders, Given("include_crossposts")
    PROVE  Settings.cross <=> ~ order.asked["include_crossposts"]
<1>1. order.from = "request"
  BY FiltersAssumption DEF Given, Columns
<1>2. Config["image"] \in SearchSettings
  BY FiltersAssumption
<1>3. Settings.cross = FromRequest.cross
  BY <1>1 DEF Settings
<1>4. FromRequest.cross = (~ IfGiven("include_crossposts", ~ Config["image"].cross))
  BY <1>2 DEF FromRequest, SearchSettings
<1> QED
  BY <1>3, <1>4 DEF IfGiven

LEMMA SameSettings ==
    ASSUME order' = order, meme' = meme
    PROVE  /\ Settings' = Settings /\ Memed' = Memed /\ Current' = Current
           /\ Titled' = Titled
<1>1. Settings' = Settings
  BY DEF Settings, FromRequest, FromSub, IfGiven, OrDefault, Given
<1>2. Memed' = Memed
  BY <1>1 DEF Memed
<1> QED
  BY <1>1, <1>2 DEF Current, Titled

\* The settings that are in force have the type of the settings that were made,
\* and differ from them in the target only.
LEMMA SettingsFacts ==
    ASSUME order \in Orders, SettingsOK
    PROVE  /\ settings \in SearchSettings
           /\ settings.percent \in {Settings.percent, 100}
           /\ settings.memePercent = Settings.memePercent /\ settings.annoy = Settings.annoy
           /\ settings.title = Settings.title /\ settings.days = Settings.days
           /\ settings.text = Settings.text /\ settings.meme = Settings.meme
           /\ settings.sameSub = Settings.sameSub /\ settings.older = Settings.older
           /\ settings.author = Settings.author /\ settings.cross = Settings.cross
           /\ settings.dead = Settings.dead
<1>1. Settings \in SearchSettings
  BY SettingsType
<1>2. settings \in {Settings, [Settings EXCEPT !.percent = 100]}
  BY DEF SettingsOK, Memed
<1> HIDE DEF Settings
<1> QED
  BY <1>1, <1>2 DEF SearchSettings

-----------------------------------------------------------------------------
\* The closest match.

LEMMA Least ==
    ASSUME NEW S \in SUBSET Nat, S # {}
    PROVE  \E x \in S : \A y \in S : x <= y
<1> DEFINE R == OpToRel(<, Nat)
<1>1. IsWellFoundedOn(R, Nat)
  BY NatLessThanWellFounded
<1>2. \A x, y \in Nat : <<y, x>> \in R <=> y < x
  BY DEF OpToRel
<1> HIDE DEF R
<1>3. PICK x \in S : \A y \in S : ~ (<<y, x>> \in R)
  BY <1>1, WFMin
<1>4. ASSUME NEW y \in S PROVE x <= y
  <2>1. ~ (y < x)
    BY <1>2, <1>3
  <2> QED
    BY <2>1
<1> QED
  BY <1>4

\* The places get_closest_image_match looks at.
Live(ms, valid) == {i \in DOMAIN ms : valid => ms[i].post.live}

LEMMA ClosestFacts ==
    ASSUME NEW ms \in Seq(MatchSet), NEW valid \in BOOLEAN
    PROVE  LET i == Closest(ms, valid)
           IN  \/ i = 0 /\ Live(ms, valid) = {}
               \/ /\ i \in Live(ms, valid)
                  /\ \A j \in Live(ms, valid) : ms[j].ham >= ms[i].ham
<1> DEFINE L == Live(ms, valid)
           T == {ms[i].ham : i \in L}
           good(i) == \A j \in L : ms[j].ham > ms[i].ham \/ (ms[j].ham = ms[i].ham /\ i <= j)
<1>1. CASE L = {}
  BY <1>1 DEF Closest, Live
<1>2. CASE L # {}
  <2>1. L \in SUBSET Nat /\ \A i \in L : ms[i] \in MatchSet
    BY DEF Live
  <2>2. \A i \in L : ms[i].ham \in Nat
    BY <2>1 DEF MatchSet
  <2>3. T \in SUBSET Nat /\ T # {}
    BY <1>2, <2>2
  <2>4. PICK h \in T : \A x \in T : h <= x
    BY <2>3, Least
  <2> DEFINE U == {i \in L : ms[i].ham = h}
  <2>5. U \in SUBSET Nat /\ U # {}
    BY <2>1, <2>4
  <2>6. PICK i \in U : \A j \in U : i <= j
    BY <2>5, Least
  <2>7. i \in L /\ ms[i].ham = h
    BY <2>6
  <2>8. ASSUME NEW j \in L
        PROVE  ms[j].ham > ms[i].ham \/ (ms[j].ham = ms[i].ham /\ i <= j)
    <3>1. h <= ms[j].ham /\ ms[j].ham \in Nat /\ h \in Nat
      BY <2>2, <2>3, <2>4
    <3>2. CASE ms[j].ham = h
      BY <2>6, <2>7, <3>2
    <3> QED
      BY <2>7, <3>1, <3>2
  <2>9. \E x \in L : good(x)
    BY <2>7, <2>8
  <2>10. Closest(ms, valid) = CHOOSE x \in L : good(x)
    BY <1>2 DEF Closest, Live
  <2>11. Closest(ms, valid) \in L /\ good(Closest(ms, valid))
    BY <2>9, <2>10
  <2> QED
    BY <2>2, <2>11
<1> QED
  BY <1>1, <1>2

-----------------------------------------------------------------------------
\* The search.

LEMMA MatchType ==
    ASSUME NEW p \in Post
    PROVE  /\ Match(p) \in MatchSet /\ Match(p).post = p /\ Match(p).ham = p.ham
           /\ Match(p).size = HashSize /\ Match(p).title = 0
           /\ p.ham \in 0..HashSize /\ p.meme \in 0..MemeHashSize /\ HashSize \in Nat
           /\ p # NoMatch
<1>1. p.ham \in 0..HashSize /\ p.meme \in 0..MemeHashSize /\ p.id # "none"
  BY DEF Post
<1>2. HashSize \in Nat /\ MemeHashSize \in Nat
  BY FiltersAssumption
<1>3. p # NoMatch
  BY <1>1 DEF NoMatch
<1>4. p.ham \in Nat /\ 0 \in Int
  BY <1>1, <1>2
<1> QED
  BY <1>1, <1>2, <1>3, <1>4 DEF Match, MatchSet

LEMMA BeginOK ==
    ASSUME IInv, step = "search", NEW ms \in Seq(MatchSet),
           \A i \in DOMAIN ms : \E j \in DOMAIN answer : ms[i] = Match(answer[j]),
           order.kind = "image" => Distinct(ms), Begin(ms),
           order' = order, meme' = meme, answer' = answer, closest' = closest,
           skipped' = skipped, settings' = Current,
           template' = (Settings.meme /\ meme = "template")
    PROVE  IInv'
<1> DEFINE new == matches'
<1>1. /\ order \in Orders /\ answer \in Answers /\ settings = Settings /\ closest = NoMatch
      /\ order.kind # "image" => meme = "no"
  BY DEF IInv, StateOK, SettingsOK, ClosestOK
<1>2. /\ Settings' = Settings /\ Memed' = Memed /\ Current' = Current /\ Titled' = Titled
      /\ Settings \in SearchSettings
  BY <1>1, SameSettings, SettingsType
<1>3. /\ answer \in Seq(Post)
      /\ \A i, j \in DOMAIN answer : answer[i].id = answer[j].id => answer[i] = answer[j]
  BY <1>1, AnswersAssumption
<1>4. /\ new = [i \in DOMAIN ms |->
                  IF Titled THEN [ms[i] EXCEPT !.title = ms[i].post.title] ELSE ms[i]]
      /\ found' = new /\ step' = "filter"
  BY <1>1 DEF Begin, Titled
<1>5. ASSUME NEW i \in DOMAIN ms
      PROVE  /\ new[i] \in MatchSet /\ new[i].post = ms[i].post /\ Fresh(new[i])
             /\ new[i].ham \in 0..new[i].size
             /\ \E j \in DOMAIN answer : new[i].post = answer[j]
  <2>1. PICK j \in DOMAIN answer : ms[i] = Match(answer[j])
    OBVIOUS
  <2>2. PICK p \in Post : p = answer[j]
    BY <1>3
  <2>3. /\ ms[i] \in MatchSet /\ ms[i].post = p /\ ms[i].ham = p.ham
        /\ ms[i].size = HashSize /\ ms[i].title = 0 /\ p.ham \in 0..HashSize
    BY <2>1, <2>2, MatchType
  <2>4. p.title \in Int
    BY DEF Post
  <2>5. new[i] = IF Titled THEN [ms[i] EXCEPT !.title = p.title] ELSE ms[i]
    BY <1>4, <2>3
  <2>6. /\ new[i] \in MatchSet /\ new[i].post = p /\ new[i].ham = p.ham
        /\ new[i].size = HashSize /\ new[i].title = IF Titled THEN p.title ELSE 0
    BY <2>3, <2>4, <2>5 DEF MatchSet
  <2> QED
    BY <2>2, <2>3, <2>6 DEF Fresh
<1>6. new \in Seq(MatchSet) /\ DOMAIN new = DOMAIN ms
  <2>1. Len(ms) \in Nat /\ DOMAIN ms = 1..Len(ms)
    OBVIOUS
  <2> QED
    BY <1>4, <1>5, <2>1
<1> HIDE DEF new
<1>7. StateOK'
  BY <1>1, <1>4, <1>6 DEF IInv, StateOK, new
<1>8. SettingsOK'
  <2>1. template' \in BOOLEAN
    OBVIOUS
  <2>2. Current \in {Settings, Memed}
    BY DEF Current
  <2> QED
    BY <1>2, <1>4, <2>1, <2>2 DEF SettingsOK, Searched
<1>9. order.kind = "image" => Distinct(new)
  BY <1>5, <1>6 DEF Distinct, DistinctOn
<1>10. FoundOK'
  <2>1. (\A i \in DOMAIN found : Fresh(found[i]))'
    BY <1>2, <1>4, <1>5, <1>6 DEF Fresh
  <2>2. \A i, j \in DOMAIN new : new[i].post.id = new[j].post.id => new[i].post = new[j].post
    BY <1>3, <1>5, <1>6
  <2> QED
    BY <1>1, <1>4, <1>9, <2>1, <2>2 DEF FoundOK, Distinct, DistinctOn
<1>11. MatchesOK'
  BY <1>4, <1>5, <1>6, <1>9 DEF MatchesOK, new, Distinct, DistinctOn
<1>12. KeptOK' /\ OldestFirst'
  BY <1>4 DEF KeptOK, OldestFirst
<1>13. ClosestOK'
  BY <1>1, <1>4 DEF ClosestOK
<1> QED
  BY <1>7, <1>8, <1>10, <1>11, <1>12, <1>13 DEF IInv

LEMMA MadeType ==
    ASSUME NEW posts \in Seq(Post)
    PROVE  LET made == [i \in DOMAIN posts |-> Match(posts[i])]
           IN  made \in Seq(MatchSet) /\ DOMAIN made = DOMAIN posts
<1>1. Len(posts) \in Nat /\ DOMAIN posts = 1..Len(posts)
  OBVIOUS
<1>2. \A i \in DOMAIN posts : Match(posts[i]) \in MatchSet
  BY MatchType
<1> QED
  BY <1>1, <1>2

LEMMA CheckImageOK ==
    ASSUME IInv, CheckImage
    PROVE  IInv'
<1> DEFINE made == [i \in DOMAIN answer |-> Match(answer[i])]
           S == {i \in DOMAIN made : \A j \in 1..(i - 1) : made[j].post.id # made[i].post.id}
<1>1. /\ step = "search" /\ order.kind = "image" /\ DetectMeme
      /\ Begin(RemoveDuplicates(made))
      /\ order' = order /\ meme' = meme /\ answer' = answer
      /\ closest' = closest /\ skipped' = skipped
  BY DEF CheckImage
<1>2. answer \in Seq(Post) /\ settings = Settings
  BY <1>1, AnswersAssumption DEF IInv, StateOK, SettingsOK
<1>3. made \in Seq(MatchSet) /\ DOMAIN made = DOMAIN answer
  BY <1>2, MadeType
<1>4. RemoveDuplicates(made) = Only(made, S)
  BY DEF RemoveDuplicates
<1>5. DistinctOn(made, S)
  <2>1. ASSUME NEW i \in S, NEW j \in S, i # j
        PROVE  made[i].post.id # made[j].post.id
    <3>1. S \in SUBSET Nat /\ 1 <= i /\ 1 <= j
      BY <1>3
    <3>2. i \in 1..(j - 1) \/ j \in 1..(i - 1)
      BY <2>1, <3>1
    <3> QED
      BY <3>2
  <2> QED
    BY <2>1 DEF DistinctOn
<1>6. Takes(Only(made, S), made, S)
  BY <1>3, OnlyTakes
<1>7. /\ settings' = Current
      /\ template' = (Settings.meme /\ meme = "template")
  BY <1>1, <1>2 DEF DetectMeme, Current, Memed
<1> DEFINE ms == RemoveDuplicates(made)
<1>8. \A i \in S : i \in DOMAIN answer /\ made[i] = Match(answer[i])
  OBVIOUS
<1> HIDE DEF made, S
<1>9. /\ ms \in Seq(MatchSet) /\ Distinct(ms)
      /\ \A i \in DOMAIN ms : \E j \in DOMAIN answer : ms[i] = Match(answer[j])
  BY <1>4, <1>5, <1>6, <1>8 DEF Takes
<1> HIDE DEF ms
<1>10. Begin(ms)
  BY <1>1 DEF ms
<1> QED
  BY <1>1, <1>7, <1>9, <1>10, BeginOK

\* A search that is not for an image knows no template.
LEMMA NoMemeElsewhere ==
    ASSUME IInv, step = "search", order.kind # "image",
           settings' = settings, template' = template
    PROVE  settings' = Current /\ template' = (Settings.meme /\ meme = "template")
<1>1. meme = "no" /\ settings = Settings /\ template = FALSE
  BY DEF IInv, StateOK, SettingsOK
<1> QED
  BY <1>1 DEF Current

LEMMA LinkSearchOK ==
    ASSUME IInv, LinkSearch
    PROVE  IInv'
<1> DEFINE ms == [i \in DOMAIN answer |-> Match(answer[i])]
<1>1. /\ step = "search" /\ order.kind = "link" /\ Begin(ms)
      /\ order' = order /\ meme' = meme /\ answer' = answer
      /\ closest' = closest /\ skipped' = skipped
      /\ settings' = settings /\ template' = template
  BY DEF LinkSearch
<1>2. answer \in Seq(Post)
  BY AnswersAssumption DEF IInv, StateOK
<1>3. /\ ms \in Seq(MatchSet)
      /\ \A i \in DOMAIN ms : \E j \in DOMAIN answer : ms[i] = Match(answer[j])
  BY <1>2, MadeType
<1>4. settings' = Current /\ template' = (Settings.meme /\ meme = "template")
  BY <1>1, NoMemeElsewhere
<1> HIDE DEF ms
<1> QED
  BY <1>1, <1>3, <1>4, BeginOK

LEMMA TextSearchOK ==
    ASSUME IInv, TextSearch
    PROVE  IInv'
<1> DEFINE S == {i \in DOMAIN answer : answer[i].stored}
           stored == Only(answer, S)
           ms == [i \in DOMAIN stored |-> Match(stored[i])]
<1>1. /\ step = "search" /\ order.kind = "text" /\ Begin(ms)
      /\ order' = order /\ meme' = meme /\ answer' = answer
      /\ closest' = closest /\ skipped' = skipped
      /\ settings' = settings /\ template' = template
  BY DEF TextSearch, Filter
<1>2. answer \in Seq(Post)
  BY AnswersAssumption DEF IInv, StateOK
<1>3. PICK n \in Nat : \E f \in [1..n -> S] : By(stored, answer, S, n, f)
  BY <1>2, OnlyBy
<1>4. PICK f \in [1..n -> S] : By(stored, answer, S, n, f)
  BY <1>3
<1> HIDE DEF stored
<1>5. stored = [k \in 1..n |-> answer[f[k]]] /\ \A k \in 1..n : f[k] \in DOMAIN answer
  BY <1>4 DEF By
<1>6. \A i \in DOMAIN answer : answer[i] \in Post
  BY <1>2
<1>7. stored \in Seq(Post) /\ \A k \in DOMAIN stored : \E j \in DOMAIN answer : stored[k] = answer[j]
  <2>1. stored \in [1..n -> Post] /\ \A k \in 1..n : stored[k] = answer[f[k]]
    BY <1>5, <1>6
  <2>2. stored \in Seq(Post) /\ DOMAIN stored = 1..n
    BY <2>1
  <2> QED
    BY <1>5, <2>1, <2>2
<1>8. /\ ms \in Seq(MatchSet)
      /\ \A i \in DOMAIN ms : \E j \in DOMAIN answer : ms[i] = Match(answer[j])
  BY <1>7, MadeType
<1>9. settings' = Current /\ template' = (Settings.meme /\ meme = "template")
  BY <1>1, NoMemeElsewhere
<1> HIDE DEF ms
<1> QED
  BY <1>1, <1>8, <1>9, BeginOK

LEMMA FailsOK ==
    ASSUME IInv, SearchFails \/ FilterFails
    PROVE  IInv'
<1>1. /\ step \in {"search", "filter"} /\ step' = "failed"
      /\ order' = order /\ meme' = meme /\ answer' = answer /\ settings' = settings
      /\ template' = template /\ matches' = matches /\ closest' = closest
      /\ skipped' = skipped /\ found' = found
  BY DEF SearchFails, FilterFails
<1>2. Settings' = Settings /\ Memed' = Memed /\ Current' = Current /\ Titled' = Titled
  BY <1>1, SameSettings
<1>3. StateOK' /\ SettingsOK'
  BY <1>1, <1>2 DEF IInv, StateOK, SettingsOK, Searched
<1>4. FoundOK' /\ MatchesOK'
  BY <1>1, <1>2 DEF IInv, FoundOK, Fresh, MatchesOK, Distinct, DistinctOn
<1>5. KeptOK' /\ OldestFirst' /\ ClosestOK'
  BY <1>1 DEF IInv, KeptOK, Searched, OldestFirst, ClosestOK
<1> QED
  BY <1>3, <1>4, <1>5 DEF IInv

-----------------------------------------------------------------------------
\* The filters.

\* What a step after the search leaves as it was.
LEMMA CarryOver ==
    ASSUME IInv, Searched,
           order' = order, meme' = meme, answer' = answer, settings' = settings,
           template' = template, found' = found, matches' \in Seq(MatchSet),
           \A k \in DOMAIN matches' :
               /\ \E i \in DOMAIN matches : matches'[k].post = matches[i].post
               /\ matches'[k].ham \in 0..matches'[k].size,
           order.kind = "image" => Distinct(matches'),
           \/ step' \in {"done", "failed"}
           \/ order.kind = "text" /\ step' = "text"
           \/ order.kind = "image" /\ step' \in {"closest", "distance", "meme", "sort"},
           step' = "meme" => template,
           step' = "closest" => \A k \in DOMAIN matches' : Fresh(matches'[k]),
           step' = "distance" => \A k \in DOMAIN matches' :
               matches'[k].ham = IF template /\ matches'[k].post = closest'
                                 THEN matches'[k].post.meme ELSE matches'[k].post.ham
    PROVE  StateOK' /\ SettingsOK' /\ FoundOK' /\ MatchesOK'
<1>1. Settings' = Settings /\ Memed' = Memed /\ Current' = Current /\ Titled' = Titled
  BY SameSettings
<1>2. StateOK'
  BY DEF IInv, StateOK
<1>3. SettingsOK'
  BY <1>1 DEF IInv, SettingsOK, Searched
<1>4. FoundOK'
  BY <1>1 DEF IInv, FoundOK, Fresh, Distinct, DistinctOn
<1>5. \A k \in DOMAIN matches' : \E j \in DOMAIN found : matches'[k].post = found[j].post
  BY DEF IInv, MatchesOK
<1>6. MatchesOK'
  BY <1>1, <1>5 DEF MatchesOK, Fresh, HamOf, Distinct, DistinctOn
<1> QED
  BY <1>2, <1>3, <1>4, <1>6

\* The tests do not change while the filters run.
LEMMA SameTests ==
    ASSUME order' = order, settings' = settings, template' = template, found' = found,
           NEW j \in DOMAIN found,
           skipped' = skipped \/ ~ (order.post /\ settings.dead),
           closest' = closest \/ step' \notin {"meme", "sort", "done"}
    PROVE  Wanted(found[j], step)' <=> Wanted(found[j], step')
<1>1. Passes(found[j])' <=> Passes(found[j])
  BY DEF Passes, SamePostFilter, AuthorFilter, CrossPostFilter, NewerFilter, SameSubFilter,
         TitleFilter, DaysFilter
<1>2. step' \in {"meme", "sort", "done"} => (Near(found[j].post)' <=> Near(found[j].post))
  BY DEF Near, HamOf, WithinPercent
<1>3. MemeNear(found[j].post)' <=> MemeNear(found[j].post)
  BY DEF MemeNear, WithinPercent
<1> QED
  BY <1>1, <1>2, <1>3 DEF Wanted

LEMMA TextFilterOK ==
    ASSUME IInv, TextFilter
    PROVE  IInv'
<1>0. PICK S \in SUBSET DOMAIN matches :
          S = {i \in DOMAIN matches : matches[i].post.distance >= settings.text}
  OBVIOUS
<1>1. /\ step = "text" /\ step' = "done" /\ matches' = Only(matches, S)
      /\ order' = order /\ meme' = meme /\ answer' = answer /\ settings' = settings
      /\ template' = template /\ closest' = closest
      /\ skipped' = skipped /\ found' = found
  BY <1>0 DEF TextFilter, Filter
<1>2. matches \in Seq(MatchSet) /\ order.kind = "text"
  BY <1>1 DEF IInv, StateOK
<1>3. Takes(matches', matches, S)
  BY <1>1, <1>2, OnlyTakes
<1>5. /\ matches' \in Seq(MatchSet)
      /\ \A k \in DOMAIN matches' : \E i \in DOMAIN matches : i \in S /\ matches'[k] = matches[i]
      /\ \A p : Reports(matches', p) <=> \E i \in S : matches[i].post = p
  BY <1>0, <1>3 DEF Takes, Reports
<1>6. StateOK' /\ SettingsOK' /\ FoundOK' /\ MatchesOK'
  <2>1. \A k \in DOMAIN matches' :
               /\ \E i \in DOMAIN matches : matches'[k].post = matches[i].post
               /\ matches'[k].ham \in 0..matches'[k].size
    BY <1>5 DEF IInv, MatchesOK
  <2> QED
    BY <1>1, <1>2, <1>5, <2>1, CarryOver DEF Searched
<1>7. KeptOK'
  <2>1. ASSUME NEW j \in DOMAIN found
        PROVE  Reports(matches', found[j].post) <=> Wanted(found[j], step)'
    <3>1. Reports(matches, found[j].post) <=> Wanted(found[j], step)
      BY <1>1 DEF IInv, KeptOK, Searched
    <3>2. Wanted(found[j], step)' <=> Wanted(found[j], step')
      BY <1>1, SameTests
    <3>3. Wanted(found[j], step') <=>
              Wanted(found[j], step) /\ found[j].post.distance >= settings.text
      BY <1>1, <1>2 DEF Wanted
    <3>4. Reports(matches', found[j].post) <=>
              Reports(matches, found[j].post) /\ found[j].post.distance >= settings.text
      BY <1>0, <1>5 DEF Reports
    <3> QED
      BY <3>1, <3>2, <3>3, <3>4
  <2> QED
    BY <1>1, <2>1 DEF KeptOK
<1>8. ClosestOK' /\ OldestFirst'
  BY <1>1, <1>2 DEF IInv, ClosestOK, OldestFirst
<1> QED
  BY <1>6, <1>7, <1>8 DEF IInv

LEMMA TakesSelf ==
    ASSUME NEW old \in Seq(MatchSet)
    PROVE  Takes(old, old, DOMAIN old)
  BY DEF Takes, Distinct

\* A match that nothing has been written to is known by its post.
LEMMA FreshSame ==
    ASSUME NEW a \in MatchSet, NEW b \in MatchSet, Fresh(a), Fresh(b), a.post = b.post
    PROVE  a = b
  BY DEF MatchSet, Fresh

LEMMA FilterSearchResultsOK ==
    ASSUME IInv, FilterSearchResults
    PROVE  IInv'
<1> DEFINE dead == order.post /\ settings.dead
<1>1. /\ step = "filter"
      /\ step' = IF order.kind = "image"
                 THEN IF matches = <<>> THEN "done" ELSE "closest"
                 ELSE IF order.kind = "text" THEN "text" ELSE "done"
      /\ order' = order /\ meme' = meme /\ answer' = answer /\ settings' = settings
      /\ template' = template /\ closest' = closest /\ found' = found
  BY DEF FilterSearchResults
<1>2. /\ matches \in Seq(MatchSet) /\ order \in Orders /\ matches = found
      /\ order.kind \in {"image", "link", "text"} /\ closest = NoMatch
  BY <1>1, FiltersAssumption DEF IInv, StateOK, MatchesOK, ClosestOK
<1>3. PICK passed : passed = IF order.post THEN Filter(matches, Passes) ELSE matches
  OBVIOUS
<1>4. PICK S \in SUBSET DOMAIN matches :
          S = {i \in DOMAIN matches : order.post => Passes(matches[i])}
  OBVIOUS
<1>5. Takes(passed, matches, S)
  <2>1. CASE order.post
    <3>1. S = {i \in DOMAIN matches : Passes(matches[i])}
      BY <1>4, <2>1
    <3>2. passed = Only(matches, S)
      BY <1>3, <2>1, <3>1 DEF Filter
    <3> QED
      BY <1>2, <3>2, OnlyTakes
  <2>2. CASE ~ order.post
    <3>1. S = DOMAIN matches
      BY <1>4, <2>2
    <3> QED
      BY <1>2, <1>3, <2>2, <3>1, TakesSelf
  <2> QED
    BY <2>1, <2>2
<1>6. passed \in Seq(MatchSet)
  BY <1>5 DEF Takes
<1>7. PICK T \in SUBSET DOMAIN passed :
          /\ Takes(matches', passed, T)
          /\ \A i \in T : dead => passed[i].post.state = "up" \/ passed[i].post.id \in skipped'
          /\ \A i \in DOMAIN passed : dead /\ passed[i].post.state = "up" => i \in T
          /\ dead => \A x \in skipped' : \E i \in T : passed[i].post.id = x
          /\ ~ dead => T = DOMAIN passed /\ skipped' = skipped
  <2>1. CASE dead
    <3>1. PICK down :
              /\ matches' \in Reported(passed, down)
              /\ skipped' = {passed[i].post.id : i \in {j \in DOMAIN passed : Chunk(j) \in down}}
      BY <1>3, <2>1 DEF FilterSearchResults
    <3>2. Takes(matches', passed, Listed(passed, down))
      BY <1>6, <3>1, ReportedTakes
    <3>3. Listed(passed, down) \in SUBSET DOMAIN passed
      BY DEF Listed
    <3>4. \A i \in Listed(passed, down) :
              passed[i].post.state = "up" \/ passed[i].post.id \in skipped'
      BY <3>1 DEF Listed
    <3>5. \A i \in DOMAIN passed : passed[i].post.state = "up" => i \in Listed(passed, down)
      BY DEF Listed
    <3>6. \A x \in skipped' : \E i \in Listed(passed, down) : passed[i].post.id = x
      BY <3>1 DEF Listed
    <3> QED
      BY <2>1, <3>2, <3>3, <3>4, <3>5, <3>6
  <2>2. CASE ~ dead
    <3>1. matches' = passed /\ skipped' = skipped
      BY <1>3, <2>2 DEF FilterSearchResults
    <3>2. Takes(matches', passed, DOMAIN passed)
      BY <1>6, <3>1, TakesSelf
    <3> QED
      BY <2>2, <3>1, <3>2
  <2> QED
    BY <2>1, <2>2
<1>8. /\ matches' \in Seq(MatchSet)
      /\ \A k \in DOMAIN matches' : \E i \in DOMAIN matches : matches'[k] = matches[i]
      /\ order.kind = "image" => Distinct(matches')
  <2>1. Distinct(matches) => Distinct(passed)
    BY <1>5 DEF Takes, Distinct, DistinctOn
  <2>2. Distinct(passed) => Distinct(matches')
    BY <1>7 DEF Takes, Distinct, DistinctOn
  <2>3. \A k \in DOMAIN matches' : \E i \in DOMAIN passed : matches'[k] = passed[i]
    BY <1>7 DEF Takes
  <2>4. \A k \in DOMAIN passed : \E i \in DOMAIN matches : passed[k] = matches[i]
    BY <1>4, <1>5 DEF Takes
  <2>5. matches' \in Seq(MatchSet)
    BY <1>7 DEF Takes
  <2> QED
    BY <2>1, <2>2, <2>3, <2>4, <2>5 DEF IInv, MatchesOK
<1>9. StateOK' /\ SettingsOK' /\ FoundOK' /\ MatchesOK'
  <2>1. \A k \in DOMAIN matches' :
               /\ \E i \in DOMAIN matches : matches'[k].post = matches[i].post
               /\ matches'[k].ham \in 0..matches'[k].size
    BY <1>8 DEF IInv, MatchesOK
  <2>2. \A k \in DOMAIN matches' : Fresh(matches'[k])
    BY <1>2, <1>8 DEF IInv, FoundOK
  <2>3. /\ \/ step' \in {"done", "failed"}
           \/ order.kind = "text" /\ step' = "text"
           \/ order.kind = "image" /\ step' \in {"closest", "distance", "meme", "sort"}
        /\ step' \notin {"meme", "distance"}
    BY <1>1, <1>2
  <2> QED
    BY <1>1, <1>8, <2>1, <2>2, <2>3, CarryOver DEF Searched
<1>10. ASSUME NEW j \in DOMAIN found
       PROVE  Reports(matches', found[j].post) <=> Wanted(found[j], step)'
  <2> DEFINE p == found[j].post
             same == /\ order.post => Passes(found[j])
                     /\ dead /\ p.state # "up" => p.id \in skipped'
  <2>1. Wanted(found[j], step)' <=> same
    <3>1. Passes(found[j])' <=> Passes(found[j])
      BY <1>1 DEF Passes, SamePostFilter, AuthorFilter, CrossPostFilter, NewerFilter,
                  SameSubFilter, TitleFilter, DaysFilter
    <3>2. found = <<>> => FALSE
      OBVIOUS
    <3>3. step' # "done" \/ order.kind = "link"
      BY <1>1, <1>2, <3>2
    <3>4. step' \notin {"meme", "sort"}
      BY <1>1
    <3> QED
      BY <1>1, <3>1, <3>3, <3>4 DEF Wanted
  <2>2. ASSUME Reports(matches', p) PROVE same
    <3>1. PICK k \in DOMAIN matches' : matches'[k].post = p
      BY <2>2 DEF Reports
    <3>2. PICK i \in T : matches'[k] = passed[i]
      BY <1>7 DEF Takes
    <3>3. PICK l \in S : passed[i] = matches[l]
      BY <1>5 DEF Takes
    <3>4. found[l] = found[j]
      <4>1. found[l] \in MatchSet /\ found[j] \in MatchSet
        BY <1>2
      <4>2. Fresh(found[l]) /\ Fresh(found[j])
        BY <1>2 DEF IInv, FoundOK
      <4> QED
        BY <1>2, <3>1, <3>2, <3>3, <4>1, <4>2, FreshSame
    <3>5. order.post => Passes(found[j])
      BY <1>2, <1>4, <3>4
    <3>6. dead => p.state = "up" \/ p.id \in skipped'
      BY <1>2, <1>7, <3>2, <3>3, <3>4
    <3> QED
      BY <3>5, <3>6
  <2>3. ASSUME same PROVE Reports(matches', p)
    <3>1. j \in S
      BY <1>2, <1>4, <2>3
    <3>2. PICK k \in DOMAIN passed : passed[k] = found[j]
      BY <1>2, <1>5, <3>1 DEF Takes
    <3>3. PICK i \in T : passed[i].post = p
      <4>1. CASE ~ dead \/ p.state = "up"
        BY <1>7, <3>2, <4>1
      <4>2. CASE dead /\ p.state # "up"
        <5>1. PICK i \in T : passed[i].post.id = p.id
          BY <1>7, <2>3, <4>2
        <5>2. PICK l \in DOMAIN found : passed[i] = found[l]
          BY <1>2, <1>4, <1>5 DEF Takes
        <5>3. found[l].post = found[j].post
          BY <5>1, <5>2 DEF IInv, FoundOK
        <5> QED
          BY <5>2, <5>3
      <4> QED
        BY <4>1, <4>2
    <3>4. PICK n \in DOMAIN matches' : matches'[n] = passed[i]
      BY <1>7 DEF Takes
    <3> QED
      BY <3>3, <3>4 DEF Reports
  <2> QED
    BY <2>1, <2>2, <2>3
<1>11. KeptOK'
  BY <1>1, <1>10 DEF KeptOK
<1>12. order.kind = "image" /\ step' = "done" => matches' = <<>>
  <2>1. SUFFICES ASSUME order.kind = "image", step' = "done" PROVE matches' = <<>>
    OBVIOUS
  <2>2. matches = <<>>
    BY <1>1, <2>1
  <2>3. DOMAIN matches' = {}
    BY <1>8, <2>2
  <2> QED
    BY <1>8, <2>3
<1>13. ClosestOK' /\ OldestFirst'
  BY <1>1, <1>2, <1>12 DEF ClosestOK, OldestFirst
<1> QED
  BY <1>9, <1>11, <1>13 DEF IInv

LEMMA PostType ==
    ASSUME NEW m \in MatchSet
    PROVE  /\ m.post \in Post /\ m.post # NoMatch /\ m.ham \in Nat /\ m.size \in Nat
           /\ m.post.ham \in Nat /\ m.post.meme \in 0..MemeHashSize
           /\ HashSize \in Nat /\ MemeHashSize \in Nat
<1>1. m.post \in Post /\ m.ham \in Nat /\ m.size \in Nat
  BY DEF MatchSet
<1>2. m.post # NoMatch /\ m.post.ham \in 0..HashSize /\ m.post.meme \in 0..MemeHashSize
  BY <1>1, MatchType
<1> QED
  BY <1>1, <1>2, FiltersAssumption

\* The closest match is named: it gets its distance in meme hashes.
LEMMA NameClosest ==
    ASSUME IInv, step = "closest", step' = "distance", NEW c \in DOMAIN matches,
           \A j \in Live(matches, template \/ settings.dead) : matches[j].ham >= matches[c].ham,
           matches' = IF template
                      THEN [matches EXCEPT ![c].ham = matches[c].post.meme,
                                           ![c].size = MemeHashSize]
                      ELSE matches,
           closest' = matches'[c].post,
           order' = order, meme' = meme, answer' = answer, settings' = settings,
           template' = template, found' = found, skipped' = skipped
    PROVE  IInv'
<1>1. /\ matches \in Seq(MatchSet) /\ order.kind = "image" /\ Distinct(matches)
      /\ \A k \in DOMAIN matches : Fresh(matches[k])
      /\ \A k \in DOMAIN matches : \E j \in DOMAIN found : matches[k].post = found[j].post
  BY DEF IInv, StateOK, MatchesOK
<1>2. PICK p \in Post : p = matches[c].post
  BY <1>1, PostType
<1>3. /\ p # NoMatch /\ p.meme \in 0..MemeHashSize /\ MemeHashSize \in Nat /\ HashSize \in Nat
      /\ p.ham \in 0..HashSize
  BY MatchType, FiltersAssumption
<1>4. /\ matches' \in Seq(MatchSet) /\ DOMAIN matches' = DOMAIN matches
      /\ \A k \in DOMAIN matches : k # c => matches'[k] = matches[k]
      /\ matches'[c].post = p
      /\ matches'[c].ham = IF template THEN p.meme ELSE p.ham
      /\ matches'[c].size = IF template THEN MemeHashSize ELSE HashSize
  <2>1. CASE ~ template
    BY <1>1, <1>2, <2>1 DEF Fresh
  <2>2. CASE template
    <3> DEFINE m == [matches[c] EXCEPT !.ham = p.meme, !.size = MemeHashSize]
    <3>1. matches[c] \in MatchSet
      BY <1>1
    <3>2. m \in MatchSet /\ m.post = p /\ m.ham = p.meme /\ m.size = MemeHashSize
      <4>1. PICK old \in MatchSet : old = matches[c] /\ old.post = p
        BY <1>2, <3>1
      <4>2. PICK n \in Nat : n = p.meme
        BY <1>3
      <4>3. m = [old EXCEPT !.ham = n, !.size = MemeHashSize]
        BY <4>1, <4>2
      <4> QED
        BY <1>3, <4>1, <4>2, <4>3 DEF MatchSet
    <3>3. matches' = [matches EXCEPT ![c] = m]
      BY <1>1, <1>2, <2>2
    <3> HIDE DEF m
    <3>4. matches' \in Seq(MatchSet) /\ DOMAIN matches' = DOMAIN matches
      BY <1>1, <3>2, <3>3
    <3>5. matches'[c] = m /\ \A k \in DOMAIN matches : k # c => matches'[k] = matches[k]
      BY <1>1, <3>3
    <3> QED
      BY <2>2, <3>2, <3>4, <3>5
  <2> QED
    BY <2>1, <2>2
<1>5. \A k \in DOMAIN matches : matches'[k].post = matches[k].post
  BY <1>2, <1>4
<1>6. Distinct(matches')
  BY <1>1, <1>4, <1>5 DEF Distinct, DistinctOn
<1>7. \A k \in DOMAIN matches : k # c => matches[k].post # p
  BY <1>1, <1>2 DEF Distinct, DistinctOn
<1>8. StateOK' /\ SettingsOK' /\ FoundOK' /\ MatchesOK'
  <2>1. \A k \in DOMAIN matches' :
               /\ \E i \in DOMAIN matches : matches'[k].post = matches[i].post
               /\ matches'[k].ham \in 0..matches'[k].size
    <3>1. \A k \in DOMAIN matches : matches[k].ham \in 0..matches[k].size
      BY DEF IInv, MatchesOK
    <3>2. matches'[c].ham \in 0..matches'[c].size
      BY <1>3, <1>4
    <3> QED
      BY <1>4, <1>5, <3>1, <3>2
  <2>2. \A k \in DOMAIN matches' :
               matches'[k].ham = IF template /\ matches'[k].post = closest'
                                 THEN matches'[k].post.meme ELSE matches'[k].post.ham
    <3>1. closest' = p
      BY <1>4
    <3>2. ASSUME NEW k \in DOMAIN matches, k # c
          PROVE  matches'[k].ham = matches'[k].post.ham /\ matches'[k].post # closest'
      BY <1>1, <1>4, <1>5, <1>7, <3>1, <3>2 DEF Fresh
    <3> QED
      BY <1>4, <3>1, <3>2
  <2> QED
    BY <1>1, <1>4, <1>6, <2>1, <2>2, CarryOver DEF Searched
<1>9. KeptOK'
  <2>1. ASSUME NEW j \in DOMAIN found
        PROVE  Reports(matches', found[j].post) <=> Wanted(found[j], step)'
    <3>1. Reports(matches, found[j].post) <=> Wanted(found[j], step)
      BY DEF IInv, KeptOK, Searched
    <3>2. Wanted(found[j], step)' <=> Wanted(found[j], step')
      BY SameTests
    <3>3. Wanted(found[j], step') <=> Wanted(found[j], step)
      BY <1>1 DEF Wanted
    <3>4. Reports(matches', found[j].post) <=> Reports(matches, found[j].post)
      BY <1>4, <1>5 DEF Reports
    <3> QED
      BY <3>1, <3>2, <3>3, <3>4
  <2> QED
    BY <2>1 DEF KeptOK
<1>10. ClosestOK'
  <2>1. closest' = p /\ closest' # NoMatch
    BY <1>3, <1>4
  <2>2. ASSUME NEW k \in DOMAIN matches'
        PROVE  \/ (template \/ settings.dead) /\ ~ matches'[k].post.live
               \/ closest'.ham <= matches'[k].post.ham
    <3>1. CASE k \in Live(matches, template \/ settings.dead)
      <4>1. matches[k].ham >= matches[c].ham /\ k \in DOMAIN matches
        BY <1>4, <3>1
      <4>2. matches[k].ham = matches[k].post.ham /\ matches[c].ham = p.ham
        BY <1>1, <1>2, <4>1 DEF Fresh
      <4> QED
        BY <1>1, <1>3, <1>5, <2>1, <4>1, <4>2, PostType
    <3>2. CASE k \notin Live(matches, template \/ settings.dead)
      BY <1>4, <1>5, <3>2 DEF Live
    <3> QED
      BY <3>1, <3>2
  <2>3. \E j \in DOMAIN found : closest' = found[j].post
    BY <1>1, <1>2, <2>1
  <2> QED
    BY <2>1, <2>2, <2>3 DEF ClosestOK, Best
<1> QED
  BY <1>8, <1>9, <1>10 DEF IInv, OldestFirst

LEMMA SetClosestOK ==
    ASSUME IInv, SetClosest
    PROVE  IInv'
<1>1. PICK c : c = Closest(matches, template \/ settings.dead)
  OBVIOUS
<1>2. /\ step = "closest"
      /\ order' = order /\ meme' = meme /\ answer' = answer /\ settings' = settings
      /\ template' = template /\ found' = found /\ skipped' = skipped
      /\ IF c = 0 \/ 100 * (HashSize - matches[c].ham) <= 40 * HashSize
         THEN step' = "distance" /\ UNCHANGED <<matches, closest>>
         ELSE IF template /\ ~ matches[c].post.hashable
         THEN step' = "failed" /\ UNCHANGED <<matches, closest>>
         ELSE /\ matches' = IF template
                            THEN [matches EXCEPT ![c].ham = matches[c].post.meme,
                                                 ![c].size = MemeHashSize]
                            ELSE matches
              /\ closest' = matches'[c].post
              /\ step' = "distance"
  BY <1>1 DEF SetClosest
<1>3. /\ matches \in Seq(MatchSet) /\ order.kind = "image" /\ Distinct(matches)
      /\ closest = NoMatch /\ \A k \in DOMAIN matches : Fresh(matches[k])
  BY <1>2 DEF IInv, StateOK, MatchesOK, ClosestOK
<1> DEFINE live == Live(matches, template \/ settings.dead)
<1>4. \/ c = 0 /\ live = {}
      \/ c \in live /\ \A j \in live : matches[j].ham >= matches[c].ham
  BY <1>1, <1>3, ClosestFacts
<1>5. CASE matches' = matches /\ closest' = closest
  <2>1. step' = "failed" \/ (step' = "distance"
           /\ (c = 0 \/ 100 * (HashSize - matches[c].ham) <= 40 * HashSize))
        \/ (step' = "distance" /\ closest' = matches'[c].post /\ c # 0)
    BY <1>2
  <2>2. step' \in {"failed", "distance"}
    BY <2>1
  <2>3. ~ (closest' = matches'[c].post /\ c # 0)
    <3>1. c \in live => matches[c].post # NoMatch
      BY <1>3, PostType DEF Live
    <3> QED
      BY <1>3, <1>4, <1>5, <3>1
  <2>4. StateOK' /\ SettingsOK' /\ FoundOK' /\ MatchesOK'
    <3>1. \A k \in DOMAIN matches' :
                /\ \E i \in DOMAIN matches : matches'[k].post = matches[i].post
                /\ matches'[k].ham \in 0..matches'[k].size
      BY <1>5 DEF IInv, MatchesOK
    <3>2. \A k \in DOMAIN matches' :
                matches'[k].ham = matches'[k].post.ham /\ matches'[k].post # closest'
      BY <1>3, <1>5, PostType DEF Fresh
    <3> QED
      BY <1>2, <1>3, <1>5, <2>2, <3>1, <3>2, CarryOver DEF Searched
  <2>5. KeptOK'
    <3>1. SUFFICES ASSUME step' = "distance" PROVE KeptOK'
      BY <2>2 DEF KeptOK, Searched
    <3>2. ASSUME NEW j \in DOMAIN found
          PROVE  Reports(matches', found[j].post) <=> Wanted(found[j], step)'
      <4>1. Reports(matches, found[j].post) <=> Wanted(found[j], step)
        BY <1>2 DEF IInv, KeptOK, Searched
      <4>2. Wanted(found[j], step)' <=> Wanted(found[j], step')
        BY <1>2, <1>5, SameTests
      <4>3. Wanted(found[j], step') <=> Wanted(found[j], step)
        BY <1>2, <1>3, <3>1 DEF Wanted
      <4> QED
        BY <1>5, <4>1, <4>2, <4>3
    <3> QED
      BY <1>2, <3>2 DEF KeptOK
  <2>6. ClosestOK'
    <3>1. ASSUME step' = "distance", NEW k \in DOMAIN matches
          PROVE  \/ (template \/ settings.dead) /\ ~ matches[k].post.live
                 \/ 100 * (HashSize - matches[k].post.ham) <= 40 * HashSize
      <4>1. CASE k \in live
        <5>1. c \in DOMAIN matches /\ c # 0 /\ matches[k].ham >= matches[c].ham
          BY <1>3, <1>4, <4>1 DEF Live
        <5>2. 100 * (HashSize - matches[c].ham) <= 40 * HashSize
          BY <2>1, <2>3, <3>1, <5>1
        <5>3. /\ matches[c].ham \in Nat /\ matches[k].ham \in Nat /\ HashSize \in Nat
              /\ matches[k].post.ham = matches[k].ham
          BY <1>3, <5>1, PostType DEF Fresh
        <5> QED
          BY <5>1, <5>2, <5>3
      <4>2. CASE k \notin live
        BY <4>2 DEF Live
      <4> QED
        BY <4>1, <4>2
    <3> QED
      BY <1>2, <1>3, <1>5, <2>2, <3>1 DEF ClosestOK, Best
  <2> QED
    BY <2>2, <2>4, <2>5, <2>6 DEF IInv, OldestFirst
<1>6. CASE ~ (matches' = matches /\ closest' = closest)
  <2>1. c # 0 /\ step' = "distance" /\ closest' = matches'[c].post
        /\ matches' = IF template
                      THEN [matches EXCEPT ![c].ham = matches[c].post.meme,
                                           ![c].size = MemeHashSize]
                      ELSE matches
    BY <1>2, <1>6
  <2>2. c \in DOMAIN matches /\ \A j \in live : matches[j].ham >= matches[c].ham
    BY <1>4, <2>1 DEF Live
  <2> QED
    BY <1>2, <2>1, <2>2, NameClosest
<1> QED
  BY <1>5, <1>6

LEMMA DistanceFilterOK ==
    ASSUME IInv, DistanceFilter
    PROVE  IInv'
<1>0. PICK S \in SUBSET DOMAIN matches :
          S = {i \in DOMAIN matches :
                 /\ matches[i].post.annoy <= settings.annoy
                 /\ WithinPercent(matches[i].ham, settings.percent, HashSize)}
  OBVIOUS
<1>1. /\ step = "distance" /\ step' = (IF template THEN "meme" ELSE "sort")
      /\ matches' = Only(matches, S)
      /\ order' = order /\ meme' = meme /\ answer' = answer /\ settings' = settings
      /\ template' = template /\ closest' = closest
      /\ skipped' = skipped /\ found' = found
  BY <1>0 DEF DistanceFilter, Filter
<1>2. matches \in Seq(MatchSet) /\ order.kind = "image" /\ Distinct(matches)
  BY <1>1 DEF IInv, StateOK, MatchesOK
<1>3. Takes(matches', matches, S)
  BY <1>1, <1>2, OnlyTakes
<1>4. \A i \in DOMAIN matches : i \in S <=> Near(matches[i].post)
  <2>1. \A i \in DOMAIN matches : matches[i].ham = HamOf(matches[i].post)
    BY <1>1 DEF IInv, MatchesOK
  <2> QED
    BY <1>0, <2>1 DEF Near
<1>5. /\ matches' \in Seq(MatchSet) /\ Distinct(matches')
      /\ \A k \in DOMAIN matches' : \E i \in DOMAIN matches : i \in S /\ matches'[k] = matches[i]
      /\ \A p : Reports(matches', p) <=> \E i \in S : matches[i].post = p
  <2>1. Lets(matches', matches, S)
    BY <1>0, <1>2, <1>3, TakesReports
  <2> QED
    BY <2>1 DEF Lets
<1>6. StateOK' /\ SettingsOK' /\ FoundOK' /\ MatchesOK'
  <2>1. \A k \in DOMAIN matches' :
               /\ \E i \in DOMAIN matches : matches'[k].post = matches[i].post
               /\ matches'[k].ham \in 0..matches'[k].size
    BY <1>5 DEF IInv, MatchesOK
  <2> QED
    BY <1>1, <1>2, <1>5, <2>1, CarryOver DEF Searched
<1>7. KeptOK'
  <2>1. ASSUME NEW j \in DOMAIN found
        PROVE  Reports(matches', found[j].post) <=> Wanted(found[j], step)'
    <3>1. Reports(matches, found[j].post) <=> Wanted(found[j], step)
      BY <1>1 DEF IInv, KeptOK, Searched
    <3>2. Wanted(found[j], step)' <=> Wanted(found[j], step')
      BY <1>1, SameTests
    <3>3. Wanted(found[j], step') <=> Wanted(found[j], step) /\ Near(found[j].post)
      BY <1>1, <1>2 DEF Wanted
    <3>4. Reports(matches', found[j].post) <=>
              Reports(matches, found[j].post) /\ Near(found[j].post)
      BY <1>4, <1>5 DEF Reports
    <3> QED
      BY <3>1, <3>2, <3>3, <3>4
  <2> QED
    BY <1>1, <2>1 DEF KeptOK
<1>8. ClosestOK' /\ OldestFirst'
  BY <1>1, <1>2, <1>5 DEF IInv, ClosestOK, Best, OldestFirst
<1> QED
  BY <1>6, <1>7, <1>8 DEF IInv

LEMMA MemeFilterOK ==
    ASSUME IInv, MemeFilter
    PROVE  IInv'
<1>0. PICK S \in SUBSET DOMAIN matches :
          S = {i \in DOMAIN matches : MemeNear(matches[i].post)}
  OBVIOUS
<1>1. PICK near :
      /\ step = "meme" /\ step' = "sort" /\ near = Only(matches, S)
      /\ matches' = [k \in DOMAIN near |->
                        [near[k] EXCEPT !.ham = near[k].post.meme, !.size = MemeHashSize]]
      /\ order' = order /\ meme' = meme /\ answer' = answer /\ settings' = settings
      /\ template' = template /\ closest' = closest
      /\ skipped' = skipped /\ found' = found
  BY <1>0 DEF MemeFilter, Filter, MemeNear
<1>2. /\ matches \in Seq(MatchSet) /\ order.kind = "image" /\ Distinct(matches) /\ template
  BY <1>1 DEF IInv, StateOK, MatchesOK, SettingsOK
<1>3. Takes(near, matches, S)
  BY <1>1, <1>2, OnlyTakes
<1>4. /\ near \in Seq(MatchSet) /\ Distinct(near)
      /\ \A k \in DOMAIN near : \E i \in DOMAIN matches : i \in S /\ near[k] = matches[i]
      /\ \A p : Reports(near, p) <=> \E i \in S : matches[i].post = p
  <2>1. Lets(near, matches, S)
    BY <1>0, <1>2, <1>3, TakesReports
  <2> QED
    BY <2>1 DEF Lets
<1>5. ASSUME NEW k \in DOMAIN near
      PROVE  /\ matches'[k] \in MatchSet /\ matches'[k].post = near[k].post
             /\ matches'[k].ham \in 0..matches'[k].size
  <2>1. PICK old \in MatchSet : old = near[k]
    BY <1>4
  <2>2. old.post.meme \in 0..MemeHashSize /\ MemeHashSize \in Nat
    BY PostType
  <2>3. PICK n \in Nat : n = old.post.meme /\ n \in 0..MemeHashSize
    BY <2>2
  <2>4. matches'[k] = [old EXCEPT !.ham = n, !.size = MemeHashSize]
    BY <1>1, <2>1, <2>3
  <2> QED
    BY <2>1, <2>2, <2>3, <2>4 DEF MatchSet
<1>6. matches' \in Seq(MatchSet) /\ DOMAIN matches' = DOMAIN near
  <2>1. Len(near) \in Nat /\ DOMAIN near = 1..Len(near)
    BY <1>4
  <2>2. matches' \in [1..Len(near) -> MatchSet]
    BY <1>1, <1>5, <2>1
  <2> QED
    BY <2>1, <2>2
<1>7. /\ Distinct(matches')
      /\ \A k \in DOMAIN matches' : \E i \in DOMAIN matches : i \in S /\ matches'[k].post = matches[i].post
      /\ \A p : Reports(matches', p) <=> Reports(near, p)
  BY <1>4, <1>5, <1>6 DEF Distinct, DistinctOn, Reports
<1>8. StateOK' /\ SettingsOK' /\ FoundOK' /\ MatchesOK'
  <2>1. \A k \in DOMAIN matches' :
               /\ \E i \in DOMAIN matches : matches'[k].post = matches[i].post
               /\ matches'[k].ham \in 0..matches'[k].size
    BY <1>5, <1>6, <1>7
  <2> QED
    BY <1>1, <1>2, <1>6, <1>7, <2>1, CarryOver DEF Searched
<1>9. KeptOK'
  <2>1. ASSUME NEW j \in DOMAIN found
        PROVE  Reports(matches', found[j].post) <=> Wanted(found[j], step)'
    <3>1. Reports(matches, found[j].post) <=> Wanted(found[j], step)
      BY <1>1 DEF IInv, KeptOK, Searched
    <3>2. Wanted(found[j], step)' <=> Wanted(found[j], step')
      BY <1>1, SameTests
    <3>3. Wanted(found[j], step') <=> Wanted(found[j], step) /\ MemeNear(found[j].post)
      BY <1>1, <1>2 DEF Wanted
    <3>4. Reports(matches', found[j].post) <=>
              Reports(matches, found[j].post) /\ MemeNear(found[j].post)
      <4>1. Reports(matches', found[j].post) <=> \E i \in S : matches[i].post = found[j].post
        BY <1>4, <1>7
      <4> QED
        BY <1>0, <4>1 DEF Reports
    <3> QED
      BY <3>1, <3>2, <3>3, <3>4
  <2> QED
    BY <1>1, <2>1 DEF KeptOK
<1>10. ClosestOK' /\ OldestFirst'
  <2>1. \A i \in DOMAIN matches : Best(matches[i])
    BY <1>1, <1>2 DEF IInv, ClosestOK
  <2>2. (\A k \in DOMAIN matches : Best(matches[k]))'
    <3>1. SUFFICES ASSUME NEW k \in DOMAIN matches' PROVE Best(matches[k])'
      OBVIOUS
    <3>2. PICK i \in DOMAIN matches : matches'[k].post = matches[i].post
      BY <1>7
    <3> QED
      BY <1>1, <2>1, <3>2 DEF Best
  <2>3. closest = NoMatch \/ \E j \in DOMAIN found : closest = found[j].post
    BY DEF IInv, ClosestOK
  <2> QED
    BY <1>1, <2>2, <2>3 DEF ClosestOK, OldestFirst
<1> QED
  BY <1>8, <1>9, <1>10 DEF IInv

LEMMA SortOK ==
    ASSUME IInv, Sort
    PROVE  IInv'
<1>1. /\ step = "sort" /\ step' = "done" /\ matches' = SortReposts(matches)
      /\ order' = order /\ meme' = meme /\ answer' = answer /\ settings' = settings
      /\ template' = template /\ closest' = closest
      /\ skipped' = skipped /\ found' = found
  BY DEF Sort
<1>2. matches \in Seq(MatchSet) /\ order.kind = "image" /\ Distinct(matches)
  BY <1>1 DEF IInv, StateOK, MatchesOK
<1>3. /\ Takes(matches', matches, DOMAIN matches)
      /\ \A k, l \in DOMAIN matches' : k < l => matches'[k].post.age >= matches'[l].post.age
  BY <1>1, <1>2, SortTakes
<1>4. /\ matches' \in Seq(MatchSet) /\ Distinct(matches')
      /\ \A k \in DOMAIN matches' : \E i \in DOMAIN matches : matches'[k] = matches[i]
      /\ \A p : Reports(matches', p) <=> Reports(matches, p)
  BY <1>2, <1>3 DEF Takes, Reports, Distinct
<1>5. StateOK' /\ SettingsOK' /\ FoundOK' /\ MatchesOK'
  <2>1. \A k \in DOMAIN matches' :
               /\ \E i \in DOMAIN matches : matches'[k].post = matches[i].post
               /\ matches'[k].ham \in 0..matches'[k].size
    BY <1>4 DEF IInv, MatchesOK
  <2> QED
    BY <1>1, <1>2, <1>4, <2>1, CarryOver DEF Searched
<1>6. KeptOK'
  <2>1. ASSUME NEW j \in DOMAIN found
        PROVE  Reports(matches', found[j].post) <=> Wanted(found[j], step)'
    <3>1. Reports(matches, found[j].post) <=> Wanted(found[j], step)
      BY <1>1 DEF IInv, KeptOK, Searched
    <3>2. Wanted(found[j], step)' <=> Wanted(found[j], step')
      BY <1>1, SameTests
    <3>3. Wanted(found[j], step') <=> Wanted(found[j], step)
      BY <1>1, <1>2 DEF Wanted
    <3> QED
      BY <1>4, <3>1, <3>2, <3>3
  <2> QED
    BY <1>1, <2>1 DEF KeptOK
<1>7. OldestFirst'
  <2>1. \A k, l \in DOMAIN matches' : k < l => k # l
    BY <1>4
  <2> QED
    BY <1>1, <1>3, <1>4, <2>1 DEF OldestFirst, Distinct, DistinctOn
<1>8. ClosestOK'
  BY <1>1, <1>2, <1>4 DEF IInv, ClosestOK, Best
<1> QED
  BY <1>5, <1>6, <1>7, <1>8 DEF IInv

-----------------------------------------------------------------------------
\* The invariant.

LEMMA InitOK ==
    ASSUME Init
    PROVE  IInv
<1>1. /\ order \in Orders /\ answer \in Answers /\ step = "search" /\ settings = Settings
      /\ template = FALSE /\ matches = <<>> /\ found = <<>> /\ closest = NoMatch
      /\ meme \in {"no", "template", "nohash"} /\ (order.kind # "image" => meme = "no")
  BY DEF Init
<1>2. StateOK
  BY <1>1 DEF StateOK
<1>3. SettingsOK
  BY <1>1 DEF SettingsOK, Searched
<1>4. FoundOK /\ MatchesOK
  BY <1>1 DEF FoundOK, MatchesOK, Distinct, DistinctOn
<1>5. KeptOK /\ ClosestOK /\ OldestFirst
  BY <1>1 DEF KeptOK, Searched, ClosestOK, OldestFirst
<1> QED
  BY <1>2, <1>3, <1>4, <1>5 DEF IInv

LEMMA IdleOK ==
    ASSUME IInv, UNCHANGED vars
    PROVE  IInv'
<1>1. /\ order' = order /\ meme' = meme /\ answer' = answer /\ step' = step
      /\ settings' = settings /\ template' = template /\ matches' = matches
      /\ closest' = closest /\ skipped' = skipped /\ found' = found
  BY DEF vars
<1>2. Settings' = Settings /\ Memed' = Memed /\ Current' = Current /\ Titled' = Titled
  BY <1>1, SameSettings
<1>3. StateOK' /\ SettingsOK'
  BY <1>1, <1>2 DEF IInv, StateOK, SettingsOK, Searched
<1>4. FoundOK' /\ MatchesOK'
  BY <1>1, <1>2 DEF IInv, FoundOK, Fresh, MatchesOK, Distinct, DistinctOn, HamOf
<1>5. KeptOK'
  <2>1. \A j \in DOMAIN found : Wanted(found[j], step)' <=> Wanted(found[j], step')
    BY <1>1, SameTests
  <2> QED
    BY <1>1, <2>1 DEF IInv, KeptOK, Searched, Reports
<1>6. ClosestOK' /\ OldestFirst'
  BY <1>1 DEF IInv, ClosestOK, Best, OldestFirst
<1> QED
  BY <1>3, <1>4, <1>5, <1>6 DEF IInv

\* The invariant of a search: every post that was found is among the matches
\* exactly if it passes the tests that have run, with the distance the next test
\* is to read.
THEOREM FiltersInvariant == Spec => []IInv
<1>1. Init => IInv
  BY InitOK
<1>2. IInv /\ [Next]_vars => IInv'
  <2> SUFFICES ASSUME IInv, [Next]_vars PROVE IInv'
    OBVIOUS
  <2>1. CASE CheckImage          BY <2>1, CheckImageOK
  <2>2. CASE LinkSearch          BY <2>2, LinkSearchOK
  <2>3. CASE TextSearch          BY <2>3, TextSearchOK
  <2>4. CASE SearchFails         BY <2>4, FailsOK
  <2>5. CASE FilterSearchResults BY <2>5, FilterSearchResultsOK
  <2>6. CASE TextFilter          BY <2>6, TextFilterOK
  <2>7. CASE SetClosest          BY <2>7, SetClosestOK
  <2>8. CASE DistanceFilter      BY <2>8, DistanceFilterOK
  <2>9. CASE MemeFilter          BY <2>9, MemeFilterOK
  <2>10. CASE Sort               BY <2>10, SortOK
  <2>11. CASE FilterFails        BY <2>11, FailsOK
  <2>12. CASE UNCHANGED vars     BY <2>12, IdleOK
  <2> QED
    BY <2>1, <2>2, <2>3, <2>4, <2>5, <2>6, <2>7, <2>8, <2>9, <2>10, <2>11,
       <2>12 DEF Next
<1> QED
  BY <1>1, <1>2, PTL DEF Spec

-----------------------------------------------------------------------------
\* What follows from it.

\* A post is reported under its id.
LEMMA ReportedById ==
    ASSUME IInv, NEW j \in DOMAIN found
    PROVE  found[j].post.id \in Ids(matches) <=> Reports(matches, found[j].post)
<1>1. ASSUME found[j].post.id \in Ids(matches) PROVE Reports(matches, found[j].post)
  <2>1. PICK i \in DOMAIN matches : matches[i].post.id = found[j].post.id
    BY <1>1 DEF Ids
  <2>2. PICK k \in DOMAIN found : matches[i].post = found[k].post
    BY DEF IInv, MatchesOK
  <2>3. found[k].post = found[j].post
    BY <2>1, <2>2 DEF IInv, FoundOK
  <2> QED
    BY <2>2, <2>3 DEF Reports
<1>2. ASSUME Reports(matches, found[j].post) PROVE found[j].post.id \in Ids(matches)
  BY <1>2 DEF Reports, Ids
<1> QED
  BY <1>1, <1>2

LEMMA Percent ==
    ASSUME NEW d \in Nat, NEW size \in Nat, NEW percent \in Int
    PROVE  /\ WithinPercent(d, percent, size) <=> 100 * (size - d) >= percent * size
           /\ WithinPercent(d, 100, size) <=> d = 0
<1>1. (100 - percent) * size = 100 * size - percent * size
  OBVIOUS
<1>2. percent * size \in Int
  OBVIOUS
<1>3. \A x \in Int : 100 * d <= 100 * size - x <=> 100 * (size - d) >= x
  OBVIOUS
<1>4. (100 - 100) * size = 0
  OBVIOUS
<1> QED
  BY <1>1, <1>2, <1>3, <1>4 DEF WithinPercent

\* The distance filters ask of a post what Fits asks of it.
LEMMA NearFits ==
    ASSUME IInv, Searched, NEW p \in Post
    PROVE  /\ Near(p) <=>
                /\ p.annoy <= settings.annoy
                /\ IF settings.meme /\ meme # "no"
                   THEN IF template /\ p = closest THEN p.meme = 0 ELSE p.ham = 0
                   ELSE 100 * (HashSize - p.ham) >= Settings.percent * HashSize
           /\ MemeNear(p) <=>
                /\ p.hashable
                /\ 100 * (MemeHashSize - p.meme) >= settings.memePercent * MemeHashSize
<1>1. order \in Orders /\ settings = Current /\ template = (Settings.meme /\ meme = "template")
  BY DEF IInv, StateOK, SettingsOK
<1>2. settings \in SearchSettings /\ settings.meme = Settings.meme /\ Settings \in SearchSettings
  BY <1>1, SettingsFacts, SettingsType DEF IInv
<1>3. settings.percent \in Int /\ settings.memePercent \in Int /\ Settings.percent \in Int
  BY <1>2 DEF SearchSettings
<1>4. p.ham \in Nat /\ p.meme \in Nat /\ HashSize \in Nat /\ MemeHashSize \in Nat
  BY MatchType, FiltersAssumption
<1>5. HamOf(p) \in Nat
  BY <1>4 DEF HamOf
<1>6. CASE settings.meme /\ meme # "no"
  <2>1. settings.percent = 100
    BY <1>1, <1>2, <1>6 DEF Current, Memed, SearchSettings
  <2>2. WithinPercent(HamOf(p), settings.percent, HashSize) <=> HamOf(p) = 0
    BY <1>3, <1>4, <1>5, <2>1, Percent
  <2> QED
    BY <1>3, <1>4, <1>6, <2>2, Percent DEF Near, MemeNear, HamOf
<1>7. CASE ~ (settings.meme /\ meme # "no")
  <2>1. settings.percent = Settings.percent /\ ~ template
    BY <1>1, <1>2, <1>7 DEF Current
  <2>2. HamOf(p) = p.ham
    BY <2>1 DEF HamOf
  <2> QED
    BY <1>3, <1>4, <1>7, <2>1, <2>2, Percent DEF Near, MemeNear
<1> QED
  BY <1>6, <1>7

\* The first part of Fits: what it asks of a post that is compared with another.
Compared(p, days) ==
    /\ p.id # Checked.id
    /\ ~ (settings.author /\ p.author = Checked.author)
    /\ p.crosspost => IF Given("include_crossposts")
                      THEN order.asked["include_crossposts"] ELSE ~ settings.cross
    /\ settings.older => p.age > Checked.age
    /\ ~ (settings.sameSub /\ p.sub # Checked.sub)
    /\ settings.title > 0 => order.kind = "image" /\ p.title > settings.title
    /\ settings.days > 0 => p.age < 2 * days

LEMMA PassesFits ==
    ASSUME IInv, Searched, order.post, NEW m \in MatchSet, Fresh(m)
    PROVE  /\ Passes(m) => Compared(m.post, settings.days + 1)
           /\ Compared(m.post, settings.days) => Passes(m)
<1>1. order \in Orders
  BY DEF IInv, StateOK
<1>2. /\ settings \in SearchSettings /\ settings.cross = Settings.cross
      /\ settings.title = Settings.title
  BY <1>1, SettingsFacts DEF IInv
<1>3. PICK p \in Post : p = m.post
  BY DEF MatchSet
<1>4. /\ p.age \in Int /\ p.title \in Int /\ Checked.age \in Int
      /\ settings.title \in Int /\ settings.days \in Int
  BY <1>2, FiltersAssumption DEF Post, SearchSettings
<1>5. /\ SamePostFilter(m) <=> p.id # Checked.id
      /\ (settings.author => AuthorFilter(m)) <=> ~ (settings.author /\ p.author = Checked.author)
      /\ (settings.older => NewerFilter(m)) <=> (settings.older => p.age > Checked.age)
      /\ (settings.sameSub => SameSubFilter(m)) <=> ~ (settings.sameSub /\ p.sub # Checked.sub)
  BY <1>3 DEF SamePostFilter, AuthorFilter, NewerFilter, SameSubFilter
<1>6. (settings.cross => CrossPostFilter(m)) <=>
          (p.crosspost => IF Given("include_crossposts")
                          THEN order.asked["include_crossposts"] ELSE ~ settings.cross)
  <2>1. (settings.cross => CrossPostFilter(m)) <=> (p.crosspost => ~ settings.cross)
    BY <1>3 DEF CrossPostFilter
  <2>2. Given("include_crossposts") => (~ settings.cross <=> order.asked["include_crossposts"])
    BY <1>1, <1>2, CrossSetting
  <2> QED
    BY <2>1, <2>2
<1>7. (settings.title > 0 => TitleFilter(m)) <=>
          (settings.title > 0 => order.kind = "image" /\ p.title > settings.title)
  <2>1. settings.title > 0 => m.title = IF order.kind = "image" THEN p.title ELSE 0
    BY <1>2, <1>3 DEF Fresh, Titled
  <2> QED
    BY <1>4, <2>1 DEF TitleFilter
<1>8. DaysFilter(m) <=> p.age < 2 * (settings.days + 1)
  <2>1. \A a, d \in Int : a \div 2 <= d <=> a < 2 * (d + 1)
    OBVIOUS
  <2> QED
    BY <1>3, <1>4, <2>1 DEF DaysFilter
<1>9. p.age < 2 * settings.days => p.age < 2 * (settings.days + 1)
  BY <1>4
<1>10. ASSUME Passes(m) PROVE Compared(p, settings.days + 1)
  BY <1>5, <1>6, <1>7, <1>8, <1>10 DEF Passes, Compared
<1>11. ASSUME Compared(p, settings.days) PROVE Passes(m)
  BY <1>5, <1>6, <1>7, <1>8, <1>9, <1>11 DEF Passes, Compared
<1> QED
  BY <1>3, <1>10, <1>11

\* The tests that a reported post has passed are those Fits asks for.
LEMMA WantedFits ==
    ASSUME IInv, step = "done", NEW j \in DOMAIN found
    PROVE  LET p == found[j].post
               dead == order.post /\ settings.dead /\ p.state # "up"
           IN  /\ Wanted(found[j], step) => Fits(p, settings.days + 1) /\ (dead => p.id \in skipped)
               /\ Fits(p, settings.days) /\ ~ dead => Wanted(found[j], step)
<1>1. found[j] \in MatchSet /\ Fresh(found[j])
  BY DEF IInv, StateOK, FoundOK
<1>2. PICK p \in Post : p = found[j].post
  BY <1>1, PostType
<1>3. Searched /\ (template => order.kind = "image")
  BY DEF Searched, IInv, StateOK, SettingsOK
<1>4. order.post => /\ Passes(found[j]) => Compared(p, settings.days + 1)
                    /\ Compared(p, settings.days) => Passes(found[j])
  BY <1>1, <1>2, <1>3, PassesFits
<1> DEFINE close == order.kind = "image" => Near(p)
           atMeme == template => MemeNear(p)
           text  == order.kind = "text" => p.distance >= settings.text
<1>5. ASSUME NEW days
      PROVE  Fits(p, days) <=> (order.post => Compared(p, days)) /\ text /\ close /\ atMeme
  BY <1>3, NearFits DEF Fits, Compared
<1>6. Wanted(found[j], step) <=>
          /\ order.post => Passes(found[j])
          /\ order.post /\ settings.dead /\ p.state # "up" => p.id \in skipped
          /\ text /\ close /\ atMeme
  BY <1>2, <1>3 DEF Wanted
<1> HIDE DEF close, atMeme, text
<1> QED
  BY <1>2, <1>4, <1>5, <1>6

\* Every variable has its type, and whatever is reported was found.
THEOREM FiltersTypeOK == Spec => []TypeOK
<1>1. IInv => TypeOK
  <2> SUFFICES ASSUME IInv PROVE TypeOK
    OBVIOUS
  <2>1. order.kind \in DOMAIN Config
    BY FiltersAssumption DEF IInv, StateOK
  <2>2. settings.percent \in {Settings.percent, 100}
    BY SettingsFacts DEF IInv, StateOK
  <2>3. Ids(matches) \subseteq Ids(found)
    BY DEF IInv, MatchesOK, Ids
  <2>4. closest = NoMatch \/ closest.id \in Ids(found)
    BY DEF IInv, ClosestOK, Ids
  <2> QED
    BY <2>1, <2>2, <2>3, <2>4 DEF IInv, StateOK, SettingsOK, MatchesOK, TypeOK
<1> QED
  BY <1>1, FiltersInvariant, PTL

\* What is reported is what the settings ask for, however the filters are ordered
\* and whatever they overwrite on the way.
THEOREM FiltersResultIsWanted == Spec => []ResultIsWanted
<1>1. IInv => ResultIsWanted
  <2> SUFFICES ASSUME IInv, step = "done", NEW j \in DOMAIN found
               PROVE  LET p == found[j].post
                          dead == order.post /\ settings.dead /\ p.state # "up"
                      IN  /\ p.id \in Ids(matches)
                             => Fits(p, settings.days + 1) /\ (dead => p.id \in skipped)
                          /\ Fits(p, settings.days) /\ ~ dead => p.id \in Ids(matches)
    BY DEF ResultIsWanted
  <2>1. Reports(matches, found[j].post) <=> Wanted(found[j], step)
    BY DEF IInv, KeptOK, Searched
  <2>2. found[j].post.id \in Ids(matches) <=> Reports(matches, found[j].post)
    BY ReportedById
  <2> QED
    BY <2>1, <2>2, WantedFits
<1> QED
  BY <1>1, FiltersInvariant, PTL

\* The post that is named as the original is the oldest of those reported, and
\* no post is reported twice.
THEOREM FiltersOldestFirst == Spec => []OldestFirst
<1>1. IInv => OldestFirst
  BY DEF IInv
<1> QED
  BY <1>1, FiltersInvariant, PTL

\* No reported match is closer to the image than the one named the closest.
THEOREM FiltersClosestIsBest == Spec => []ClosestIsBest
<1>1. IInv => ClosestIsBest
  BY DEF IInv, ClosestOK, Best, ClosestIsBest
<1> QED
  BY <1>1, FiltersInvariant, PTL
=============================================================================
