-------------------------- MODULE SchoolSiteProofs --------------------------
(***************************************************************************)
(* What the gate of the static site accepts, for any schools, rows and     *)
(* thresholds.  Without a fault: it accepts whatever its own generators    *)
(* made, and links lead to pages.  With any number of faults: the public   *)
(* API of an accepted output is exactly the gate of the generator.         *)
(*                                                                         *)
(* The one fact that takes an argument is that every school has as many    *)
(* neighbours as the gate demands (NeighborsSuffice): selection by rank    *)
(* among equals in distance never drops a school without filling its       *)
(* place (NearestFills).                                                   *)
(***************************************************************************)
EXTENDS SchoolSite, FiniteSetTheorems, WellFoundedInduction, TLAPS

\* Rows as Init makes them, with the places the selection sorts by.
RowsOK(r) ==
    /\ DOMAIN r \subseteq Nat /\ IsFiniteSet(DOMAIN r)
    /\ \A s \in DOMAIN r : r[s].pref \in Prefs
    /\ \A s \in Located(r) : r[s].at \in Int

-----------------------------------------------------------------------------
(* Nearby schools.                                                         *)

\* The distance is a number, and ids decide between equal distances: an order
\* without cycles (gen-schools-json.mjs, selectNeighbors).
LEMMA BeforeIsAnOrder ==
    ASSUME NEW r, RowsOK(r), NEW s \in Located(r), NEW t \in Located(r),
           NEW u \in Located(r), NEW v \in Located(r)
    PROVE  /\ ~Before(r, s, t, t)
           /\ Before(r, s, t, u) /\ Before(r, s, u, v) => Before(r, s, t, v)
<1>1. /\ Km(r, s, t) \in Int /\ Km(r, s, u) \in Int /\ Km(r, s, v) \in Int
  BY DEF RowsOK, Km
<1>2. t \in Nat /\ u \in Nat /\ v \in Nat
  BY DEF RowsOK, Located
<1> QED BY <1>1, <1>2 DEF Before

\* Taking the k nearest of S takes k schools, or all of them.
LEMMA NearestFills ==
    ASSUME NEW r, RowsOK(r), NEW s \in Located(r), NEW S, S \subseteq Located(r),
           IsFiniteSet(S), NEW k \in Int
    PROVE  /\ Nearest(r, s, S, k) \subseteq S
           /\ IsFiniteSet(Nearest(r, s, S, k))
           /\ Cardinality(Nearest(r, s, S, k)) \in Nat
           /\ Nearest(r, s, S, k) = S \/ Cardinality(Nearest(r, s, S, k)) >= k
<1> DEFINE N == Nearest(r, s, S, k)
<1> DEFINE P(t) == {u \in S : Before(r, s, u, t)}
<1>1. N \subseteq S /\ N = {t \in S : Cardinality(P(t)) < k}
  BY DEF Nearest
<1>2. IsFiniteSet(N) /\ Cardinality(N) \in Nat
  BY <1>1, FS_Subset, FS_CardinalityType
<1>3. ASSUME N # S
      PROVE  Cardinality(N) >= k
  <2> DEFINE T == {P(t) : t \in S \ N}
  <2>1. T \subseteq FiniteSubsetsOf(S) /\ T # {}
    <3>1. \A t \in S : P(t) \subseteq S /\ IsFiniteSet(P(t))
      BY FS_Subset
    <3>2. PICK t \in S : t \notin N
      BY <1>1, <1>3
    <3>3. P(t) \in T
      BY <3>2
    <3>4. \A x \in T : x \in FiniteSubsetsOf(S)
      <4> HIDE DEF P, N
      <4> QED BY <3>1 DEF FiniteSubsetsOf
    <3> QED BY <3>3, <3>4
  <2>2. IsWellFoundedOn(StrictSubsetOrdering(S), FiniteSubsetsOf(S))
    BY FS_StrictSubsetOrderingWellFounded
  <2>3. \E x \in T : \A y \in T : ~(<<y, x>> \in StrictSubsetOrdering(S))
    <3> HIDE DEF T
    <3> QED BY <2>1, <2>2, WFMin
  <2>4. PICK t \in S \ N : \A u \in S \ N : <<P(u), P(t)>> \notin StrictSubsetOrdering(S)
    BY <2>3
  <2>5. P(t) \subseteq N
    <3> SUFFICES ASSUME NEW u \in P(t), u \notin N
                 PROVE  FALSE
      OBVIOUS
    <3>1. u \in S /\ Before(r, s, u, t)
      OBVIOUS
    <3>2. P(u) \subseteq P(t)
      BY <3>1, BeforeIsAnOrder
    <3>3. u \in P(t) /\ u \notin P(u)
      BY <3>1, BeforeIsAnOrder
    <3>4. <<P(u), P(t)>> \in StrictSubsetOrdering(S)
      BY <3>2, <3>3 DEF StrictSubsetOrdering
    <3> QED BY <2>4, <3>1, <3>4
  <2>6. IsFiniteSet(P(t)) /\ Cardinality(P(t)) \in Nat /\ Cardinality(P(t)) <= Cardinality(N)
    BY <2>5, <1>2, FS_Subset, FS_CardinalityType
  <2>7. ~(Cardinality(P(t)) < k)
    BY <1>1
  <2> QED BY <2>6, <2>7, <1>2
<1> QED BY <1>1, <1>2, <1>3
\* A school has its nearest neighbours, or all other schools if they are few:
\* of its city first, then within FillKm, then any up to MinCount
\* (gen-schools-json.mjs, selectNeighbors 71-112).
LEMMA NeighborsSuffice ==
    ASSUME NEW r, RowsOK(r), SiteAssumption, NEW s \in Located(r)
    PROVE  /\ SelectNeighbors(r, s) \subseteq Located(r) \ {s}
           /\ IsFiniteSet(SelectNeighbors(r, s))
           /\ Cardinality(SelectNeighbors(r, s)) >= Least(3, Cardinality(Located(r)) - 1)
<1> DEFINE L == Located(r) \ {s}
           same == SameCity(r, s)
           others == L \ same
           near == {t \in others : Km(r, s, t) <= FillKm}
           first == Nearest(r, s, same, NeighborMax)
           second == Nearest(r, s, near, FillTarget - Cardinality(first))
           filled == first \cup second
           rest == others \ filled
           last == Nearest(r, s, rest, MinCount - Cardinality(filled))
<1>1. SelectNeighbors(r, s) = filled \cup last
  BY Zenon DEF SelectNeighbors
<1>2. /\ IsFiniteSet(Located(r)) /\ IsFiniteSet(L) /\ Cardinality(L) \in Nat
      /\ Cardinality(Located(r)) \in Nat /\ Cardinality(L) = Cardinality(Located(r)) - 1
  <2>1. IsFiniteSet(Located(r))
    BY FS_Subset DEF RowsOK, Located
  <2> QED BY <2>1, FS_RemoveElement, FS_CardinalityType
<1>3. same \subseteq L /\ others \subseteq L /\ near \subseteq others /\ L = same \cup others
  BY DEF SameCity
<1>4. /\ NeighborMax \in Nat /\ FillTarget \in Nat /\ MinCount \in Nat
      /\ 3 <= NeighborMax /\ 3 <= MinCount
  BY DEF SiteAssumption, SiteConstants
<1> HIDE DEF L, same, others, near
<1>5. IsFiniteSet(same) /\ IsFiniteSet(near) /\ IsFiniteSet(others)
  BY <1>2, <1>3, FS_Subset
<1>6. same \subseteq Located(r) /\ others \subseteq Located(r) /\ near \subseteq Located(r)
  BY <1>3 DEF L
<1>7. /\ first \subseteq same /\ IsFiniteSet(first) /\ Cardinality(first) \in Nat
      /\ first = same \/ Cardinality(first) >= NeighborMax
  BY <1>4, <1>5, <1>6, NearestFills
<1> HIDE DEF first
<1>8. second \subseteq near /\ IsFiniteSet(second)
  BY <1>4, <1>5, <1>6, <1>7, NearestFills
<1> HIDE DEF second
<1>9. IsFiniteSet(filled) /\ Cardinality(filled) \in Nat /\ filled \subseteq L
  BY <1>3, <1>7, <1>8, FS_Union, FS_CardinalityType
<1> HIDE DEF filled
<1>10. IsFiniteSet(rest) /\ rest \subseteq Located(r)
  BY <1>5, <1>6, FS_Subset
<1>a. MinCount - Cardinality(filled) \in Int
  BY <1>4, <1>9
<1> HIDE DEF rest
<1>11. /\ last \subseteq rest /\ IsFiniteSet(last) /\ Cardinality(last) \in Nat
       /\ last = rest \/ Cardinality(last) >= MinCount - Cardinality(filled)
  BY <1>10, <1>a, NearestFills
<1> HIDE DEF last
<1> DEFINE all == filled \cup last
<1>12. all \subseteq L /\ IsFiniteSet(all) /\ Cardinality(all) \in Nat
  BY <1>3, <1>9, <1>11, FS_Union, FS_CardinalityType DEF rest
<1>13. Cardinality(all) >= 3 \/ all = L
  <2>1. CASE Cardinality(first) >= NeighborMax
    <3>1. first \in SUBSET all
      BY DEF filled
    <3>2. Cardinality(first) <= Cardinality(all)
      BY <3>1, <1>12, FS_Subset
    <3> QED BY <2>1, <3>2, <1>4, <1>7, <1>12
  <2>2. CASE first = same /\ last = rest
    <3>1. L \subseteq all
      BY <2>2, <1>3 DEF filled, rest
    <3> QED BY <3>1, <1>12
  <2>3. CASE Cardinality(last) >= MinCount - Cardinality(filled)
    <3>1. filled \cap last = {}
      BY <1>11 DEF rest
    <3>2. Cardinality(filled \cap last) = 0
      BY <3>1, FS_EmptySet
    <3>3. Cardinality(all) = Cardinality(filled) + Cardinality(last) - Cardinality(filled \cap last)
      BY <1>9, <1>11, FS_Union, Zenon
    <3> HIDE DEF all
    <3> QED BY <2>3, <3>2, <3>3, <1>4, <1>9, <1>11
  <2> QED BY <2>1, <2>2, <2>3, <1>7, <1>11
<1>14. Cardinality(all) >= Least(3, Cardinality(Located(r)) - 1)
  <2> HIDE DEF all
  <2> QED BY <1>2, <1>12, <1>13 DEF Least
<1> QED BY <1>1, <1>12, <1>14 DEF L
-----------------------------------------------------------------------------
(* What one clean build makes.                                             *)

Built == data = Generate(rows) /\ ~WholePrefectureMissing(rows)
Shown(p) == In(rows, p) \cap Located(rows)

\* The files of a clean build, one by one (gen-schools-json.mjs 213-640).
LEMMA BuiltFiles ==
    ASSUME Built
    PROVE  /\ data.full = rows /\ data.map = DOMAIN rows /\ data.names = Located(rows)
           /\ data.manifest.count = Cardinality(DOMAIN rows)
           /\ data.manifest.data = Cardinality(Located(rows))
           /\ data.manifest.split = {p \in Prefs : In(rows, p) # {}}
           /\ data.manifest.index = {p \in Prefs : Shown(p) # {}}
           /\ data.single = [s \in Located(rows) |-> Single(rows, s)]
           /\ data.split = [p \in {q \in Prefs : In(rows, q) # {}} |-> In(rows, p)]
           /\ data.index = [p \in {q \in Prefs : Shown(q) # {}} |-> PrefIndex(rows, p)]
           /\ data.api = Public(rows)
           /\ data.byPref = ApiByPref(rows, Public(rows))
           /\ data.dataset = Dataset(data.byPref)
           /\ data.documented = DOMAIN data.byPref
           /\ Targets(data) = Located(rows)
           /\ ActivePrefs(data) = {p \in Prefs : Shown(p) # {}}
<1>1. /\ data.full = rows /\ data.map = DOMAIN rows /\ data.names = Located(rows)
      /\ data.manifest = [count |-> Cardinality(DOMAIN rows), data |-> Cardinality(Located(rows)),
                          split |-> {p \in Prefs : In(rows, p) # {}},
                          index |-> {p \in Prefs : In(rows, p) \cap Located(rows) # {}}]
      /\ data.single = [s \in Located(rows) |-> Single(rows, s)]
      /\ data.split = [p \in {q \in Prefs : In(rows, q) # {}} |-> In(rows, p)]
      /\ data.index = [p \in {q \in Prefs : In(rows, q) \cap Located(rows) # {}} |-> PrefIndex(rows, p)]
      /\ data.api = Public(rows)
      /\ data.byPref = ApiByPref(rows, Public(rows))
      /\ data.dataset = Dataset(ApiByPref(rows, Public(rows)))
      /\ data.documented = DOMAIN ApiByPref(rows, Public(rows))
  BY DEF Built, Generate, NameIndex
<1>2. /\ data.manifest.count = Cardinality(DOMAIN rows)
      /\ data.manifest.data = Cardinality(Located(rows))
      /\ data.manifest.split = {p \in Prefs : In(rows, p) # {}}
      /\ data.manifest.index = {p \in Prefs : In(rows, p) \cap Located(rows) # {}}
  BY <1>1
<1>3. Targets(data) = Located(rows) /\ ActivePrefs(data) = {p \in Prefs : Shown(p) # {}}
  BY <1>1 DEF Targets, ActivePrefs, Shown
<1> QED BY <1>1, <1>2, <1>3, Zenon DEF Shown

\* The pages of a clean build, one by one (gen-seo-pages.mjs).
LEMMA RenderedPages ==
    ASSUME pages = Render(data)
    PROVE  /\ pages.school = [s \in Targets(data) |-> SchoolPage(data, s)]
           /\ pages.pref = [p \in ActivePrefs(data) |-> PrefPage(data.index[p])]
           /\ pages.city = [l \in CityLocs(data) |-> CityPage(data.index[l[2]], l[3])]
           /\ pages.top = ActivePrefs(data) /\ pages.hub = ActivePrefs(data) /\ pages.covered
           /\ pages.coverage = <<Cardinality(DOMAIN data.dataset), Cardinality(data.api)>>
           /\ pages.sitemap = Sitemap(data)
BY DEF Render

\* gen-seo-pages.mjs refuses no files of a clean build but those without a
\* school that has coordinates.
LEMMA OnlyEmptyIsRefused ==
    ASSUME Built, PagesRefused(data)
    PROVE  Located(rows) = {}
<1>1. \A s \in Targets(data) : s \in DOMAIN data.single
  BY BuiltFiles
<1>2. ASSUME NEW p \in ActivePrefs(data)
      PROVE  /\ p \in DOMAIN data.index
             /\ DOMAIN data.index[p].entries = In(data.full, p) \cap Targets(data)
  <2>1. data.index[p] = PrefIndex(rows, p) /\ p \in DOMAIN data.index
    BY <1>2, BuiltFiles
  <2>2. DOMAIN data.index[p].entries = In(rows, p) \cap Located(rows)
    BY <2>1 DEF PrefIndex
  <2> QED BY <2>1, <2>2, BuiltFiles
<1> QED BY <1>1, <1>2, BuiltFiles DEF PagesRefused
-----------------------------------------------------------------------------
(* The gate accepts a clean build.                                         *)

Clean == Built /\ RowsOK(rows) /\ pages = Render(data)

LEMMA CleanPayloads ==
    ASSUME Clean
    PROVE  CheckPayloads /\ CheckSitemap /\ CheckDataPage /\ CheckTop
BY BuiltFiles, RenderedPages DEF Clean, CheckPayloads, CheckSitemap, CheckDataPage, CheckTop

\* Every school's file names enough neighbours.
LEMMA CleanSchoolData ==
    ASSUME Clean, SiteAssumption
    PROVE  CheckSchoolData
<1>1. /\ DOMAIN pages.school = Targets(data)
      /\ Cardinality(DOMAIN data.single) = Cardinality(Targets(data))
      /\ data.manifest.data = Cardinality(Targets(data))
  BY BuiltFiles, RenderedPages DEF Clean
<1>2. ASSUME NEW s \in Targets(data)
      PROVE  /\ s \in DOMAIN data.single
             /\ data.single[s].school = s
             /\ Cardinality(data.single[s].neighbors) >= MinLinks
  <2>1. s \in Located(rows) /\ data.single[s] = Single(rows, s) /\ s \in DOMAIN data.single
    BY <1>2, BuiltFiles DEF Clean
  <2>2. data.single[s].school = s /\ data.single[s].neighbors = SelectNeighbors(rows, s)
    BY <2>1 DEF Single
  <2>3. Cardinality(SelectNeighbors(rows, s)) >= Least(3, Cardinality(Located(rows)) - 1)
    BY <2>1, NeighborsSuffice DEF Clean
  <2>4. MinLinks = Least(3, Cardinality(Located(rows)) - 1)
    BY BuiltFiles DEF Clean, MinLinks
  <2> QED BY <2>1, <2>2, <2>3, <2>4
<1> QED BY <1>1, <1>2 DEF CheckSchoolData

\* The split has every school once, where every prefecture has pages.
LEMMA CleanSplit ==
    ASSUME Clean, EveryPrefectureHasPages
    PROVE  CheckSplit /\ CheckPrefIndex
<1>1. ASSUME NEW p \in ActivePrefs(data)
      PROVE  /\ p \in Prefs /\ Shown(p) # {} /\ In(rows, p) # {}
             /\ p \in data.manifest.split /\ p \in DOMAIN data.split /\ p \in data.manifest.index
             /\ data.split[p] = In(rows, p) /\ data.index[p] = PrefIndex(rows, p)
  BY <1>1, BuiltFiles DEF Clean, Shown
<1>2. Cardinality(SplitRecords) = Cardinality(DOMAIN rows)
  <2> DEFINE records == {<<rows[s].pref, s>> : s \in DOMAIN rows}
             record == [s \in DOMAIN rows |-> <<rows[s].pref, s>>]
  <2>1. ASSUME NEW p \in ActivePrefs(data), NEW s \in data.split[p]
        PROVE  <<p, s>> \in records
    BY <1>1 DEF In
  <2>2. ASSUME NEW s \in DOMAIN rows
        PROVE  \E p \in ActivePrefs(data) : p = rows[s].pref /\ s \in data.split[p]
    <3>1. PICK t \in Located(rows) : rows[t].pref = rows[s].pref
      BY DEF EveryPrefectureHasPages
    <3>2. rows[s].pref \in Prefs
      BY DEF Clean, RowsOK
    <3>3. t \in Shown(rows[s].pref) /\ s \in In(rows, rows[s].pref)
      BY <3>1 DEF Shown, In, Located
    <3>4. rows[s].pref \in ActivePrefs(data)
      BY <3>2, <3>3, BuiltFiles DEF Clean
    <3> QED BY <1>1, <3>3, <3>4
  <2>3. SplitRecords = records
    BY <2>1, <2>2 DEF SplitRecords
  <2>4. record \in Bijection(DOMAIN rows, records)
    BY DEF Bijection, Injection, Surjection, IsInjective
  <2>5. IsFiniteSet(DOMAIN rows) /\ ExistsBijection(DOMAIN rows, records)
    BY <2>4 DEF ExistsBijection, Clean, RowsOK
  <2> HIDE DEF records
  <2> QED BY <2>3, <2>5, FS_Bijection
<1>3. \A p \in ActivePrefs(data) : DOMAIN data.index[p].entries = In(rows, p) \cap Located(rows)
  <2> SUFFICES ASSUME NEW p \in ActivePrefs(data)
               PROVE  DOMAIN data.index[p].entries = In(rows, p) \cap Located(rows)
    OBVIOUS
  <2>1. data.index[p] = PrefIndex(rows, p)
    BY <1>1
  <2> QED BY <2>1 DEF PrefIndex
<1> QED BY <1>1, <1>2, <1>3, BuiltFiles DEF Clean, CheckSplit, CheckPrefIndex

\* The API has every public school in its prefecture.
LEMMA CleanApi ==
    ASSUME Clean
    PROVE  CheckPublicApi /\ CheckPrefApi /\ CheckOpenApi
<1> DEFINE with == {p \in Prefs : In(rows, p) \cap Public(rows) # {}}
<1>1. /\ data.full = rows /\ data.api = Public(rows) /\ DOMAIN data.byPref = with
      /\ \A p \in with : data.byPref[p] = In(rows, p) \cap Public(rows)
      /\ data.dataset = Dataset(data.byPref) /\ data.documented = DOMAIN data.byPref
  BY BuiltFiles DEF Clean, ApiByPref
<1>2. {p \in Prefs : In(rows, p) # {}} \subseteq with
  BY DEF Clean, Built, WholePrefectureMissing
<1>3. UNION {data.byPref[p] : p \in with} = Public(rows)
  <2>1. \A s \in Public(rows) : rows[s].pref \in with /\ s \in In(rows, rows[s].pref)
    BY DEF Clean, RowsOK, Public, In
  <2> QED BY <1>1, <2>1
<1>4. \A p, q \in with : p # q => data.byPref[p] \cap data.byPref[q] = {}
  BY <1>1 DEF In
<1> QED BY <1>1, <1>2, <1>3, <1>4 DEF CheckPublicApi, CheckPrefApi, CheckOpenApi

\* A school's page links to its neighbours and never counts itself.
LEMMA CleanSchoolPages ==
    ASSUME Clean, SiteAssumption, NEW s \in Targets(data)
    PROVE  /\ CheckSchoolPage(s)
           /\ pages.school[s].crumbs = Crumbs(rows[s])
           /\ pages.school[s].links \subseteq Located(rows)
<1>1. s \in Located(rows) /\ pages.school[s] = SchoolPage(data, s) /\ data.full = rows
  BY BuiltFiles, RenderedPages DEF Clean
<1>2. data.single[s] = Single(rows, s)
  BY <1>1, BuiltFiles DEF Clean
<1>3. /\ pages.school[s].canonical = SchoolLoc(s) /\ pages.school[s].crumbs = Crumbs(rows[s])
      /\ pages.school[s].shows = data.single[s].school
      /\ pages.school[s].links = data.single[s].neighbors \cup data.single[s].successors
                                   \cup data.single[s].linkable
  BY <1>1 DEF SchoolPage
<1>4. /\ data.single[s].school = s
      /\ data.single[s].neighbors = SelectNeighbors(rows, s)
      /\ data.single[s].successors = SuccessorsOf(rows, s)
      /\ data.single[s].linkable \subseteq Located(rows)
  BY <1>2 DEF Single
<1>5. /\ SelectNeighbors(rows, s) \subseteq Located(rows) \ {s}
      /\ IsFiniteSet(SelectNeighbors(rows, s)) /\ Cardinality(SelectNeighbors(rows, s)) \in Nat
      /\ Cardinality(SelectNeighbors(rows, s)) >= Least(3, Cardinality(Located(rows)) - 1)
  BY <1>1, NeighborsSuffice, FS_CardinalityType DEF Clean
<1>6. pages.school[s].links \subseteq Located(rows)
  BY <1>3, <1>4, <1>5 DEF SuccessorsOf
<1>7. IsFiniteSet(Located(rows)) /\ Cardinality(Located(rows)) \in Nat
  BY FS_Subset, FS_CardinalityType DEF Clean, RowsOK, Located
<1>8. /\ IsFiniteSet(pages.school[s].links \ {s})
      /\ Cardinality(pages.school[s].links \ {s}) \in Nat
      /\ Cardinality(SelectNeighbors(rows, s)) <= Cardinality(pages.school[s].links \ {s})
  <2>1. pages.school[s].links \ {s} \subseteq Located(rows)
    BY <1>6
  <2>2. IsFiniteSet(pages.school[s].links \ {s})
    BY <2>1, <1>7, FS_Subset
  <2>3. SelectNeighbors(rows, s) \subseteq pages.school[s].links \ {s}
    BY <1>3, <1>4, <1>5
  <2> QED BY <2>2, <2>3, FS_Subset, FS_CardinalityType
<1>9. MinLinks = Least(3, Cardinality(Located(rows)) - 1) /\ MinLinks \in Int
  BY <1>7, BuiltFiles DEF Clean, MinLinks, Least
<1>10. Cardinality(pages.school[s].links \ {s}) >= MinLinks
  BY <1>5, <1>8, <1>9
<1> QED BY <1>1, <1>3, <1>4, <1>6, <1>10 DEF CheckSchoolPage

\* The page of a prefecture and those of its municipalities come from one
\* index.
LEMMA CleanListPages ==
    ASSUME Clean
    PROVE  /\ \A p \in ActivePrefs(data) : CheckPrefPage(p)
           /\ \A l \in CityLocs(data) : CheckCityPage(l)
<1>1. \A p \in ActivePrefs(data) : \A c \in DOMAIN CityCounts(data.index[p]) : CityLoc(p, c) \in Sitemap(data)
  BY DEF CityLocs, Sitemap
<1>2. ASSUME NEW p \in ActivePrefs(data)
      PROVE  CheckPrefPage(p)
  <2>1. data.index[p] = PrefIndex(rows, p) /\ data.full = rows /\ Targets(data) = Located(rows)
    BY <1>2, BuiltFiles DEF Clean
  <2>2. p \in DOMAIN pages.pref /\ pages.pref[p] = PrefPage(data.index[p])
    BY <1>2, RenderedPages DEF Clean
  <2>3. /\ pages.pref[p].schools = In(rows, p) \cap Located(rows)
        /\ pages.pref[p].cities = DOMAIN CityCounts(data.index[p])
    BY <2>1, <2>2 DEF PrefPage, PrefIndex
  <2> QED BY <1>1, <1>2, <2>1, <2>2, <2>3 DEF CheckPrefPage
<1>3. ASSUME NEW l \in CityLocs(data)
      PROVE  CheckCityPage(l)
  <2>a. PICK p \in ActivePrefs(data) : \E k \in DOMAIN CityCounts(data.index[p]) : l = CityLoc(p, k)
    BY DEF CityLocs
  <2>1. PICK c \in DOMAIN CityCounts(data.index[p]) : l = CityLoc(p, c)
    BY <2>a
  <2>2. l[2] = p /\ l[3] = c
    BY <2>1 DEF CityLoc
  <2> DEFINE index == data.index[p]
             here == {s \in DOMAIN index.entries : index.entries[s].c = c}
             entries == [s \in here |-> index.entries[s]]
  <2>3. l \in DOMAIN pages.city /\ pages.city[l] = CityPage(index, c)
    BY <1>3, <2>2, RenderedPages DEF Clean
  <2>4. /\ pages.city[l].schools = here /\ pages.city[l].near = DOMAIN CityCounts(index) \ {c}
        /\ pages.city[l].dept = HasReliableDeptData(entries)
    BY <2>3 DEF CityPage
  <2>5. Cardinality(here) = CityCounts(index)[c]
    BY <2>1 DEF CityCounts
  <2>6. \A k \in pages.city[l].near : CityLoc(p, k) \in Sitemap(data)
    BY <1>1, <2>1, <2>4
  <2> QED BY <2>2, <2>3, <2>4, <2>5, <2>6, Zenon DEF CheckCityPage
<1> QED BY <1>2, <1>3

\* verify-static-output.mjs accepts a clean build.
LEMMA CleanPasses ==
    ASSUME Clean, SiteAssumption, EveryPrefectureHasPages
    PROVE  Accepted
BY CleanPayloads, CleanSchoolData, CleanSplit, CleanApi, CleanSchoolPages, CleanListPages DEF Accepted
-----------------------------------------------------------------------------
(* The inductive invariants.                                               *)

Steps == {"rows", "stopped", "generated", "rendered", "refused", "accepted"}

\* A build without a fault has at each step what its generators make.
CleanInv ==
    /\ rows \in UNION {[S -> Kinds] : S \in SUBSET Schools}
    /\ step \in Steps /\ faults \in Nat
    /\ faults = 0 =>
         /\ step \in {"generated", "rendered", "accepted"} => Built
         /\ step \in {"rendered", "accepted"} => pages = Render(data)
         /\ CleanIsAccepted

LEMMA RowsAreOK ==
    ASSUME SiteAssumption, rows \in UNION {[S -> Kinds] : S \in SUBSET Schools}
    PROVE  RowsOK(rows)
<1>1. PICK S \in SUBSET Schools : rows \in [S -> Kinds]
  OBVIOUS
<1>2. IsFiniteSet(S) /\ S \subseteq Nat
  BY FS_Subset DEF SiteAssumption
<1>3. \A s \in S : rows[s] \in Kinds
  BY <1>1
<1>4. \A s \in Located(rows) : rows[s].at \in Int
  BY <1>1, <1>3 DEF Located, SiteAssumption
<1> QED BY <1>1, <1>2, <1>3, <1>4 DEF RowsOK, SiteAssumption

LEMMA CleanInit == Init => CleanInv
BY DEF Init, CleanInv, Steps, CleanIsAccepted

LEMMA CleanNext ==
    ASSUME SiteAssumption, CleanInv, [Next]_vars
    PROVE  CleanInv'
<1> USE DEF Steps, Goto
<1>1. CASE GenerateData
  BY <1>1 DEF GenerateData, CleanInv, CleanIsAccepted, Built
<1>2. CASE RenderPages
  <2>1. faults = 0 => Built /\ (PagesRefused(data) => Located(rows) = {})
    BY <1>2, OnlyEmptyIsRefused DEF RenderPages, CleanInv
  <2>2. UNCHANGED <<rows, data, faults>> /\ step = "generated"
    BY <1>2 DEF RenderPages
  <2>3. faults = 0 => Built'
    BY <2>1, <2>2 DEF Built
  <2>4. /\ step' \in {"refused", "rendered"}
        /\ step' = "rendered" => pages' = Render(data)
        /\ step' = "refused" => PagesRefused(data)
    BY <1>2 DEF RenderPages
  <2> QED BY <2>1, <2>2, <2>3, <2>4 DEF CleanInv, CleanIsAccepted
<1>3. CASE GoWrong
  <2>1. faults' = faults + 1 /\ UNCHANGED <<rows, step>>
    BY <1>3 DEF GoWrong
  <2> QED BY <2>1 DEF CleanInv
<1>4. CASE Verify
  <2>1. UNCHANGED <<rows, data, pages, faults>> /\ step = "rendered"
    BY <1>4 DEF Verify
  <2>2. /\ step' \in {"accepted", "refused"}
        /\ step' = "refused" => ~Accepted
    BY <1>4 DEF Verify
  <2>3. faults = 0 => Clean
    BY <2>1, RowsAreOK DEF CleanInv, Clean
  <2>4. faults = 0 /\ step' = "refused" => ~EveryPrefectureHasPages
    BY <2>2, <2>3, CleanPasses
  <2>5. faults = 0 => Built'
    BY <2>1 DEF CleanInv, Built
  <2>6. EveryPrefectureHasPages' <=> EveryPrefectureHasPages
    BY <2>1 DEF EveryPrefectureHasPages
  <2> QED BY <2>1, <2>2, <2>4, <2>5, <2>6 DEF CleanInv, CleanIsAccepted
<1>5. CASE UNCHANGED vars
  BY <1>5 DEF vars, CleanInv, CleanIsAccepted, Built, EveryPrefectureHasPages
<1> QED BY <1>1, <1>2, <1>3, <1>4, <1>5 DEF Next

LEMMA CleanSpec == SiteAssumption => (Spec => []CleanInv)
<1> SUFFICES ASSUME SiteAssumption
             PROVE  Spec => []CleanInv
  OBVIOUS
<1>1. CleanInv /\ [Next]_vars => CleanInv'
  BY CleanNext
<1> QED BY <1>1, CleanInit, PTL DEF Spec

\* The gate lets every output of its own generators through, for any schools:
\* it refuses only rows of which no page comes, and a prefecture none of whose
\* schools has coordinates.  No school is so remote, and no town so small, that
\* its page has fewer links than the gate demands
\* (gen-schools-json.mjs 213-640, gen-seo-pages.mjs, verify-static-output.mjs).
THEOREM CleanOutputPasses == SiteAssumption => (Spec => []CleanIsAccepted)
<1>1. CleanInv => CleanIsAccepted
  BY DEF CleanInv, CleanIsAccepted
<1> QED BY <1>1, CleanSpec, PTL

-----------------------------------------------------------------------------
(* Links of a clean build.                                                 *)

LEMMA CrumbsLead ==
    ASSUME Clean, SiteAssumption, NEW s \in Targets(data)
    PROVE  \A i \in DOMAIN pages.school[s].crumbs : pages.school[s].crumbs[i] \in Published
<1>1. /\ s \in Located(rows) /\ s \in DOMAIN rows /\ rows[s].pref \in Prefs
      /\ pages.school[s].crumbs = Crumbs(rows[s])
  BY BuiltFiles, CleanSchoolPages DEF Clean, RowsOK, Located
<1> DEFINE p == rows[s].pref
           c == Resolve(rows[s])
<1>2. p \in ActivePrefs(data)
  BY <1>1, BuiltFiles DEF Clean, Shown, In, Located
<1>3. TopLoc \in Published /\ PrefLoc(p) \in Published
  <2>1. p \in DOMAIN pages.pref
    BY <1>2, RenderedPages DEF Clean
  <2> QED BY <2>1 DEF Published, FixedLocs
<1>4. ASSUME c # Nothing
      PROVE  CityLoc(p, c) \in Published
  <2>1. data.index[p] = PrefIndex(rows, p)
    BY <1>2, BuiltFiles DEF Clean
  <2> DEFINE index == data.index[p]
  <2>2. c \in index.cities
    <3> DEFINE keys == {<<rows[t].pref, Resolve(rows[t])>> :
                          t \in {u \in Located(rows) : Resolve(rows[u]) # Nothing}}
               city(k) == [pref |-> k[1], city |-> k[2],
                           count |-> Cardinality({t \in Located(rows) \cap In(rows, k[1]) :
                                                    Resolve(rows[t]) = k[2]})]
    <3>1. <<p, c>> \in keys
      BY <1>1, <1>4
    <3>2. CityIndex(rows) = {city(k) : k \in keys}
      BY Zenon DEF CityIndex
    <3>3. city(<<p, c>>) \in CityIndex(rows)
      BY <3>1, <3>2
    <3>4. city(<<p, c>>).pref = p /\ city(<<p, c>>).city = c
      OBVIOUS
    <3>5. index.cities = {e.city : e \in {d \in CityIndex(rows) : d.pref = p}}
      BY <2>1 DEF PrefIndex
    <3> QED BY <3>3, <3>4, <3>5
  <2>3. s \in DOMAIN index.entries /\ index.entries[s].c = c
    <3>1. s \in In(rows, p) \cap Located(rows)
      BY <1>1 DEF In
    <3>2. IndexCity(rows[s]) = c
      BY <1>4 DEF IndexCity
    <3> QED BY <2>1, <3>1, <3>2 DEF PrefIndex, Entry
  <2>4. c \in DOMAIN CityCounts(index)
    BY <2>2, <2>3 DEF CityCounts
  <2>5. CityLoc(p, c) \in CityLocs(data)
    BY <1>2, <2>4 DEF CityLocs
  <2> QED BY <2>5, RenderedPages DEF Clean, Published
<1>5. CASE c = Nothing
  BY <1>1, <1>3, <1>5 DEF Crumbs
<1>6. CASE c # Nothing
  BY <1>1, <1>3, <1>4, <1>6 DEF Crumbs
<1> QED BY <1>5, <1>6

LEMMA CleanLinks ==
    ASSUME Clean, SiteAssumption
    PROVE  /\ \A s \in DOMAIN pages.school : \A i \in DOMAIN pages.school[s].crumbs :
                pages.school[s].crumbs[i] \in Published
           /\ \A s \in DOMAIN rows \ Located(rows) :
                /\ \A t \in DOMAIN pages.school : s \notin pages.school[t].links
                /\ \A p \in DOMAIN pages.pref : s \notin pages.pref[p].schools
<1>1. DOMAIN pages.school = Targets(data) /\ DOMAIN pages.pref = ActivePrefs(data)
  BY RenderedPages DEF Clean
<1>2. \A t \in Targets(data) : pages.school[t].links \subseteq Located(rows)
  BY CleanSchoolPages
<1>3. \A p \in ActivePrefs(data) : pages.pref[p].schools \subseteq Located(rows)
  <2> SUFFICES ASSUME NEW p \in ActivePrefs(data)
               PROVE  pages.pref[p].schools \subseteq Located(rows)
    OBVIOUS
  <2>1. data.index[p] = PrefIndex(rows, p) /\ pages.pref[p] = PrefPage(data.index[p])
    BY BuiltFiles, RenderedPages DEF Clean
  <2> QED BY <2>1 DEF PrefPage, PrefIndex
<1> QED BY <1>1, <1>2, <1>3, CrumbsLead

\* Without a fault every breadcrumb leads to a page that is there, although the
\* crumb is made from the row and the page from the index of the prefecture,
\* and a school without coordinates is linked from nowhere
\* (gen-seo-pages.mjs renderSchoolPage, buildCityCounts; gen-schools-json.mjs
\* linkableSchoolIds).
THEOREM CleanOutputIsLinked == SiteAssumption => (Spec => []CleanLinksResolve)
<1> SUFFICES ASSUME SiteAssumption
             PROVE  Spec => []CleanLinksResolve
  OBVIOUS
<1>1. CleanInv => CleanLinksResolve
  <2> SUFFICES ASSUME CleanInv, step = "accepted", faults = 0
               PROVE  CleanLinksResolve
    BY DEF CleanLinksResolve, CrumbsResolve, UnlocatedIsNotLinked
  <2>1. Clean
    BY RowsAreOK DEF CleanInv, Clean
  <2> QED BY <2>1, CleanLinks DEF CleanLinksResolve, CrumbsResolve, UnlocatedIsNotLinked
<1> QED BY <1>1, CleanSpec, PTL

-----------------------------------------------------------------------------
(* The API of an accepted output, whatever went wrong.                     *)

LEMMA AcceptedApi ==
    ASSUME Accepted
    PROVE  /\ data.api = Public(data.full)
           /\ \A s \in data.api : {p \in DOMAIN data.byPref : s \in data.byPref[p]} = {data.full[s].pref}
           /\ \A p \in DOMAIN data.byPref : data.byPref[p] \subseteq data.api
           /\ data.dataset = [p \in data.documented |-> Cardinality(data.byPref[p])]
<1> USE DEF Accepted, CheckPublicApi, CheckPrefApi, CheckOpenApi
<1>1. data.api = Public(data.full)
  OBVIOUS
<1>2. ASSUME NEW s \in data.api
      PROVE  {p \in DOMAIN data.byPref : s \in data.byPref[p]} = {data.full[s].pref}
  <2>1. PICK p \in DOMAIN data.byPref : s \in data.byPref[p]
    OBVIOUS
  <2>2. \A q \in DOMAIN data.byPref : s \in data.byPref[q] => data.full[s].pref = q
    BY DEF In
  <2> QED BY <2>1, <2>2
<1>3. \A p \in DOMAIN data.byPref : data.byPref[p] \subseteq data.api
  OBVIOUS
<1>4. data.dataset = [p \in data.documented |-> Cardinality(data.byPref[p])]
  BY DEF Dataset
<1> QED BY <1>1, <1>2, <1>3, <1>4

\* However many files went wrong, an accepted output has in its public API
\* every school the generator's gate lets in and no other, each in the file of
\* its prefecture and in no other, and counts them right
\* (verify-static-output.mjs 838-1060; the comment at 879-881).
THEOREM AcceptedApiStaysTheGate == Spec => []AcceptedApiIsTheGate
<1>1. Init => AcceptedApiIsTheGate
  BY DEF Init, AcceptedApiIsTheGate
<1>2. AcceptedApiIsTheGate /\ [Next]_vars => AcceptedApiIsTheGate'
  <2> SUFFICES ASSUME AcceptedApiIsTheGate, [Next]_vars, step' = "accepted"
               PROVE  AcceptedApiIsTheGate'
    BY DEF AcceptedApiIsTheGate
  <2> USE DEF Goto
  <2>1. CASE GenerateData \/ RenderPages \/ GoWrong
    BY <2>1 DEF GenerateData, RenderPages, GoWrong
  <2>2. CASE Verify
    <3>1. Accepted /\ UNCHANGED data
      BY <2>2 DEF Verify
    <3> QED BY <3>1, AcceptedApi DEF AcceptedApiIsTheGate
  <2>3. CASE UNCHANGED vars
    BY <2>3 DEF vars, AcceptedApiIsTheGate
  <2> QED BY <2>1, <2>2, <2>3 DEF Next
<1> QED BY <1>1, <1>2, PTL DEF Spec
-----------------------------------------------------------------------------
(* An accepted output is whole, whatever went wrong.                       *)

\* The full payload has rows of r and no others.
FilesOK(d, r) ==
    /\ "full" \in DOMAIN d
    /\ DOMAIN d.full \subseteq DOMAIN r /\ \A s \in DOMAIN d.full : d.full[s] = r[s]

\* The files of a clean build are such.
LEMMA GeneratedFiles ==
    ASSUME NEW r
    PROVE  FilesOK(Generate(r), r)
<1>1. "full" \in DOMAIN Generate(r) /\ Generate(r).full = r
  BY DEF Generate
<1> QED BY <1>1 DEF FilesOK

\* A wrong file is another one than the full payload, or the payload lacks a
\* school.
LEMMA WrongKeepsFiles ==
    ASSUME NEW d, NEW r, FilesOK(d, r), NEW e \in WrongData(d)
    PROVE  FilesOK(e, r)
<1> DEFINE Same == "full" \in DOMAIN e /\ e.full = d.full
<1>1. Same => FilesOK(e, r)
  BY DEF FilesOK
<1>2. ASSUME NEW f
      PROVE  /\ e = [d EXCEPT !.single = f] => Same
             /\ e = [d EXCEPT !.names = f] => Same
             /\ e = [d EXCEPT !.map = f] => Same
             /\ e = [d EXCEPT !.split = f] => Same
             /\ e = [d EXCEPT !.index = f] => Same
             /\ e = [d EXCEPT !.byPref = f] => Same
             /\ e = [d EXCEPT !.dataset = f] => Same
             /\ e = [d EXCEPT !.documented = f] => Same
             /\ e = [d EXCEPT !.manifest = f] => Same
             /\ e = WithApi(d, f) => Same
  BY DEF FilesOK, WithApi
<1> HIDE DEF Same
<1>3. CASE e \in WrongSingle(d)
  <2> DEFINE lost == {[d EXCEPT !.single = Without(@, s)] : s \in DOMAIN d.single}
             emptied == {[d EXCEPT !.single = Replaced(@, s, [@[s] EXCEPT !.neighbors = {}])] : s \in DOMAIN d.single}
             strayed == {[d EXCEPT !.single[s].neighbors = @ \cup {t}] : s \in DOMAIN d.single, t \in Schools}
             mixed == UNION {{[d EXCEPT !.single = Replaced(@, s, d.single[t])] : s \in DOMAIN d.single} : t \in DOMAIN d.single}
  <2>1. e \in lost => \E f : e = [d EXCEPT !.single = f]
    OBVIOUS
  <2>2. e \in emptied => \E f : e = [d EXCEPT !.single = f]
    OBVIOUS
  <2>3. e \in strayed => \E f : e = [d EXCEPT !.single = f]
    OBVIOUS
  <2>4. e \in mixed => \E f : e = [d EXCEPT !.single = f]
    OBVIOUS
  <2>5. e \in lost \/ e \in emptied \/ e \in strayed \/ e \in mixed
    BY <1>3 DEF WrongSingle
  <2> HIDE DEF lost, emptied, strayed, mixed
  <2> QED BY <1>1, <1>2, <1>3, <2>1, <2>2, <2>3, <2>4, <2>5
<1>4. CASE e \in WrongPayload(d)
  <2>1. ASSUME NEW s \in DOMAIN d.full, e = [d EXCEPT !.full = Without(@, s)]
        PROVE  FilesOK(e, r)
    <3>1. "full" \in DOMAIN e /\ e.full = Without(d.full, s)
      BY <2>1 DEF FilesOK
    <3> QED BY <3>1 DEF FilesOK, Without
  <2> QED BY <1>1, <1>2, <1>4, <2>1 DEF WrongPayload
<1>5. CASE e \in WrongApi(d)
  <2> DEFINE public == {WithApi(d, d.api \ {s}) : s \in d.api}
                         \cup {WithApi(d, d.api \cup {s}) : s \in DOMAIN d.full \ d.api}
             byPref == {[d EXCEPT !.byPref = Without(@, p)] : p \in DOMAIN d.byPref}
                         \cup (UNION {{[d EXCEPT !.byPref[p] = @ \cup {s}] : s \in d.api \ d.byPref[p]} : p \in DOMAIN d.byPref})
             counted == {[d EXCEPT !.dataset[p] = @ + 1] : p \in DOMAIN d.dataset}
             described == {[d EXCEPT !.documented = @ \ {p}] : p \in d.documented}
             total == {[d EXCEPT !.manifest.data = @ - 1]}
  <2>1. e \in public => \E f : e = WithApi(d, f)
    OBVIOUS
  <2>2. e \in byPref => \E f : e = [d EXCEPT !.byPref = f]
    OBVIOUS
  <2>3. e \in counted => \E f : e = [d EXCEPT !.dataset = f]
    OBVIOUS
  <2>4. e \in described => \E f : e = [d EXCEPT !.documented = f]
    OBVIOUS
  <2>5. e \in total => \E f : e = [d EXCEPT !.manifest = f]
    OBVIOUS
  <2>6. e \in public \/ e \in byPref \/ e \in counted \/ e \in described \/ e \in total
    BY <1>5 DEF WrongApi
  <2> HIDE DEF public, byPref, counted, described, total
  <2> QED BY <1>1, <1>2, <2>1, <2>2, <2>3, <2>4, <2>5, <2>6
<1>6. CASE \E p : e \in WrongList(d, p) \/ e \in WrongIndex(d, p)
  BY <1>1, <1>2, <1>6 DEF WrongList, WrongIndex
<1> QED
  BY <1>3, <1>4, <1>5, <1>6 DEF WrongData

\* Every school of an accepted output has its place.
LEMMA AcceptedShows ==
    ASSUME Accepted, \A s \in DOMAIN data.full : data.full[s].pref \in Prefs
    PROVE  \A s \in Located(data.full) :
             /\ s \in DOMAIN pages.school
             /\ pages.school[s].canonical = SchoolLoc(s) /\ pages.school[s].shows = s
             /\ s \in DOMAIN data.single /\ data.single[s].school = s
             /\ s \in pages.pref[data.full[s].pref].schools
<1> SUFFICES ASSUME NEW s \in Targets(data)
             PROVE  /\ s \in DOMAIN pages.school
                    /\ pages.school[s].canonical = SchoolLoc(s) /\ pages.school[s].shows = s
                    /\ s \in DOMAIN data.single /\ data.single[s].school = s
                    /\ s \in pages.pref[data.full[s].pref].schools
  BY DEF Targets
<1> DEFINE p == data.full[s].pref
<1>1. s \in In(data.full, p) \cap Targets(data) /\ p \in Prefs
  BY DEF Targets, Located, In
<1>2. p \in ActivePrefs(data)
  BY <1>1 DEF ActivePrefs
<1>3. /\ CheckSchoolData /\ CheckSchoolPage(s) /\ CheckPrefPage(p)
  BY <1>2 DEF Accepted
<1> QED BY <1>1, <1>3 DEF CheckSchoolData, CheckSchoolPage, CheckPrefPage

\* What the sitemap and the pages it names lead to is there.
LEMMA AcceptedLeads ==
    ASSUME Accepted
    PROVE  /\ DOMAIN pages.school = Located(data.full)
           /\ pages.sitemap \subseteq Published
           /\ \A l \in pages.sitemap :
                /\ l[1] = "pref" => l[2] \in pages.top /\ TownsLead(l[2], pages.pref[l[2]].cities)
                /\ l[1] = "city" => l[3] \in pages.pref[l[2]].cities /\ TownsLead(l[2], pages.city[l].near)
<1>1. pages.sitemap = Sitemap(data) /\ DOMAIN pages.school = Targets(data)
  BY DEF Accepted, CheckSitemap, CheckSchoolData
<1>2. /\ \A p \in ActivePrefs(data) : p \in DOMAIN pages.pref
      /\ \A l \in CityLocs(data) : l \in DOMAIN pages.city
  BY DEF Accepted, CheckPrefPage, CheckCityPage
<1>3. Sitemap(data) \subseteq Published
  BY <1>1, <1>2 DEF Sitemap, Published
<1>4. ASSUME NEW p \in ActivePrefs(data)
      PROVE  p \in pages.top /\ TownsLead(p, pages.pref[p].cities)
  <2>1. CheckPrefPage(p) /\ CheckTop
    BY DEF Accepted
  <2>2. \A c \in pages.pref[p].cities : CityLoc(p, c) \in Published
    BY <1>3, <2>1 DEF CheckPrefPage
  <2> QED BY <2>1, <2>2 DEF CheckTop, TownsLead
<1>5. ASSUME NEW l \in CityLocs(data)
      PROVE  l[1] = "city" /\ l[3] \in pages.pref[l[2]].cities /\ TownsLead(l[2], pages.city[l].near)
  <2>1. PICK p \in ActivePrefs(data) : \E c \in DOMAIN CityCounts(data.index[p]) : l = CityLoc(p, c)
    BY DEF CityLocs
  <2>2. PICK c \in DOMAIN CityCounts(data.index[p]) : l = CityLoc(p, c)
    BY <2>1
  <2>3. l[1] = "city" /\ l[2] = p /\ l[3] = c
    BY <2>2 DEF CityLoc
  <2>4. CheckPrefPage(p) /\ CheckCityPage(l)
    BY DEF Accepted
  <2>5. \A k \in pages.city[l].near : CityLoc(l[2], k) \in Sitemap(data)
    BY <2>4, Zenon DEF CheckCityPage
  <2>6. TownsLead(l[2], pages.city[l].near)
    BY <1>3, <2>5 DEF TownsLead
  <2>7. l[3] \in pages.pref[l[2]].cities
    BY <2>3, <2>4 DEF CheckPrefPage
  <2> QED BY <2>3, <2>6, <2>7
<1>6. ASSUME NEW l \in pages.sitemap
      PROVE  /\ l[1] = "pref" => l[2] \in pages.top /\ TownsLead(l[2], pages.pref[l[2]].cities)
             /\ l[1] = "city" => l[3] \in pages.pref[l[2]].cities /\ TownsLead(l[2], pages.city[l].near)
  <2>1. CASE l \in FixedLocs
    BY <2>1 DEF FixedLocs, TopLoc
  <2>2. CASE l \in {PrefLoc(p) : p \in ActivePrefs(data)}
    <3>1. l[1] = "pref" /\ l[2] \in ActivePrefs(data)
      BY <2>2 DEF PrefLoc
    <3> QED BY <1>4, <3>1
  <2>3. CASE l \in {SchoolLoc(s) : s \in Targets(data)}
    BY <2>3 DEF SchoolLoc
  <2>4. CASE l \in CityLocs(data)
    BY <1>5, <2>4
  <2> QED BY <1>1, <2>1, <2>2, <2>3, <2>4 DEF Sitemap
<1> QED BY <1>1, <1>3, <1>6 DEF Targets

\* The crumb of a municipality that the index names leads to its page.
LEMMA AcceptedCrumbs ==
    ASSUME Accepted, NEW s \in DOMAIN pages.school,
           \A t \in DOMAIN data.full : data.full[t].pref \in Prefs
    PROVE  TownCrumbLeads(s)
<1> DEFINE row == data.full[s]
           p == row.pref
           c == Resolve(row)
           crumbs == pages.school[s].crumbs
<1> SUFFICES ASSUME Len(crumbs) = 3, c \in DOMAIN CityCounts(data.index[p])
             PROVE  crumbs[3] \in Published
  BY DEF TownCrumbLeads
<1>1. s \in Targets(data)
  BY DEF Accepted, CheckSchoolData
<1>2. Len(crumbs) = Len(Crumbs(row)) /\ (Len(Crumbs(row)) = 3 => crumbs[3] = Crumbs(row)[3])
  BY <1>1 DEF Accepted, CheckSchoolPage
<1>3. Crumbs(row)[3] = CityLoc(p, c)
  <2>1. CASE c = Nothing
    <3>1. Crumbs(row) = <<TopLoc, PrefLoc(p)>>
      BY <2>1 DEF Crumbs
    <3>2. Len(Crumbs(row)) = 2
      BY <3>1
    <3> QED BY <1>2, <3>2
  <2>2. CASE c # Nothing
    <3>1. Crumbs(row) = <<TopLoc, PrefLoc(p), CityLoc(p, c)>>
      BY <2>2 DEF Crumbs
    <3> QED BY <3>1
  <2> QED BY <2>1, <2>2
<1>4. p \in ActivePrefs(data)
  BY <1>1 DEF ActivePrefs, Targets, Located, In
<1>5. CityLoc(p, c) \in CityLocs(data)
  BY <1>4 DEF CityLocs
<1>6. CityLoc(p, c) \in DOMAIN pages.city
  BY <1>5 DEF Accepted, CheckCityPage
<1> QED BY <1>2, <1>3, <1>6 DEF Published

\* What the full payload is worth until the gate decides, and what it makes of
\* the output.
WholeInv ==
    /\ DOMAIN rows \subseteq Schools /\ \A s \in DOMAIN rows : rows[s] \in Kinds
    /\ RowsOK(rows)
    /\ step \in {"rows", "stopped", "generated", "rendered", "refused", "accepted"}
    /\ faults \in 0..MaxFaults
    /\ step \in {"generated", "rendered", "accepted"} => FilesOK(data, rows)
    /\ AcceptedIsWhole

LEMMA WholeNext ==
    ASSUME SiteAssumption, WholeInv, [Next]_vars
    PROVE  WholeInv'
<1> USE DEF Goto
<1>1. CASE GenerateData
  <2>1. /\ UNCHANGED <<rows, faults>> /\ step' \in {"stopped", "generated"}
        /\ step' = "generated" => data' = Generate(rows)
    BY <1>1 DEF GenerateData
  <2>2. step' = "generated" => FilesOK(data', rows')
    BY <2>1, GeneratedFiles
  <2> QED BY <2>1, <2>2 DEF WholeInv, AcceptedIsWhole, SchoolsHaveTheirPlace
<1>2. CASE RenderPages
  <2>1. UNCHANGED <<rows, data, faults>> /\ step = "generated" /\ step' \in {"refused", "rendered"}
    BY <1>2 DEF RenderPages
  <2> QED BY <2>1 DEF WholeInv, AcceptedIsWhole, SchoolsHaveTheirPlace
<1>3. CASE GoWrong
  <2>1. UNCHANGED <<rows, step>> /\ step \in {"generated", "rendered"} /\ faults' \in 0..MaxFaults
    BY <1>3 DEF GoWrong, WholeInv, SiteAssumption
  <2>2. CASE step = "generated" /\ data' \in WrongData(data) /\ UNCHANGED pages
    <3>1. FilesOK(data', rows')
      BY <2>1, <2>2, WrongKeepsFiles DEF WholeInv
    <3> QED BY <2>1, <2>2, <3>1 DEF WholeInv, AcceptedIsWhole, SchoolsHaveTheirPlace
  <2>3. CASE step = "rendered" /\ pages' \in WrongPages(pages) /\ UNCHANGED data
    BY <2>1, <2>3 DEF WholeInv, AcceptedIsWhole, SchoolsHaveTheirPlace
  <2> QED BY <1>3, <2>2, <2>3 DEF GoWrong
<1>4. CASE Verify
  <2>1. /\ UNCHANGED <<rows, data, pages, faults>> /\ step = "rendered" /\ step' \in {"accepted", "refused"}
        /\ step' = "accepted" => Accepted
    BY <1>4 DEF Verify
  <2>2. \A s \in DOMAIN data.full : data.full[s].pref \in Prefs
    BY <2>1 DEF WholeInv, FilesOK, RowsOK
  <2>3. step' = "accepted" => AcceptedIsWhole'
    <3>1. ASSUME Accepted
          PROVE  /\ \A s \in Located(data.full) :
                      /\ s \in DOMAIN pages.school
                      /\ pages.school[s].canonical = SchoolLoc(s) /\ pages.school[s].shows = s
                      /\ s \in DOMAIN data.single /\ data.single[s].school = s
                      /\ s \in pages.pref[data.full[s].pref].schools
                 /\ DOMAIN pages.school = Located(data.full)
                 /\ pages.sitemap \subseteq Published
                 /\ \A l \in pages.sitemap :
                      /\ l[1] = "pref" => l[2] \in pages.top /\ TownsLead(l[2], pages.pref[l[2]].cities)
                      /\ l[1] = "city" => l[3] \in pages.pref[l[2]].cities /\ TownsLead(l[2], pages.city[l].near)
                 /\ \A s \in DOMAIN pages.school : TownCrumbLeads(s)
      BY <2>2, <3>1, AcceptedShows, AcceptedLeads, AcceptedCrumbs
    <3> QED BY <2>1, <3>1 DEF AcceptedIsWhole, SchoolsHaveTheirPlace, Published, TownsLead, TownCrumbLeads
  <2>4. step' = "refused" => AcceptedIsWhole'
    BY DEF AcceptedIsWhole, SchoolsHaveTheirPlace
  <2> QED BY <2>1, <2>3, <2>4 DEF WholeInv
<1>5. CASE UNCHANGED vars
  BY <1>5 DEF vars, WholeInv, AcceptedIsWhole, SchoolsHaveTheirPlace, Published, TownsLead, TownCrumbLeads
<1> QED BY <1>1, <1>2, <1>3, <1>4, <1>5 DEF Next

\* However many files went wrong, in an accepted output every located school of
\* the full payload has its page under its own address and about itself, its own
\* file, and its place on the list of its prefecture; no other school has a
\* page; what the sitemap names is there and reached from the top page, and its
\* lists of towns and the crumbs of towns the index knows lead to pages
\* (verify-static-output.mjs 555-810, 1064-1330).
THEOREM AcceptedStaysWhole == SiteAssumption => (Spec => [](TypeOK /\ AcceptedIsWhole))
<1> SUFFICES ASSUME SiteAssumption
             PROVE  Spec => [](TypeOK /\ AcceptedIsWhole)
  OBVIOUS
<1>1. Init => WholeInv
  <2> SUFFICES ASSUME Init
               PROVE  WholeInv
    OBVIOUS
  <2>1. RowsOK(rows)
    BY RowsAreOK DEF Init
  <2>2. DOMAIN rows \subseteq Schools /\ \A s \in DOMAIN rows : rows[s] \in Kinds
    BY DEF Init
  <2>3. faults \in 0..MaxFaults
    BY DEF Init, SiteAssumption
  <2> QED BY <2>1, <2>2, <2>3 DEF Init, WholeInv, AcceptedIsWhole, SchoolsHaveTheirPlace
<1>2. WholeInv /\ [Next]_vars => WholeInv'
  BY WholeNext
<1>3. WholeInv => TypeOK /\ AcceptedIsWhole
  BY DEF WholeInv, TypeOK, FilesOK
<1> QED BY <1>1, <1>2, <1>3, PTL DEF Spec

\* What is accepted is whole and its API is the gate's: the two theorems above
\* together.
THEOREM AcceptedStaysTrue == SiteAssumption => (Spec => []AcceptedIsTrue)
<1>1. TypeOK /\ AcceptedIsWhole /\ AcceptedApiIsTheGate => AcceptedIsTrue
  BY DEF AcceptedIsTrue
<1> QED BY <1>1, AcceptedStaysWhole, AcceptedApiStaysTheGate, PTL
=============================================================================
