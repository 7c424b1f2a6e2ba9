---- MODULE SchoolSiteData ----
(***************************************************************************)
(* What gen-schools-json.mjs writes for a list of school rows: the full    *)
(* payload, the payload of the map, the indexes, one file per school, one  *)
(* per prefecture, and the public API. Pure operators: a file is the set   *)
(* or function a reader gets out of it, a school is its id, and ids are    *)
(* numbers because ties are broken by the order of the ids.                *)
(***************************************************************************)
EXTENDS Integers, FiniteSets
CONSTANTS Prefs,        \* the prefectures of web/data/prefectures.json
          Munis,        \* the municipalities of each, as municipalities.json has them
          Nothing,      \* null
          Other,        \* the heading of schools of no municipality
          Nowhere,      \* the place of a school without coordinates
          NeighborMax, FillTarget, FillKm, MinCount

SiteConstants == /\ Munis \in [Prefs -> SUBSET STRING]
                        /\ {NeighborMax, FillTarget, FillKm, MinCount} \subseteq Nat

\* A row is [pref, city, addr, at, url, corr, dept, pred]: the city column,
\* the municipality its address begins with, its place on a line, whether it
\* has an official URL, teaches by correspondence only, has departments, and
\* its predecessor. The rows are a function from the ids of active schools.
Located(rows) == {s \in DOMAIN rows : rows[s].at # Nowhere}
In(rows, p) == {s \in DOMAIN rows : rows[s].pref = p}

\* The municipality of a row: its city column, or else its address.
Resolve(r) == CASE r.city \in Munis[r.pref] -> r.city
                [] r.city \notin Munis[r.pref] /\ r.addr \in Munis[r.pref] -> r.addr
                [] OTHER -> Nothing

CityIndex(rows) ==
  {[pref |-> k[1], city |-> k[2],
    count |-> Cardinality({s \in Located(rows) \cap In(rows, k[1]) : Resolve(rows[s]) = k[2]})] :
     k \in {<<rows[s].pref, Resolve(rows[s])>> :
              s \in {t \in Located(rows) : Resolve(rows[t]) # Nothing}}}

NameIndex(rows) == Located(rows)

(* The public API: active schools with an official URL, and no others. *)
Public(rows) == {s \in DOMAIN rows : rows[s].url}
ApiByPref(rows, public) == [p \in {q \in Prefs : In(rows, q) \cap public # {}} |-> In(rows, p) \cap public]
Dataset(byPref) == [p \in DOMAIN byPref |-> Cardinality(byPref[p])]
\* A prefecture none of whose schools is public stops the generation.
WholePrefectureMissing(rows) ==
  \E p \in Prefs : In(rows, p) # {} /\ In(rows, p) \cap Public(rows) = {}

(* Nearby schools: those of the same city, then others within FillKm, then *)
(* any others up to MinCount; always the nearest first.                    *)
Km(rows, s, t) == IF rows[s].at > rows[t].at THEN rows[s].at - rows[t].at ELSE rows[t].at - rows[s].at
Before(rows, s, t, u) == \/ Km(rows, s, t) < Km(rows, s, u)
                         \/ Km(rows, s, t) = Km(rows, s, u) /\ t < u
Nearest(rows, s, S, k) == {t \in S : Cardinality({u \in S : Before(rows, s, u, t)}) < k}
SameCity(rows, s) ==
  {t \in Located(rows) \ {s} : /\ rows[s].city # Nothing
                               /\ rows[t].pref = rows[s].pref
                               /\ rows[t].city = rows[s].city}
\* Wrong on purpose: a remote school keeps only what lies within FillKm.
SelectNear(rows, s) ==
  LET first == Nearest(rows, s, SameCity(rows, s), NeighborMax)
  IN first \cup Nearest(rows, s, {t \in (Located(rows) \ {s}) \ first : Km(rows, s, t) <= FillKm},
                        FillTarget - Cardinality(first))

SelectNeighbors(rows, s) ==
  LET same == SameCity(rows, s)
      others == (Located(rows) \ {s}) \ same
      near == {t \in others : Km(rows, s, t) <= FillKm}
      first == Nearest(rows, s, same, NeighborMax)
      filled == first \cup Nearest(rows, s, near, FillTarget - Cardinality(first))
  IN filled \cup Nearest(rows, s, others \ filled, MinCount - Cardinality(filled))

SuccessorsOf(rows, s) == {t \in Located(rows) : rows[t].pred = s}

Single(rows, s) ==
  [school |-> s, neighbors |-> SelectNeighbors(rows, s), successors |-> SuccessorsOf(rows, s),
   linkable |-> {rows[s].pred} \cap Located(rows)]

(* The light index of a prefecture, from which its pages are rendered. *)
IndexCity(r) == CASE Resolve(r) # Nothing -> Resolve(r)
                  [] Resolve(r) = Nothing /\ r.city # Nothing -> r.city
                  [] OTHER -> Other
CompactAddress(r, city) == IF city = Other THEN Nothing ELSE r.addr
Entry(r) == [c |-> IndexCity(r), a |-> CompactAddress(r, IndexCity(r)),
             dg |-> r.dept, corr |-> r.corr]
PrefIndex(rows, p) ==
  [cities |-> {e.city : e \in {d \in CityIndex(rows) : d.pref = p}},
   entries |-> [s \in In(rows, p) \cap Located(rows) |-> Entry(rows[s])]]
CityCounts(index) ==
  [c \in {d \in index.cities : \E s \in DOMAIN index.entries : index.entries[s].c = d} |->
     Cardinality({s \in DOMAIN index.entries : index.entries[s].c = c})]

(* Departments are named only where at least nine schools in ten that do   *)
(* not teach by correspondence alone have them.                            *)
HasReliableDeptData(entries) ==
  LET counted == {s \in DOMAIN entries : ~entries[s].corr}
  IN /\ counted # {}
     /\ 10 * Cardinality({s \in counted : entries[s].dg}) >= 9 * Cardinality(counted)

\* Everything one run writes; the manifest is its count fields and url lists.
Generate(rows) ==
  [full |-> rows, map |-> DOMAIN rows, names |-> NameIndex(rows), cities |-> CityIndex(rows),
   manifest |-> [count |-> Cardinality(DOMAIN rows), data |-> Cardinality(Located(rows)),
                 split |-> {p \in Prefs : In(rows, p) # {}},
                 index |-> {p \in Prefs : In(rows, p) \cap Located(rows) # {}}],
   single |-> [s \in Located(rows) |-> Single(rows, s)],
   split |-> [p \in {q \in Prefs : In(rows, q) # {}} |-> In(rows, p)],
   index |-> [p \in {q \in Prefs : In(rows, q) \cap Located(rows) # {}} |-> PrefIndex(rows, p)],
   api |-> Public(rows), byPref |-> ApiByPref(rows, Public(rows)),
   dataset |-> Dataset(ApiByPref(rows, Public(rows))),
   documented |-> DOMAIN ApiByPref(rows, Public(rows))]
====
