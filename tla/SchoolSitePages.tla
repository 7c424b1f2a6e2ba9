---- MODULE SchoolSitePages ----
(***************************************************************************)
(* What gen-seo-pages.mjs writes into dist from the generated data: a page *)
(* per located school, per prefecture and per municipality, the top and    *)
(* hub pages, the page of the data set and the sitemap. A location is a    *)
(* tuple; a page is what verify-static-output.mjs reads out of it.         *)
(***************************************************************************)
EXTENDS SchoolSiteData

TopLoc == <<"top">>
SchoolLoc(s) == <<"school", s>>
PrefLoc(p) == <<"pref", p>>
CityLoc(p, c) == <<"city", p, c>>
FixedLocs == {TopLoc, <<"schools">>, <<"data">>, <<"about">>, <<"press">>, <<"legal">>, <<"guide">>}

\* The schools a page is made for, and the prefectures that have any.
Targets(data) == Located(data.full)
ActivePrefs(data) == {p \in Prefs : In(data.full, p) \cap Targets(data) # {}}

\* Wrong on purpose: the crumb names the city column as it is.
CrumbsOfColumn(r) == IF r.city = Nothing THEN <<TopLoc, PrefLoc(r.pref)>>
                     ELSE <<TopLoc, PrefLoc(r.pref), CityLoc(r.pref, r.city)>>

\* Home, prefecture, municipality when there is one, school: every step but
\* the last carries the location it names.
Crumbs(r) == IF Resolve(r) = Nothing THEN <<TopLoc, PrefLoc(r.pref)>>
             ELSE <<TopLoc, PrefLoc(r.pref), CityLoc(r.pref, Resolve(r))>>

\* A school's page is rendered from its own file.
SchoolPage(data, s) ==
  LET single == data.single[s]
  IN [canonical |-> SchoolLoc(s), shows |-> single.school, crumbs |-> Crumbs(data.full[s]),
      links |-> single.neighbors \cup single.successors \cup single.linkable]

PrefPage(index) == [schools |-> DOMAIN index.entries, cities |-> DOMAIN CityCounts(index)]

\* The entries of a municipality feed the page and its description alike.
CityPage(index, c) ==
  LET here == {s \in DOMAIN index.entries : index.entries[s].c = c}
      entries == [s \in here |-> index.entries[s]]
  IN [schools |-> here, counted |-> CityCounts(index)[c], near |-> DOMAIN CityCounts(index) \ {c},
      dept |-> HasReliableDeptData(entries)]

\* Where the script throws: no school, a file missing, an index that is not
\* of the same schools.
PagesRefused(data) ==
  \/ Targets(data) = {}
  \/ \E s \in Targets(data) : s \notin DOMAIN data.single
  \/ \E p \in ActivePrefs(data) :
       \/ p \notin DOMAIN data.index
       \/ Cardinality(DOMAIN data.index[p].entries) # Cardinality(In(data.full, p) \cap Targets(data))

CityLocs(data) == UNION {{CityLoc(p, c) : c \in DOMAIN CityCounts(data.index[p])} : p \in ActivePrefs(data)}

Sitemap(data) == FixedLocs \cup {PrefLoc(p) : p \in ActivePrefs(data)} \cup CityLocs(data)
                   \cup {SchoolLoc(s) : s \in Targets(data)}

Render(data) ==
  [school |-> [s \in Targets(data) |-> SchoolPage(data, s)],
   pref |-> [p \in ActivePrefs(data) |-> PrefPage(data.index[p])],
   city |-> [l \in CityLocs(data) |-> CityPage(data.index[l[2]], l[3])],
   top |-> ActivePrefs(data), hub |-> ActivePrefs(data), covered |-> TRUE,
   coverage |-> <<Cardinality(DOMAIN data.dataset), Cardinality(data.api)>>,
   sitemap |-> Sitemap(data)]
NoPages == [school |-> <<>>, pref |-> <<>>, city |-> <<>>, top |-> {}, hub |-> {}, covered |-> FALSE,
            coverage |-> <<0, 0>>, sitemap |-> {}]
====
