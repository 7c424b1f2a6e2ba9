---- MODULE SchoolSite ----
(***************************************************************************)
(* The gate in front of a publication: data is generated, pages are        *)
(* rendered from it, and verify-static-output.mjs reads everything that    *)
(* came out and accepts or refuses it. Between the steps a file may turn   *)
(* out wrong: a generator that lost or mixed up something, a page that was *)
(* not written. What the gate must not do is accept such an output.        *)
(***************************************************************************)
EXTENDS SchoolSitePages, Sequences
CONSTANTS Schools,      \* ids, as numbers
          Kinds,        \* the rows a school may have
          MaxFaults     \* bound: wrong files per build
VARIABLES rows, data, pages, step, faults
vars == <<rows, data, pages, step, faults>>

\* Finitely many schools, whose places and prefectures are known, and limits
\* that do not undercut the gate's: neighbors.ts 31-37 has 15 of the same city
\* and at least 3 in all.
SiteAssumption ==
  /\ SiteConstants
  /\ Schools \subseteq Nat /\ IsFiniteSet(Schools)
  /\ \A r \in Kinds : r.pref \in Prefs /\ (r.at # Nowhere => r.at \in Int)
  /\ 3 <= NeighborMax /\ 3 <= MinCount /\ MaxFaults \in Nat

Init == /\ rows \in UNION {[S -> Kinds] : S \in SUBSET Schools}
        /\ data = Nothing
        /\ pages = NoPages
        /\ step = "rows"
        /\ faults = 0

Goto(s) == step' = s

\* gen-schools-json.mjs
GenerateData ==
  /\ step = "rows"
  /\ IF WholePrefectureMissing(rows)
     THEN Goto("stopped") /\ UNCHANGED data
     ELSE Goto("generated") /\ data' = Generate(rows)
  /\ UNCHANGED <<rows, pages, faults>>

\* gen-seo-pages.mjs
RenderPages ==
  /\ step = "generated"
  /\ IF PagesRefused(data)
     THEN Goto("refused") /\ UNCHANGED pages
     ELSE Goto("rendered") /\ pages' = Render(data)
  /\ UNCHANGED <<rows, data, faults>>

Without(f, x) == [y \in DOMAIN f \ {x} |-> f[y]]
Replaced(f, x, v) == [f EXCEPT ![x] = v]
With(f, x, v) == [y \in DOMAIN f \cup {x} |-> IF y = x THEN v ELSE f[y]]

\* The public API about the schools S, everywhere at once.
WithApi(d, S) == [d EXCEPT !.api = S, !.byPref = ApiByPref(d.full, S),
                           !.dataset = Dataset(ApiByPref(d.full, S)),
                           !.documented = DOMAIN ApiByPref(d.full, S)]

\* Data files of which one is wrong: a school's own file, which may also name a
\* neighbour that has no page, one of the payloads of all schools, a list of
\* one prefecture, the API or the manifest.
WrongSingle(d) ==
  {[d EXCEPT !.single = Without(@, s)] : s \in DOMAIN d.single}
    \cup {[d EXCEPT !.single = Replaced(@, s, [@[s] EXCEPT !.neighbors = {}])] : s \in DOMAIN d.single}
    \cup {[d EXCEPT !.single[s].neighbors = @ \cup {t}] : s \in DOMAIN d.single, t \in Schools}
    \cup (UNION {{[d EXCEPT !.single = Replaced(@, s, d.single[t])] : s \in DOMAIN d.single} : t \in DOMAIN d.single})

WrongPayload(d) ==
  {[d EXCEPT !.names = @ \ {s}] : s \in d.names}
    \cup {[d EXCEPT !.map = @ \ {s}] : s \in d.map}
    \cup {[d EXCEPT !.full = Without(@, s)] : s \in DOMAIN d.full}

WrongList(d, p) ==
  {[d EXCEPT !.split[p] = @ \ {s}] : s \in d.split[p]}
    \cup {[d EXCEPT !.split[p] = (@ \ {s}) \cup {t}] : s \in d.split[p], t \in DOMAIN d.full}
WrongIndex(d, p) ==
  {[d EXCEPT !.index[p].entries = Without(@, s)] : s \in DOMAIN d.index[p].entries}
    \cup {[d EXCEPT !.index[p].cities = @ \ {c}] : c \in d.index[p].cities}

WrongApi(d) ==
  {WithApi(d, d.api \ {s}) : s \in d.api}
    \cup {WithApi(d, d.api \cup {s}) : s \in DOMAIN d.full \ d.api}
    \cup {[d EXCEPT !.byPref = Without(@, p)] : p \in DOMAIN d.byPref}
    \cup (UNION {{[d EXCEPT !.byPref[p] = @ \cup {s}] : s \in d.api \ d.byPref[p]} : p \in DOMAIN d.byPref})
    \cup {[d EXCEPT !.dataset[p] = @ + 1] : p \in DOMAIN d.dataset}
    \cup {[d EXCEPT !.documented = @ \ {p}] : p \in d.documented}
    \cup {[d EXCEPT !.manifest.data = @ - 1]}

WrongData(d) == WrongSingle(d) \cup WrongPayload(d) \cup WrongApi(d)
                  \cup (UNION {WrongList(d, p) : p \in DOMAIN d.split})
                  \cup (UNION {WrongIndex(d, p) : p \in DOMAIN d.index})

\* Places that may have no page, and what stands on a page left over from an
\* older build.
Strays == {PrefLoc(p) : p \in Prefs} \cup {CityLoc(p, Other) : p \in Prefs}
OldSchool(s) == [canonical |-> SchoolLoc(s), shows |-> s, crumbs |-> <<TopLoc>>, links |-> Schools]
OldPref == [schools |-> Schools, cities |-> {Other}]
OldCity == [schools |-> Schools, counted |-> 0, near |-> {Other}, dept |-> FALSE]

\* Pages of which one is missing, left over or another's, lacks a link or has
\* one too many, be there a page at its end or none.
WrongSchoolPages(g) ==
  {[g EXCEPT !.school = Without(@, s)] : s \in DOMAIN g.school}
    \cup {[g EXCEPT !.school = With(@, s, OldSchool(s))] : s \in Schools \ DOMAIN g.school}
    \cup {[g EXCEPT !.school = Replaced(@, s, g.school[t])] : s, t \in DOMAIN g.school}
    \cup {[g EXCEPT !.school[s].shows = t] : s \in DOMAIN g.school, t \in Schools}
    \cup {[g EXCEPT !.school[s].links = {}] : s \in DOMAIN g.school}
    \cup {[g EXCEPT !.school[s].links = @ \cup {t}] : s \in DOMAIN g.school, t \in Schools}
    \cup {[g EXCEPT !.school[s].crumbs[2] = l] : s \in DOMAIN g.school, l \in Strays}
    \cup {[g EXCEPT !.school[s].crumbs = <<@[1], @[2], l>>] : s \in DOMAIN g.school, l \in Strays}
WrongPrefPages(g) ==
  {[g EXCEPT !.pref = Without(@, p)] : p \in DOMAIN g.pref}
    \cup {[g EXCEPT !.pref = With(@, p, OldPref)] : p \in Prefs \ DOMAIN g.pref}
    \cup (UNION {{[g EXCEPT !.pref[p].schools = @ \ {s}] : s \in g.pref[p].schools} : p \in DOMAIN g.pref})
    \cup {[g EXCEPT !.pref[p].schools = @ \cup {s}] : p \in DOMAIN g.pref, s \in Schools}
    \cup (UNION {{[g EXCEPT !.pref[p].cities = @ \ {c}] : c \in g.pref[p].cities} : p \in DOMAIN g.pref})
    \cup {[g EXCEPT !.pref[p].cities = @ \cup {Other}] : p \in DOMAIN g.pref}
WrongCityPages(g) ==
  {[g EXCEPT !.city = Without(@, l)] : l \in DOMAIN g.city}
    \cup {[g EXCEPT !.city = With(@, CityLoc(p, Other), OldCity)] : p \in Prefs}
    \cup (UNION {{[g EXCEPT !.city[l].schools = @ \ {s}] : s \in g.city[l].schools} : l \in DOMAIN g.city})
    \cup {[g EXCEPT !.city[l].near = @ \cup {Other}] : l \in DOMAIN g.city}
    \cup {[g EXCEPT !.city[l].dept = ~@] : l \in DOMAIN g.city}
WrongLists(g) ==
  {[g EXCEPT !.top = @ \ {p}] : p \in g.top}
    \cup {[g EXCEPT !.sitemap = @ \ {l}] : l \in g.sitemap}
    \cup {[g EXCEPT !.sitemap = @ \cup {l}] : l \in Strays \cup {SchoolLoc(s) : s \in Schools}}
    \cup {[g EXCEPT !.covered = FALSE]}
WrongPages(g) == WrongSchoolPages(g) \cup WrongPrefPages(g) \cup WrongCityPages(g) \cup WrongLists(g)

GoWrong ==
  /\ faults < MaxFaults
  /\ faults' = faults + 1
  /\ \/ /\ step = "generated"
        /\ data' \in WrongData(data)
        /\ UNCHANGED pages
     \/ /\ step = "rendered"
        /\ pages' \in WrongPages(pages)
        /\ UNCHANGED data
  /\ UNCHANGED <<rows, step>>

(* verify-static-output.mjs, check by check. *)
Least(a, b) == IF a < b THEN a ELSE b
MinLinks == Least(3, Cardinality(Targets(data)) - 1)

CheckPayloads ==
  /\ Cardinality(DOMAIN data.full) = data.manifest.count
  /\ Cardinality(data.map) = data.manifest.count
  /\ pages.covered
  /\ Cardinality(data.names) = Cardinality(Targets(data))

CheckSitemap == pages.sitemap = Sitemap(data)

CheckSchoolData ==
  /\ DOMAIN pages.school = Targets(data)
  /\ Cardinality(DOMAIN data.single) = Cardinality(Targets(data))
  /\ data.manifest.data = Cardinality(Targets(data))
  /\ \A s \in Targets(data) :
       /\ s \in DOMAIN data.single
       /\ data.single[s].school = s
       /\ Cardinality(data.single[s].neighbors) >= MinLinks

\* A record counts once for every file it is in.
SplitRecords == UNION {{<<p, s>> : s \in data.split[p]} : p \in ActivePrefs(data)}
CheckSplit ==
  /\ \A p \in ActivePrefs(data) :
       /\ p \in data.manifest.split /\ p \in DOMAIN data.split
       /\ Cardinality(data.split[p]) = Cardinality(In(data.full, p))
  /\ Cardinality(SplitRecords) = Cardinality(DOMAIN data.full)

CheckPrefIndex ==
  \A p \in ActivePrefs(data) :
    /\ p \in data.manifest.index
    /\ Cardinality(DOMAIN data.index[p].entries) = Cardinality(In(data.full, p) \cap Targets(data))

\* The gate of the generator is asked again, about the full payload.
CheckPublicApi == data.api = Public(data.full)

\* The number of records over all files, a school in two files counted twice.
CheckPrefApi ==
  /\ {p \in Prefs : In(data.full, p) # {}} \subseteq DOMAIN data.byPref
  /\ \A p \in DOMAIN data.byPref : data.byPref[p] \subseteq In(data.full, p)
  /\ UNION {data.byPref[p] : p \in DOMAIN data.byPref} = data.api
  /\ \A p, q \in DOMAIN data.byPref : p # q => data.byPref[p] \cap data.byPref[q] = {}
  /\ data.dataset = Dataset(data.byPref)
CheckOpenApi == data.documented = DOMAIN data.byPref

\* Of the crumbs only the number and the one of the municipality are compared,
\* of the links only how many lead to other schools.
CheckSchoolPage(s) ==
  LET page == pages.school[s]
      crumbs == Crumbs(data.full[s])
  IN /\ page.canonical = SchoolLoc(s) /\ page.shows = s
     /\ Len(page.crumbs) = Len(crumbs)
     /\ Len(crumbs) = 3 => page.crumbs[3] = crumbs[3]
     /\ Cardinality(page.links \ {s}) >= MinLinks

CheckTop == ActivePrefs(data) \subseteq pages.top /\ ActivePrefs(data) \subseteq pages.hub

\* Wrong on purpose: the towns that should be linked are asked for, and not
\* whether others are linked too.
CheckPrefPageHasLinks(p) ==
  /\ p \in DOMAIN pages.pref
  /\ In(data.full, p) \cap Targets(data) \subseteq pages.pref[p].schools
  /\ DOMAIN CityCounts(data.index[p]) \subseteq pages.pref[p].cities

CheckPrefPage(p) ==
  /\ p \in DOMAIN pages.pref
  /\ In(data.full, p) \cap Targets(data) \subseteq pages.pref[p].schools
  /\ DOMAIN CityCounts(data.index[p]) \subseteq pages.pref[p].cities
  /\ \A c \in pages.pref[p].cities : CityLoc(p, c) \in Sitemap(data)

CheckCityPage(l) ==
  LET index == data.index[l[2]]
      here == {s \in DOMAIN index.entries : index.entries[s].c = l[3]}
  IN /\ l \in DOMAIN pages.city
     /\ Cardinality(here) = CityCounts(index)[l[3]]
     /\ here \subseteq pages.city[l].schools
     /\ \A c \in pages.city[l].near : CityLoc(l[2], c) \in Sitemap(data)
     /\ pages.city[l].dept = HasReliableDeptData([s \in here |-> index.entries[s]])

CheckDataPage == pages.coverage = <<Cardinality(DOMAIN data.dataset), Cardinality(data.api)>>

Accepted ==
  /\ CheckPayloads /\ CheckSitemap /\ CheckSchoolData /\ CheckSplit /\ CheckPrefIndex
  /\ CheckPublicApi /\ CheckPrefApi /\ CheckOpenApi
  /\ \A s \in Targets(data) : CheckSchoolPage(s)
  /\ CheckTop
  /\ \A p \in ActivePrefs(data) : CheckPrefPage(p)
  /\ \A l \in CityLocs(data) : CheckCityPage(l)
  /\ CheckDataPage

Verify == /\ step = "rendered"
          /\ Goto(IF Accepted THEN "accepted" ELSE "refused")
          /\ UNCHANGED <<rows, data, pages, faults>>

Next == GenerateData \/ RenderPages \/ GoWrong \/ Verify
Spec == Init /\ [][Next]_vars

----
\* The variables keep their shape.
TypeOK ==
  /\ DOMAIN rows \subseteq Schools /\ \A s \in DOMAIN rows : rows[s] \in Kinds
  /\ step \in {"rows", "stopped", "generated", "rendered", "refused", "accepted"}
  /\ faults \in 0..MaxFaults
  /\ step \in {"generated", "rendered", "accepted"} => DOMAIN data.full \subseteq DOMAIN rows

\* The split by prefecture is only summed over prefectures that have pages.
EveryPrefectureHasPages == \A s \in DOMAIN rows : \E t \in Located(rows) : rows[t].pref = rows[s].pref

\* The gate lets every output through that its own generators made: a school
\* of no municipality, a school far from all others, a town where only
\* correspondence is taught. It refuses only rows of which no page comes, and
\* a prefecture none of whose schools has coordinates
\* (gen-schools-json.mjs 213-640, gen-seo-pages.mjs, verify-static-output.mjs).
CleanIsAccepted ==
  step = "refused" /\ faults = 0 => Located(rows) = {} \/ ~EveryPrefectureHasPages

\* The pages a reader can be sent to.
Published == FixedLocs \cup {SchoolLoc(s) : s \in DOMAIN pages.school}
               \cup {PrefLoc(p) : p \in DOMAIN pages.pref} \cup DOMAIN pages.city

\* Whatever went wrong before, every located school of an accepted full payload
\* has its page under its own address and about itself, its own file, and a
\* place on the list of its prefecture (verify-static-output.mjs 640-760,
\* 1064-1110, 1201-1205).
SchoolsHaveTheirPlace ==
  step = "accepted" =>
    \A s \in Located(data.full) :
      /\ s \in DOMAIN pages.school
      /\ pages.school[s].canonical = SchoolLoc(s) /\ pages.school[s].shows = s
      /\ s \in DOMAIN data.single /\ data.single[s].school = s
      /\ s \in pages.pref[data.full[s].pref].schools

\* The links of a list to towns of p lead to pages.
TownsLead(p, towns) == \A c \in towns : CityLoc(p, c) \in Published

\* The crumb of the municipality leads to a page, unless the index of the
\* prefecture does not know the municipality: the gate asks for the pages of
\* municipalities that the index names.
TownCrumbLeads(s) ==
  LET row == data.full[s]
      crumbs == pages.school[s].crumbs
  IN Len(crumbs) = 3 =>
       crumbs[3] \in Published \/ Resolve(row) \notin DOMAIN CityCounts(data.index[row.pref])

\* Whatever went wrong before, an output that was accepted is whole about its
\* own full payload: there is a page for each located school and for no other;
\* the sitemap names only pages that are there, those of prefectures and
\* municipalities are reached from the top page, and their lists of towns lead
\* to pages; and so does a school's crumb of its municipality, but for one the
\* index lost. Nothing is said of the links between schools, which the gate
\* counts and does not follow, nor of pages of prefectures and municipalities
\* left over, which it does not look for (verify-static-output.mjs 669-719,
\* 1097-1146, 1170-1290).
AcceptedIsWhole ==
  /\ SchoolsHaveTheirPlace
  /\ step = "accepted" =>
       /\ DOMAIN pages.school = Located(data.full)
       /\ pages.sitemap \subseteq Published
       /\ \A l \in pages.sitemap :
            /\ l[1] = "pref" => l[2] \in pages.top /\ TownsLead(l[2], pages.pref[l[2]].cities)
            /\ l[1] = "city" => l[3] \in pages.pref[l[2]].cities /\ TownsLead(l[2], pages.city[l].near)
       /\ \A s \in DOMAIN pages.school : TownCrumbLeads(s)

\* Whatever went wrong before, the public API of an accepted output has every
\* school the gate lets in and no other, once in the list of all schools and
\* once in the file of its prefecture, and its description counts them right
\* (verify-static-output.mjs 838-1060; the comment at 879-881).
AcceptedApiIsTheGate ==
  step = "accepted" =>
    /\ data.api = Public(data.full)
    /\ \A s \in data.api : {p \in DOMAIN data.byPref : s \in data.byPref[p]} = {data.full[s].pref}
    /\ \A p \in DOMAIN data.byPref : data.byPref[p] \subseteq data.api
    /\ data.dataset = [p \in data.documented |-> Cardinality(data.byPref[p])]

\* Whatever went wrong before, an output that was accepted is whole: every
\* located school has its page, its file and its place on the list, the sitemap
\* and the lists of towns lead to pages (verify-static-output.mjs 555-810,
\* 1064-1330), and the public API has every school the gate lets in, once, and
\* no other, counted right (838-1060).
AcceptedIsTrue == TypeOK /\ AcceptedIsWhole /\ AcceptedApiIsTheGate

\* Without a fault every breadcrumb leads to a page that is there: the page
\* of a municipality comes from the index of its prefecture, the crumb from
\* the row (gen-seo-pages.mjs renderSchoolPage, buildCityCounts).
CrumbsResolve ==
  step = "accepted" /\ faults = 0 =>
    \A s \in DOMAIN pages.school : \A i \in DOMAIN pages.school[s].crumbs :
      pages.school[s].crumbs[i] \in Published

\* A school without coordinates is listed in the API and in the payload of
\* the map but has no page, no index entry and no link to it anywhere
\* (gen-schools-json.mjs detailRows, linkableSchoolIds; selectNeighbors).
UnlocatedIsNotLinked ==
  step = "accepted" /\ faults = 0 =>
    \A s \in DOMAIN rows \ Located(rows) :
      /\ \A t \in DOMAIN pages.school : s \notin pages.school[t].links
      /\ \A p \in DOMAIN pages.pref : s \notin pages.pref[p].schools

\* Without a fault every breadcrumb and link leads to a page that is there, and
\* a school without coordinates is linked from nowhere: pages of municipalities
\* come from the index of the prefecture, crumbs from the row, neighbours from
\* distances (gen-seo-pages.mjs renderSchoolPage, buildCityCounts;
\* gen-schools-json.mjs linkableSchoolIds).
CleanLinksResolve == CrumbsResolve /\ UnlocatedIsNotLinked
====
