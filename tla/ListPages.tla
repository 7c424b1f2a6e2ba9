---- MODULE ListPages ----
(***************************************************************************)
(* The lists of schools of a prefecture and of a municipality              *)
(* (PrefecturePage, CityPage) in one tab.  The page comes with its list    *)
(* embedded or not, reads the index of the prefecture (loadPrefIndex) and  *)
(* stays mounted from one prefecture to the next, while releases are       *)
(* deployed.  An effect runs before the next event: an action is an event  *)
(* with its effects.  Open sections and the scroll position are left out.  *)
(***************************************************************************)
EXTENDS Integers, Sequences, SequencesExt, FiniteSets
CONSTANTS Null,
          Prefs,     \* prefectures, by their slug
          Cities,    \* names of municipalities asked for, known or not
          Releases,  \* bound: 1..n
          Index,     \* of a release and prefecture: [cities, schools]
          Texts,     \* what is typed into the search
          Occurs,    \* pairs of a text and the id or the heading it occurs in
          Span,      \* CITY_SIBLING_SPAN
          MaxLoads   \* bound: answers that are out

Away == [is |-> "away"]
Places == [is : {"pref"}, pref : Prefs] \cup [is : {"city"}, pref : Prefs, city : Cities]
Other == "other"  \* UNRESOLVED_CITY
Axes == {"ownership", "course", "gender", "dept", "integrated"}

ListPagesAssumption ==
  /\ IsFiniteSet(Releases) /\ Releases = 1..Cardinality(Releases) /\ Span \in Nat /\ MaxLoads \in Nat \ {0}
  /\ {Null, Other} \cap Cities = {} /\ Null \notin Places
  /\ \A r \in Releases, p \in Prefs :
       /\ Index[r][p].cities # Null /\ ToSet(Index[r][p].cities) \subseteq Cities
       /\ \A s \in Index[r][p].schools :
            /\ DOMAIN s = {"id", "city", "tags"} /\ s.city \in Cities \cup {Null}
            /\ \A a \in Axes : IsFiniteSet(s.tags[a])

VARIABLES release,   \* that is deployed
          embedded,  \* getInitialData: in the document the tab was opened with
          page,      \* what the mounted page holds
          loads      \* answers that are out
vars == <<release, embedded, page, loads>>

(* The index. *)
\* expandPrefSchool: what is not said is full time, and for all.
Expanded(schools) ==
  {[s EXCEPT !.tags = [@ EXCEPT !["course"] = IF @ = {} THEN {"fulltime"} ELSE @,
                                !["gender"] = IF @ = {} THEN {"coed"} ELSE @]] : s \in schools}
\* buildCityCounts: the municipalities that have a school, each at its place in
\* the order.  A school outside the municipalities listed is in none of them.
CityCounts(index) ==
  [i \in {j \in DOMAIN index.cities : \E s \in index.schools : s.city = index.cities[j]} |-> index.cities[i]]

ListOf(place, index) ==
  Expanded(IF place.is = "pref" THEN index.schools
           ELSE {s \in index.schools : s.city = place.city})
HeadsOf(place, index) == IF place.is = "pref" THEN index.cities ELSE CityCounts(index)

(* The page. *)
NoChips == [a \in Axes |-> {}]
NoList == [at |-> Away, last |-> Null, list |-> {}, heads |-> Null, loading |-> TRUE,
           failed |-> FALSE, chosen |-> NoChips, typed |-> Null]
Filled(p, place, index) ==
  [p EXCEPT !.list = ListOf(place, index), !.heads = HeadsOf(place, index),
            !.loading = FALSE, !.failed = FALSE]
\* initialPrefState, initialCityState: what is embedded is of this very place.
Boot(place) ==
  IF embedded # Null /\ embedded.of = place
  THEN Filled([NoList EXCEPT !.last = place], place, Index[embedded.by][place.pref])
  ELSE NoList

\* Another place than the one before: its list goes.
Cleared(p, place) ==
  [p EXCEPT !.last = place, !.list = {}, !.heads = Null, !.loading = TRUE, !.failed = FALSE]
\* Wrong on purpose: answers of the place before count.
StillLive(ls) == ls
\* The cleanup of the effect.
Cancelled(ls) == {[l EXCEPT !.live = FALSE] : l \in ls}

\* The effect of a place: it loads, whether something was embedded or not.
\* Chips and text of another place are forgotten.
Go(place) ==
  LET same == place.is = page.at.is
      here == IF same THEN page ELSE IF place = Away THEN NoList ELSE Boot(place)
      changed == here.last # place
      kept == [(IF changed THEN Cleared(here, place) ELSE here) EXCEPT
                 !.at = place, !.chosen = NoChips, !.typed = Null]
  IN /\ place # page.at
     /\ IF place = Away THEN page' = NoList /\ loads' = Cancelled(loads)
        ELSE /\ Cardinality(loads) < MaxLoads
             /\ page' = kept
             /\ loads' = Cancelled(loads) \cup
                           {[of |-> place, changed |-> changed, asked |-> release, live |-> TRUE]}
     /\ UNCHANGED <<release, embedded>>

\* loadPrefIndex: the manifest is not cached, so the index is none older than
\* the release it was asked in.
Taken(p, place, index) == Filled(p, place, index)
\* A list that is drawn outlives the failure of its reload.
Failed(p, l) ==
  IF l.changed THEN [p EXCEPT !.loading = FALSE, !.failed = TRUE, !.list = {}, !.heads = <<>>]
  ELSE [p EXCEPT !.loading = FALSE]
Answered(l) ==
  /\ l \in loads /\ loads' = loads \ {l}
  /\ IF ~l.live THEN UNCHANGED page
     ELSE \/ \E r \in l.asked..release : page' = Taken(page, l.of, Index[r][l.of.pref])
          \/ page' = Failed(page, l)
  /\ UNCHANGED <<release, embedded>>

(* Chips and search. *)
\* hasReliableDeptData: nine schools of ten that are not correspondence only.
ReliableDepts(list) ==
  LET counted == {s \in list : s.tags["course"] # {"correspondence"}}
      covered == {s \in counted : s.tags["dept"] # {}}
  IN counted # {} /\ 10 * Cardinality(covered) >= 9 * Cardinality(counted)
\* A chip is offered if a school has it.
Offered(list) ==
  {c \in Axes \X UNION {s.tags[a] : s \in list, a \in Axes} :
     /\ \E s \in list : c[2] \in s.tags[c[1]]
     /\ c[1] = "dept" => ReliableDepts(list)}
\* One of an axis, on every axis that is chosen on.
Matches(s, chosen) == \A a \in Axes : chosen[a] = {} \/ s.tags[a] \cap chosen[a] # {}

Shows == page.at # Away /\ ~page.loading /\ ~page.failed
ToggleChip(c) ==
  /\ Shows /\ c \in Offered(page.list)
  /\ page' = [page EXCEPT !.chosen[c[1]] = IF c[2] \in @ THEN @ \ {c[2]} ELSE @ \cup {c[2]}]
  /\ UNCHANGED <<release, embedded, loads>>
ClearChips ==
  /\ Shows /\ page.chosen # NoChips
  /\ page' = [page EXCEPT !.chosen = NoChips]
  /\ UNCHANGED <<release, embedded, loads>>
Type(text) ==
  /\ Shows /\ page.at.is = "pref" /\ text # page.typed
  /\ page' = [page EXCEPT !.typed = text]
  /\ UNCHANGED <<release, embedded, loads>>

(* What is drawn. *)
Label(s) == IF s.city = Null THEN Other ELSE s.city
\* The sections of a prefecture: only what the index lists has a page.
Groups ==
  IF page.heads = Null THEN {}
  ELSE {[label |-> l, schools |-> {s \in page.list : Label(s) = l},
         hasPage |-> l \in ToSet(page.heads)] : l \in {Label(s) : s \in page.list}}
Hit(s, label) == page.typed = Null \/ <<page.typed, label>> \in Occurs \/ <<page.typed, s.id>> \in Occurs
\* While something is typed, sections without a hit are not drawn.
Visible ==
  LET kept == {[g EXCEPT !.schools = {s \in @ : Matches(s, page.chosen) /\ Hit(s, g.label)}] : g \in Groups}
  IN {g \in kept : page.typed = Null \/ g.schools # {}}
CityShown == {s \in page.list : Matches(s, page.chosen)}
Listed == IF page.at.is = "pref" THEN UNION {g.schools : g \in Visible} ELSE CityShown

\* A municipality the index does not know; before it is read nobody can tell.
NotFound == /\ page.at.is = "city" /\ page.heads # Null /\ DOMAIN page.heads # {}
            /\ page.at.city \notin ToSet(page.heads)
\* selectCitySiblings: those before and after it.
Siblings ==
  IF page.heads = Null \/ page.at.city \notin ToSet(page.heads) THEN {}
  ELSE LET i == CHOOSE j \in DOMAIN page.heads : page.heads[j] = page.at.city
           Apart(j) == Cardinality({k \in DOMAIN page.heads : (i < k /\ k <= j) \/ (j <= k /\ k < i)})
       IN {page.heads[j] : j \in {k \in DOMAIN page.heads \ {i} : Apart(k) <= Span}}

Deploy == /\ release + 1 \in Releases /\ release' = release + 1
          /\ UNCHANGED <<embedded, page, loads>>

\* A tab is opened anywhere; a prerendered page has its list embedded.
Init ==
  /\ release \in Releases /\ page = NoList /\ loads = {}
  /\ embedded \in {Null} \cup {e \in [of : Places, by : 1..release] :
                               e.of.is = "city" => ListOf(e.of, Index[e.by][e.of.pref]) # {}}

Next == \/ \E place \in Places \cup {Away} : Go(place)
        \/ \E l \in loads : Answered(l)
        \/ \E c \in Offered(page.list) : ToggleChip(c)
        \/ ClearChips \/ Deploy
        \/ \E text \in Texts \cup {Null} : Type(text)
Spec == Init /\ [][Next]_vars
----
\* The variables keep their shape.
ListTypeOK ==
  /\ release \in Releases /\ page.at \in Places \cup {Away}
  /\ Cardinality({l \in loads : l.live}) <= 1
  /\ \A a \in Axes : IsFiniteSet(page.chosen[a])

OfIndex(r) == /\ page.list = ListOf(page.at, Index[r][page.at.pref])
              /\ page.heads = HeadsOf(page.at, Index[r][page.at.pref])

\* A list that is shown is that of its place in one release, complete, and
\* until it is there, or when it failed, nothing of the place before is left,
\* whatever was visited while answers were out (PrefecturePage.tsx 133-168).
\* "Not found" is only said of a municipality an index really lacks, never
\* because it is not read yet or could not be (CityPage.tsx 160).
ListIsOfItsPlace ==
  /\ Shows => \E r \in 1..release : OfIndex(r)
  /\ page.at # Away /\ ~Shows => page.list = {}
  /\ NotFound => \E r \in 1..release : page.at.city \notin ToSet(CityCounts(Index[r][page.at.pref]))

\* Without chips and text every school of the prefecture is in one section;
\* a section's link leads to a page that lists the very same schools, one of
\* a neighbour to a page that lists some (PrefecturePage.tsx 188-199,
\* CityPage.tsx 144-147).
LinksLeadToLists ==
  Shows => \E r \in 1..release :
    LET index == Index[r][page.at.pref]
        There(city) == ListOf([is |-> "city", pref |-> page.at.pref, city |-> city], index)
    IN /\ OfIndex(r)
       /\ page.at.is = "pref" =>
            /\ page.chosen = NoChips /\ page.typed = Null => Listed = page.list
            /\ \A g \in Groups : g.hasPage => There(g.label) = g.schools
       /\ page.at.is = "city" => \A c \in Siblings : There(c) # {}

\* A reader of the lists is shown what was asked for: the two above.
ShownAsAskedFor == ListIsOfItsPlace /\ LinksLeadToLists
====
