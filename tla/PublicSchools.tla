---- MODULE PublicSchools ----
(***************************************************************************)
(* The public school data in one tab: the list that all useSchools share,  *)
(* the components that render it, and one school's detail                  *)
(* (useSchoolDetail), while new releases are deployed. A release is its    *)
(* number, its rows are Rows.                                              *)
(***************************************************************************)
EXTENDS Integers, FiniteSets
CONSTANTS Ids,         \* schools
          NoId,        \* no school asked for
          Releases,    \* bound: 1..n
          Rows,        \* of a release: [id, located]
          Components,  \* that use useSchools
          MaxGen,      \* bound: loads of the list before one falls back on it
          MaxOpen      \* bound: schools opened

PublicSchoolsAssumption ==
  /\ NoId \notin Ids /\ Releases \subseteq Nat \ {0}
  /\ MaxGen \in Nat /\ MaxOpen \in Nat

VARIABLES current,     \* the release that is deployed
          edge,        \* what the CDN keeps of one school's file under a version
          store,       \* the shared list
          view,        \* what components have rendered
          version,     \* the tab's promise of the version
          detail,      \* the detail that is shown
          opened
vars == <<current, edge, store, view, version, detail, opened>>

None == 0
Unasked == -2
Waiting == -1  \* for the manifest, asked or in a load
Plain == 0     \* the file without a version in its name
Snapshot(s) == [schools |-> s.cached, error |-> s.error]

\* mapSchoolRows: a school without a place is left out.
Mapped(rel) == {r.id : r \in {x \in Rows[rel] : x.located}}

(* The list. *)
\* loadSchools: kept or on its way, unless forced.
Load(s, force) ==
  IF ~force /\ (s.cached # None \/ s.inFlight # None) THEN s
  ELSE [s EXCEPT !.gen = @ + 1, !.inFlight = s.gen + 1, !.error = FALSE,
                 !.loads = @ \cup {[gen |-> s.gen + 1, force |-> force, url |-> Waiting]}]

\* Wrong on purpose: any answer is taken.
TakenAlways(s, l, rows) ==
  [s EXCEPT !.loads = @ \ {l}, !.inFlight = IF @ = l.gen THEN None ELSE @,
            !.cached = IF rows # None THEN rows ELSE @,
            !.error = (rows = None)]
\* The answer of a load: the newest one's is taken, an error keeps the rows.
Taken(s, l, rows) ==
  LET newest == l.gen = s.gen
  IN [cached |-> IF newest /\ rows # None THEN rows ELSE s.cached,
      error |-> IF newest THEN rows = None ELSE s.error,
      inFlight |-> IF s.inFlight = l.gen THEN None ELSE s.inFlight,
      gen |-> s.gen, loads |-> s.loads \ {l}]

\* emit: who has subscribed renders again.
Emitted(s) == [c \in Components |-> IF view[c].is = "subscribed" THEN [view[c] EXCEPT !.shown = Snapshot(s)] ELSE view[c]]
Emit(s) == store' = s /\ view' = Emitted(s)

Loadable == store.gen < MaxGen
Mount(c) == /\ view[c].is = "off"
            /\ view' = [view EXCEPT ![c] = [is |-> "rendered", shown |-> Snapshot(store)]]
            /\ UNCHANGED <<current, edge, store, version, detail, opened>>
\* The effect: it subscribes and loads, unless there is a list or a load.
Subscribe(c) ==
  /\ view[c].is = "rendered" /\ Loadable
  /\ LET s == Load(store, FALSE)
         on == [view EXCEPT ![c].is = "subscribed"]
     IN /\ store' = s
        /\ view' = IF s = store THEN on
                   ELSE [d \in Components |-> IF on[d].is = "subscribed" THEN [on[d] EXCEPT !.shown = Snapshot(s)] ELSE on[d]]
  /\ UNCHANGED <<current, edge, version, detail, opened>>
Unmount(c) == /\ view[c].is = "subscribed"
              /\ view' = [view EXCEPT ![c].is = "off"]
              /\ UNCHANGED <<current, edge, store, version, detail, opened>>
Reload(c) == /\ view[c].is = "subscribed" /\ Loadable
             /\ Emit(Load(store, TRUE))
             /\ UNCHANGED <<current, edge, version, detail, opened>>

\* The manifest names the file of its release; without it the plain file is
\* asked for.
ManifestAnswered ==
  /\ \E l \in store.loads :
       /\ l.url = Waiting
       /\ \E url \in {current, Plain} :
            store' = [store EXCEPT !.loads = (@ \ {l}) \cup {[l EXCEPT !.url = url]}]
  /\ UNCHANGED <<current, edge, view, version, detail, opened>>
\* The file of an older release may be gone, or kept by a cache. The answer of a
\* load that is no more the newest is not announced.
ListAnswered ==
  /\ \E l \in store.loads :
       /\ l.url # Waiting
       /\ \E rows \in {None, IF l.url = Plain THEN current ELSE l.url} :
            IF l.gen = store.gen THEN Emit(Taken(store, l, rows))
            ELSE store' = Taken(store, l, rows) /\ UNCHANGED view
  /\ UNCHANGED <<current, edge, version, detail, opened>>

(* One school. *)
NoDetail == [id |-> NoId]
\* Wrong on purpose: the values are labelled with the version asked for.
LabelledByVersion(id, rel, v) == [id |-> id, values |-> rel, generation |-> v]
\* toDetail: a file carries its own generation.
Labelled(id, rel, v) == [id |-> id, values |-> rel, generation |-> rel]

Cancelled(asks) == {}

\* The effect for a school: what was shown of another one is cleared.
Asked(d, id) ==
  LET changed == d.last # id
      cleared == IF changed THEN [d EXCEPT !.fetched = NoDetail, !.fallback = FALSE, !.last = id] ELSE d
  IN [cleared EXCEPT !.id = id, !.fetching = TRUE,
                     !.asks = Cancelled(@) \cup {[id |-> id, changed |-> changed]}]
Open(id) ==
  /\ id # detail.id /\ opened < MaxOpen /\ opened' = opened + 1
  /\ detail' = IF id = NoId THEN [detail EXCEPT !.id = NoId, !.asks = Cancelled(@)] ELSE Asked(detail, id)
  /\ version' = IF id # NoId /\ version = Unasked THEN Waiting ELSE version
  /\ UNCHANGED <<current, edge, store, view>>

\* The tab asks once for the version; 0 is an answer without one.
VersionAnswered ==
  /\ version = Waiting
  /\ version' \in {current, 0}
  /\ UNCHANGED <<current, edge, store, view, detail, opened>>
\* ensureSchoolsLoaded: nothing is announced when nothing had to be loaded.
FallsBack(s) == Load(s, FALSE)

\* One school's file: the CDN may keep what it once gave for a version.
DetailAnswered ==
  /\ \E a \in detail.asks :
       /\ version \notin {Unasked, Waiting}
       /\ LET me == [detail EXCEPT !.asks = @ \ {a}, !.fetching = FALSE]
              kept == {e \in edge : e.id = a.id /\ e.v = version}
          IN \/ \E rel \in {current} \cup {e.rel : e \in kept} :
                  /\ a.id \in Mapped(rel)
                  /\ detail' = [me EXCEPT !.fetched = Labelled(a.id, rel, version), !.fallback = FALSE]
                  /\ edge' = IF kept = {} /\ version # 0 THEN edge \cup {[id |-> a.id, v |-> version, rel |-> rel]} ELSE edge
                  /\ UNCHANGED <<store, view>>
             \/ /\ detail' = IF a.changed THEN [me EXCEPT !.fallback = TRUE] ELSE me
                /\ IF a.changed /\ FallsBack(store) # store THEN Emit(FallsBack(store)) ELSE UNCHANGED <<store, view>>
                /\ UNCHANGED edge
  /\ UNCHANGED <<current, version, opened>>

Deploy == /\ current + 1 \in Releases /\ current' = current + 1
          /\ UNCHANGED <<edge, store, view, version, detail, opened>>

NoList == [cached |-> None, error |-> FALSE, inFlight |-> None, gen |-> 0, loads |-> {}]
Embedded(e) == [id |-> NoId, fetched |-> e, fetching |-> FALSE, fallback |-> FALSE, last |-> e.id, asks |-> {}]

\* A page may come with its school embedded, by the release that rendered it.
Init ==
  /\ current \in Releases /\ edge = {} /\ version = Unasked /\ opened = 0
  /\ store = NoList
  /\ view = [c \in Components |-> [is |-> "off", shown |-> Snapshot(store)]]
  /\ \E e \in {NoDetail} \cup {Labelled(i, r, r) : i \in Ids, r \in 1..current} : detail = Embedded(e)

Next == \/ \E c \in Components : Mount(c) \/ Subscribe(c) \/ Unmount(c) \/ Reload(c)
        \/ ManifestAnswered \/ ListAnswered \/ VersionAnswered \/ DetailAnswered \/ Deploy
        \/ \E id \in Ids \cup {NoId} : Open(id)
Spec == Init /\ [][Next]_vars
\* Requests are answered, effects run.
FairSpec == Spec /\ WF_vars(ManifestAnswered) /\ WF_vars(ListAnswered) /\ WF_vars(VersionAnswered)
                 /\ WF_vars(DetailAnswered) /\ \A c \in Components : WF_vars(Subscribe(c))

\* What the hook returns for the school that is asked for.
FallbackSchool == IF detail.fallback /\ store.cached # None /\ detail.id \in Mapped(store.cached) THEN detail.id ELSE NoId
DetailLoading == IF detail.fallback THEN store.cached = None /\ ~store.error
                 ELSE detail.fetching /\ detail.fetched = NoDetail
\* The page shows the school, or says which of these it is.
PageShows == CASE detail.id = NoId \/ (detail.fallback /\ store.cached # None /\ ~store.error /\ FallbackSchool = NoId) -> "not found"
               [] FallbackSchool # NoId \/ (~detail.fallback /\ detail.fetched # NoDetail) -> "school"
               [] OTHER -> IF DetailLoading THEN "loading" ELSE IF detail.fallback /\ store.error THEN "error" ELSE "nothing"
----
\* The variables keep their shape.
TypeOK ==
  /\ current \in Releases /\ store.cached \in Releases \cup {None} /\ store.inFlight \in 0..store.gen
  /\ store.gen \in Nat /\ version \in Releases \cup {0, Unasked, Waiting}
  /\ \A l \in store.loads : l.url \in Releases \cup {Waiting, Plain}
  /\ detail.id \in Ids \cup {NoId} /\ detail.last \in Ids \cup {NoId}
  /\ \A c \in Components : view[c].is \in {"off", "rendered", "subscribed"}

\* What is shown as a school is that school, whatever was opened and closed
\* while answers were out, and its generation is that of its values
\* (useSchoolDetail.ts: never label old values with a newer manifest).
DetailIsOfItsSchool ==
  detail.id # NoId /\ detail.fetched # NoDetail =>
    /\ detail.fetched.id = detail.id
    /\ detail.fetched.generation = detail.fetched.values

\* A slow answer never replaces a newer list by an older one, and components
\* that mount while a load is out share it (useSchools.ts loadGeneration,
\* inFlight).
ListGoesOn ==
  /\ store'.cached >= store.cached
  /\ \A l \in store'.loads : l.gen > store.gen /\ ~l.force => \A k \in store.loads : k.gen # store.gen

\* A school that is shown stays shown, for a failure too, until another one is
\* opened (useSchoolDetail.ts 175).
DetailStays ==
  detail.id = detail'.id /\ detail.fetched # NoDetail => detail'.fetched # NoDetail /\ ~detail'.fallback

\* What has been read is not taken back, whatever answers come late.
NothingGoesBack == [][ListGoesOn /\ DetailStays]_vars
====
