------------------------ MODULE PublicSchoolsProofs ------------------------
(***************************************************************************)
(* What the lists and pages of schools keep for any schools, releases and  *)
(* components, however often a list is reloaded and a school opened, and   *)
(* in whichever order answers come.                                        *)
(*                                                                         *)
(* The list: only the newest load may set it, and what a load was told to  *)
(* fetch is no older than what was there when it was told.  The school:    *)
(* what was fetched belongs to the school opened last, since opening       *)
(* another one clears it and drops the answers of the one before.          *)
(*                                                                         *)
(* Then the pages of lists (ListPages), the move of the site to its new    *)
(* address with the login that returns (SiteMove), the search on the top   *)
(* page (PlaceSearch), and the reports of the content policy (CspReport).  *)
(***************************************************************************)
EXTENDS PublicSchools, Sequences, FiniteSetTheorems, TLAPS

-----------------------------------------------------------------------------
(* The list.                                                               *)

Releases0 == Releases \cup {None}
Load0 == [gen : Nat \ {0}, force : BOOLEAN, url : Releases \cup {Waiting, Plain}]
Stores == [cached : Releases0, error : BOOLEAN, inFlight : Nat, gen : Nat, loads : SUBSET Load0]

\* A load in flight is the newest, and there is one if any answer that would
\* be taken is out; an answer that would be taken is no older than the list.
ListOK(s, now) ==
  /\ s \in Stores /\ s.cached <= now
  /\ s.inFlight \in {None, s.gen}
  /\ \A l \in s.loads : /\ l.gen <= s.gen
                        /\ l.url <= now
                        /\ l.gen = s.gen => s.inFlight = s.gen
                        /\ l.gen = s.gen /\ l.url \notin {Waiting, Plain} => s.cached <= l.url
  /\ \A k, l \in s.loads : k.gen = l.gen => k = l

\* What becomes of the list in a step.
GoesOn(s, t) ==
  /\ t.cached >= s.cached
  /\ \A l \in t.loads : l.gen > s.gen /\ ~l.force => \A k \in s.loads : k.gen # s.gen

\* The fields of a list.
LEMMA ListTypes ==
  ASSUME PublicSchoolsAssumption, NEW s, NEW now \in Releases, ListOK(s, now)
  PROVE  /\ now \in Nat \ {0} /\ s.cached \in Releases0 /\ s.cached \in Nat /\ s.gen \in Nat
         /\ \A l \in s.loads : l \in Load0 /\ l.gen \in Nat \ {0} /\ l.url \in Int
<1>1. s.cached \in Releases0 /\ s.gen \in Nat /\ s.loads \subseteq Load0
  <2>1. s \in Stores
    BY DEF ListOK
  <2> QED BY <2>1 DEF Stores
<1>2. now \in Nat \ {0} /\ \A r \in Releases : r \in Nat /\ r \in Int
  BY DEF PublicSchoolsAssumption
<1>3. s.cached \in Nat
  <2>1. s.cached = None \/ s.cached \in Releases
    BY <1>1 DEF Releases0
  <2>2. CASE s.cached = None
    BY <2>2 DEF None
  <2>3. CASE s.cached \in Releases
    BY <1>2, <2>3, Zenon
  <2> QED BY <2>1, <2>2, <2>3
<1>4. ASSUME NEW l \in s.loads
      PROVE  l \in Load0 /\ l.gen \in Nat \ {0} /\ l.url \in Int
  <2>1. l \in Load0
    BY <1>1
  <2>2. l.gen \in Nat \ {0} /\ l.url \in Releases \cup {Waiting, Plain}
    BY <2>1 DEF Load0
  <2>3. Waiting \in Int /\ Plain \in Int
    BY DEF Waiting, Plain
  <2> QED BY <1>2, <2>1, <2>2, <2>3
<1> QED BY <1>1, <1>2, <1>3, <1>4

\* A load is added, under a generation no load has, unless one is in flight or
\* there is a list (useSchools.ts 316-321).
LEMMA LoadKeeps ==
  ASSUME PublicSchoolsAssumption, NEW s, NEW now \in Releases, NEW force \in BOOLEAN, ListOK(s, now)
  PROVE  ListOK(Load(s, force), now) /\ GoesOn(s, Load(s, force))
<1>1. CASE ~force /\ (s.cached # None \/ s.inFlight # None)
  <2>1. Load(s, force) = s
    BY <1>1 DEF Load
  <2>2. s.cached \in Int /\ \A l \in s.loads : ~(l.gen > s.gen)
    BY ListTypes DEF ListOK
  <2> QED BY <2>1, <2>2 DEF GoesOn
<1>2. CASE ~(~force /\ (s.cached # None \/ s.inFlight # None))
  <2> DEFINE l == [gen |-> s.gen + 1, force |-> force, url |-> Waiting]
             t == Load(s, force)
  <2>1. t = [s EXCEPT !.gen = @ + 1, !.inFlight = s.gen + 1, !.error = FALSE, !.loads = @ \cup {l}]
    BY <1>2, Zenon DEF Load
  <2>2. t = [cached |-> s.cached, error |-> FALSE, inFlight |-> s.gen + 1, gen |-> s.gen + 1,
             loads |-> s.loads \cup {l}]
    BY <2>1 DEF ListOK, Stores
  <2>3. l \in Load0 /\ s.gen \in Nat /\ s.cached \in Int /\ now \in Int
    <3>1. s.gen + 1 \in Nat \ {0} /\ Waiting \in Releases \cup {Waiting, Plain}
      BY ListTypes
    <3> QED BY <3>1, ListTypes DEF Load0
  <2>4. \A k \in s.loads : k.gen \in Nat /\ k.gen <= s.gen
    BY ListTypes DEF ListOK
  <2>5. t \in Stores
    BY <2>2, <2>3 DEF ListOK, Stores
  <2>6. \A k, m \in t.loads : k.gen = m.gen => k = m
    BY <2>2, <2>3, <2>4 DEF ListOK
  <2>7. ASSUME NEW k \in t.loads
        PROVE  /\ k.gen <= t.gen /\ k.url <= now
               /\ k.gen = t.gen => t.inFlight = t.gen
               /\ k.gen = t.gen /\ k.url \notin {Waiting, Plain} => t.cached <= k.url
    <3>1. CASE k = l
      BY <2>2, <2>3, <3>1 DEF Waiting, PublicSchoolsAssumption
    <3>2. CASE k \in s.loads
      BY <2>2, <2>3, <2>4, <3>2 DEF ListOK
    <3> QED BY <2>2, <2>7, <3>1, <3>2
  <2>8. ListOK(t, now)
    BY <2>2, <2>3, <2>5, <2>6, <2>7 DEF ListOK
  <2>9. GoesOn(s, t)
    <3>1. \A k \in t.loads : k.gen > s.gen => k = l
      BY <2>2, <2>4, <2>3
    <3>2. ~force => \A k \in s.loads : k.gen # s.gen
      BY <1>2, <2>3, <2>4 DEF ListOK, None, Load0, Stores
    <3> QED BY <2>2, <2>3, <3>1, <3>2 DEF GoesOn
  <2> QED BY <2>8, <2>9
<1> QED BY <1>1, <1>2

\* An answer that comes back changes the list if it is the newest load's, and
\* then to what that load was told to fetch, or to what is deployed.
LEMMA TakenKeeps ==
  ASSUME PublicSchoolsAssumption, NEW s, NEW now \in Releases, ListOK(s, now), NEW l \in s.loads,
         l.url # Waiting, NEW rows \in {None, IF l.url = Plain THEN now ELSE l.url}
  PROVE  ListOK(Taken(s, l, rows), now) /\ GoesOn(s, Taken(s, l, rows))
<1> DEFINE t == Taken(s, l, rows)
           newest == l.gen = s.gen
<1>1. t = [cached |-> IF newest /\ rows # None THEN rows ELSE s.cached,
           error |-> IF newest THEN rows = None ELSE s.error,
           inFlight |-> IF s.inFlight = l.gen THEN None ELSE s.inFlight,
           gen |-> s.gen, loads |-> s.loads \ {l}]
  BY Zenon DEF Taken
<1>2. l \in Load0 /\ s.gen \in Nat /\ s.cached \in Releases0 /\ s.cached \in Int /\ now \in Int
  BY ListTypes
<1>3. rows \in Releases0 /\ rows <= now /\ rows \in Int
  <2>1. l.url \in Releases \cup {Plain} /\ l.url <= now
    BY <1>2 DEF ListOK, Load0
  <2>2. rows = None \/ rows = now \/ (rows = l.url /\ l.url # Plain)
    OBVIOUS
  <2> QED BY <1>2, <2>1, <2>2 DEF Releases0, None, PublicSchoolsAssumption
<1>4. newest /\ rows # None => s.cached <= rows
  BY <1>2 DEF ListOK, None, Plain
<1>5. t \in Stores
  <2>1. s.inFlight \in Nat /\ s.error \in BOOLEAN /\ s.loads \subseteq Load0
    BY DEF ListOK, Stores
  <2>2. t.cached \in Releases0 /\ t.error \in BOOLEAN /\ t.inFlight \in Nat /\ t.loads \subseteq Load0
    <3>1. /\ t.cached = IF newest /\ rows # None THEN rows ELSE s.cached
          /\ t.error = IF newest THEN rows = None ELSE s.error
          /\ t.inFlight = IF s.inFlight = l.gen THEN None ELSE s.inFlight
          /\ t.loads = s.loads \ {l}
      BY <1>1
    <3>2. t.cached \in Releases0 /\ t.loads \subseteq Load0
      BY <1>2, <1>3, <2>1, <3>1
    <3>3. t.inFlight \in Nat
      BY <2>1, <3>1 DEF None
    <3>4. t.error \in BOOLEAN
      <4>1. CASE newest
        BY <3>1, <4>1, Zenon
      <4>2. CASE ~newest
        BY <2>1, <3>1, <4>2, Zenon
      <4> QED BY <4>1, <4>2
    <3> QED BY <3>2, <3>3, <3>4
  <2> QED BY <1>1, <1>2, <2>2 DEF Stores
<1>6. \A k \in t.loads : k \in s.loads /\ k.gen # l.gen
  BY <1>1 DEF ListOK
<1>7. t.inFlight \in {None, t.gen} /\ t.cached <= now
  BY <1>1, <1>2, <1>3 DEF ListOK
<1>8. ASSUME NEW k \in t.loads
      PROVE  /\ k.gen <= t.gen /\ k.url <= now
             /\ k.gen = t.gen => t.inFlight = t.gen
             /\ k.gen = t.gen /\ k.url \notin {Waiting, Plain} => t.cached <= k.url
  BY <1>1, <1>6, <1>8 DEF ListOK
<1>9. ListOK(t, now)
  BY <1>1, <1>5, <1>6, <1>7, <1>8 DEF ListOK
<1>10. GoesOn(s, t)
  <2>1. \A k \in t.loads : ~(k.gen > s.gen)
    BY <1>2, <1>6 DEF ListOK, Load0, Stores
  <2> QED BY <1>1, <1>2, <1>3, <1>4, <2>1 DEF GoesOn
<1> QED BY <1>9, <1>10

\* The manifest tells a load what to fetch: what is deployed, or the plain file.
LEMMA ToldKeeps ==
  ASSUME PublicSchoolsAssumption, NEW s, NEW now \in Releases, ListOK(s, now), NEW l \in s.loads,
         l.url = Waiting, NEW url \in {now, Plain}
  PROVE  LET t == [s EXCEPT !.loads = (@ \ {l}) \cup {[l EXCEPT !.url = url]}]
         IN  ListOK(t, now) /\ GoesOn(s, t)
<1> DEFINE m == [l EXCEPT !.url = url]
           t == [s EXCEPT !.loads = (@ \ {l}) \cup {m}]
<1>1. s \in Stores /\ l \in Load0 /\ s.gen \in Nat /\ s.cached \in Int /\ now \in Nat \ {0}
  BY ListTypes DEF ListOK
<1>2. m = [gen |-> l.gen, force |-> l.force, url |-> url] /\ m \in Load0
  <2>1. m = [gen |-> l.gen, force |-> l.force, url |-> url]
    BY <1>1 DEF Load0
  <2>2. url \in Releases \cup {Waiting, Plain} /\ l.gen \in Nat \ {0} /\ l.force \in BOOLEAN
    BY <1>1 DEF Load0
  <2> QED BY <2>1, <2>2 DEF Load0
<1>3. t = [cached |-> s.cached, error |-> s.error, inFlight |-> s.inFlight, gen |-> s.gen,
           loads |-> (s.loads \ {l}) \cup {m}]
  BY <1>1 DEF Stores
<1>4. t \in Stores
  BY <1>1, <1>2, <1>3 DEF Stores
<1>5. \A k \in t.loads : k = m \/ (k \in s.loads /\ k.gen # l.gen)
  BY <1>3 DEF ListOK
<1>6. \A j, k \in t.loads : j.gen = k.gen => j = k
  BY <1>2, <1>5 DEF ListOK
<1>7. ASSUME NEW k \in t.loads
      PROVE  /\ k.gen <= t.gen /\ k.url <= now
             /\ k.gen = t.gen => t.inFlight = t.gen
             /\ k.gen = t.gen /\ k.url \notin {Waiting, Plain} => t.cached <= k.url
  <2>1. CASE k = m
    <3>1. k.gen = l.gen /\ k.url = url /\ t.gen = s.gen /\ t.inFlight = s.inFlight /\ t.cached = s.cached
      BY <1>2, <1>3, <2>1
    <3>2. l.gen <= s.gen /\ (l.gen = s.gen => s.inFlight = s.gen) /\ s.cached <= now
      BY DEF ListOK
    <3>3. url <= now /\ (url # Plain => url = now)
      BY <1>1 DEF Plain
    <3> QED BY <3>1, <3>2, <3>3
  <2>2. CASE k \in s.loads
    BY <1>3, <2>2 DEF ListOK
  <2> QED BY <1>5, <1>7, <2>1, <2>2
<1>8. ListOK(t, now)
  BY <1>1, <1>3, <1>4, <1>6, <1>7 DEF ListOK
<1>9. GoesOn(s, t)
  <2>1. \A k \in t.loads : k.gen \in Nat
    BY <1>4 DEF Stores, Load0
  <2>2. t.gen = s.gen /\ t.cached = s.cached
    BY <1>3
  <2> HIDE DEF t
  <2>3. \A k \in t.loads : ~(k.gen > s.gen)
    BY <1>1, <1>7, <2>1, <2>2
  <2> QED BY <1>1, <2>2, <2>3 DEF GoesOn
<1> QED BY <1>8, <1>9

\* A newer release makes nothing that was fetched newer than what is deployed.
LEMMA DeployKeeps ==
  ASSUME PublicSchoolsAssumption, NEW s, NEW now \in Releases, ListOK(s, now), now + 1 \in Releases
  PROVE  ListOK(s, now + 1)
<1>1. s.cached \in Int /\ now \in Int /\ \A l \in s.loads : l.url \in Int
  BY ListTypes
<1> QED BY <1>1 DEF ListOK

-----------------------------------------------------------------------------
(* The school that is shown.                                               *)

Ids0 == Ids \cup {NoId}
Fetched == {NoDetail} \cup [id : Ids, values : Nat, generation : Nat]
Asks == [id : Ids, changed : BOOLEAN]
Details == [id : Ids0, fetched : Fetched, fetching : BOOLEAN, fallback : BOOLEAN,
            last : Ids0, asks : SUBSET Asks]

\* What was fetched is of the school opened last, as long as the page is on a
\* school that is the one; the one answer still awaited is of the school that
\* is open, and if it would fall back, nothing is fetched.
DetailOK(d) ==
  /\ d \in Details
  /\ d.id # NoId => d.last = d.id
  /\ d.fetched # NoDetail =>
       d.fetched.id = d.last /\ d.fetched.generation = d.fetched.values /\ ~d.fallback
  /\ \A a \in d.asks : a.id = d.id /\ (a.changed => d.fetched = NoDetail)
  /\ \A a, b \in d.asks : a = b

\* A school that is shown stays shown in a step that opens no other.
StaysShown(d, e) ==
  d.id = e.id /\ d.fetched # NoDetail => e.fetched # NoDetail /\ ~e.fallback

\* A detail with these fields.
Is(d, i, f, g, b, l, a) ==
  /\ d = [id |-> d.id, fetched |-> d.fetched, fetching |-> d.fetching,
          fallback |-> d.fallback, last |-> d.last, asks |-> d.asks]
  /\ d.id = i /\ d.fetched = f /\ d.fetching = g /\ d.fallback = b /\ d.last = l /\ d.asks = a

\* One field is set at a time.
LEMMA DetailSets ==
  ASSUME NEW d, NEW i, NEW f, NEW g, NEW b, NEW l, NEW a, Is(d, i, f, g, b, l, a), NEW v
  PROVE  /\ Is([d EXCEPT !.id = v], v, f, g, b, l, a)
         /\ Is([d EXCEPT !.fetched = v], i, v, g, b, l, a)
         /\ Is([d EXCEPT !.fetching = v], i, f, v, b, l, a)
         /\ Is([d EXCEPT !.fallback = v], i, f, g, v, l, a)
         /\ Is([d EXCEPT !.last = v], i, f, g, b, v, a)
         /\ Is([d EXCEPT !.asks = v], i, f, g, b, l, v)
BY DEF Is

\* What makes a detail.
LEMMA DetailIn ==
  ASSUME NEW d, NEW i \in Ids0, NEW f \in Fetched, NEW g \in BOOLEAN, NEW b \in BOOLEAN,
         NEW l \in Ids0, NEW a \in SUBSET Asks, Is(d, i, f, g, b, l, a)
  PROVE  d \in Details
BY DEF Is, Details

\* A detail has these fields.
LEMMA DetailTypes ==
  ASSUME NEW d, DetailOK(d)
  PROVE  /\ Is(d, d.id, d.fetched, d.fetching, d.fallback, d.last, d.asks)
         /\ d.id \in Ids0 /\ d.fetched \in Fetched /\ d.fetching \in BOOLEAN
         /\ d.fallback \in BOOLEAN /\ d.last \in Ids0 /\ d.asks \in SUBSET Asks
BY DEF DetailOK, Details, Is

\* An answer has come: it is no longer awaited.
LEMMA AnsweredIs ==
  ASSUME NEW d, DetailOK(d), NEW a \in d.asks
  PROVE  Is([d EXCEPT !.asks = @ \ {a}, !.fetching = FALSE],
            d.id, d.fetched, FALSE, d.fallback, d.last, {})
<1> DEFINE m == [d EXCEPT !.asks = d.asks \ {a}]
<1>1. Is(m, d.id, d.fetched, d.fetching, d.fallback, d.last, d.asks \ {a})
  BY DetailTypes, DetailSets
<1>2. [d EXCEPT !.asks = @ \ {a}, !.fetching = FALSE] = [m EXCEPT !.fetching = FALSE]
  OBVIOUS
<1>3. d.asks \ {a} = {}
  BY DEF DetailOK
<1> HIDE DEF m
<1>4. Is([m EXCEPT !.fetching = FALSE], d.id, d.fetched, FALSE, d.fallback, d.last, d.asks \ {a})
  BY <1>1, DetailSets
<1> QED BY <1>2, <1>3, <1>4, Zenon

\* What a file gives is labelled as its own generation.
LEMMA LabelledIs ==
  ASSUME PublicSchoolsAssumption, NEW id \in Ids, NEW rel \in Nat, NEW v
  PROVE  /\ Labelled(id, rel, v) \in Fetched /\ Labelled(id, rel, v) # NoDetail
         /\ Labelled(id, rel, v).id = id
         /\ Labelled(id, rel, v).generation = Labelled(id, rel, v).values
<1>1. Labelled(id, rel, v) = [id |-> id, values |-> rel, generation |-> rel]
  BY DEF Labelled
<1>2. id # NoId
  BY DEF PublicSchoolsAssumption
<1>3. Labelled(id, rel, v).id # NoDetail.id
  BY <1>1, <1>2 DEF NoDetail
<1> QED BY <1>1, <1>3 DEF Fetched

\* Another school, or none, is opened (useSchoolDetail.ts 158-168).
LEMMA OpenKeeps ==
  ASSUME PublicSchoolsAssumption, NEW d, DetailOK(d), NEW id \in Ids0, id # d.id,
         NEW e, e = IF id = NoId THEN [d EXCEPT !.id = NoId, !.asks = Cancelled(@)] ELSE Asked(d, id)
  PROVE  DetailOK(e) /\ StaysShown(d, e)
<1>1. CASE id = NoId
  <2> DEFINE m == [d EXCEPT !.id = NoId]
  <2>1. Is(m, NoId, d.fetched, d.fetching, d.fallback, d.last, d.asks)
    BY DetailTypes, DetailSets
  <2>2. e = [m EXCEPT !.asks = {}]
    BY <1>1 DEF Cancelled
  <2> HIDE DEF m
  <2>3. Is(e, NoId, d.fetched, d.fetching, d.fallback, d.last, {})
    <3>1. Is([m EXCEPT !.asks = {}], NoId, d.fetched, d.fetching, d.fallback, d.last, {})
      BY <2>1, DetailSets
    <3> QED BY <2>2, <3>1, Zenon
  <2>4. e \in Details
    <3>1. NoId \in Ids0 /\ {} \in SUBSET Asks
      BY DEF Ids0
    <3> QED BY <2>3, <3>1, DetailTypes, DetailIn
  <2>5. /\ e.id = NoId /\ e.asks = {} /\ e.fetched = d.fetched
        /\ e.last = d.last /\ e.fallback = d.fallback
    BY <2>3 DEF Is
  <2> QED BY <1>1, <2>4, <2>5 DEF DetailOK, StaysShown
<1>2. CASE id # NoId
  <2> DEFINE changed == d.last # id
             ask == [id |-> id, changed |-> changed]
             f == IF changed THEN NoDetail ELSE d.fetched
             b == IF changed THEN FALSE ELSE d.fallback
             cleared == IF changed THEN [d EXCEPT !.fetched = NoDetail, !.fallback = FALSE, !.last = id] ELSE d
  <2>1. Is(cleared, d.id, f, d.fetching, b, id, d.asks)
    <3>1. CASE changed
      <4> DEFINE m == [d EXCEPT !.fetched = NoDetail]
                 n == [m EXCEPT !.fallback = FALSE]
      <4>1. Is(m, d.id, NoDetail, d.fetching, d.fallback, d.last, d.asks)
        BY DetailTypes, DetailSets
      <4>2. cleared = [n EXCEPT !.last = id]
        BY <3>1
      <4> HIDE DEF m, cleared
      <4>3. Is(n, d.id, NoDetail, d.fetching, FALSE, d.last, d.asks)
        BY <4>1, DetailSets
      <4> HIDE DEF n
      <4>4. Is(cleared, d.id, NoDetail, d.fetching, FALSE, id, d.asks)
        BY <4>2, <4>3, DetailSets
      <4>5. f = NoDetail /\ b = FALSE
        BY <3>1, Zenon
      <4> QED BY <4>4, <4>5, Zenon
    <3>2. CASE ~changed
      <4>1. cleared = d /\ f = d.fetched /\ b = d.fallback /\ d.last = id
        BY <3>2, Zenon
      <4> QED BY <4>1, DetailTypes, Zenon
    <3> QED BY <3>1, <3>2
  <2>2. Is(e, id, f, TRUE, b, id, {ask})
    <3> DEFINE m == [cleared EXCEPT !.id = id]
               n == [m EXCEPT !.fetching = TRUE]
    <3>1. e = [cleared EXCEPT !.id = id, !.fetching = TRUE, !.asks = {} \cup {ask}]
      BY <1>2, Zenon DEF Asked, Cancelled
    <3> HIDE DEF cleared, ask, f, b
    <3>2. Is(m, id, f, d.fetching, b, id, d.asks)
      BY <2>1, DetailSets
    <3>3. e = [n EXCEPT !.asks = {ask}]
      BY <3>1
    <3> HIDE DEF m
    <3>4. Is(n, id, f, TRUE, b, id, d.asks)
      BY <3>2, DetailSets
    <3> HIDE DEF n
    <3>5. Is([n EXCEPT !.asks = {ask}], id, f, TRUE, b, id, {ask})
      BY <3>4, DetailSets
    <3> QED BY <3>3, <3>5, Zenon
  <2>3. f \in Fetched /\ b \in BOOLEAN /\ {ask} \in SUBSET Asks
    <3>1. NoDetail \in Fetched /\ d.fetched \in Fetched /\ d.fallback \in BOOLEAN
      BY DetailTypes DEF Fetched
    <3>2. id \in Ids /\ changed \in BOOLEAN
      BY <1>2 DEF Ids0
    <3>3. ask \in Asks
      BY <3>2 DEF Asks
    <3>4. f \in Fetched /\ b \in BOOLEAN
      BY <3>1
    <3> QED BY <3>3, <3>4
  <2>4. ask.id = id /\ ask.changed = changed /\ (changed => f = NoDetail)
    OBVIOUS
  <2>5. ~changed => f = d.fetched /\ b = d.fallback /\ d.last = id
    BY Zenon
  <2> HIDE DEF f, b, ask, cleared, changed
  <2>6. e \in Details
    BY <2>2, <2>3, DetailIn, TRUE \in BOOLEAN
  <2>7. e.id = id /\ e.last = id /\ e.asks = {ask} /\ e.fetched = f /\ e.fallback = b
    BY <2>2 DEF Is
  <2>8. DetailOK(e)
    <3>1. e.fetched # NoDetail => e.fetched.id = id /\ e.fetched.generation = e.fetched.values /\ ~e.fallback
      BY <2>4, <2>5, <2>7, Zenon DEF DetailOK
    <3> QED BY <2>4, <2>6, <2>7, <3>1 DEF DetailOK
  <2>9. StaysShown(d, e)
    BY <2>7 DEF StaysShown
  <2> QED BY <2>8, <2>9
<1> QED BY <1>1, <1>2

\* The file of the school comes (useSchoolDetail.ts 170-173).
LEMMA FileKeeps ==
  ASSUME PublicSchoolsAssumption, NEW d, DetailOK(d), NEW a \in d.asks, NEW rel \in Nat, NEW v,
         NEW e, e = [[d EXCEPT !.asks = @ \ {a}, !.fetching = FALSE]
                       EXCEPT !.fetched = Labelled(a.id, rel, v), !.fallback = FALSE]
  PROVE  DetailOK(e) /\ StaysShown(d, e)
<1> DEFINE f == Labelled(a.id, rel, v)
           me == [d EXCEPT !.asks = @ \ {a}, !.fetching = FALSE]
           m == [me EXCEPT !.fetched = f]
<1>1. a.id \in Ids /\ a.id = d.id /\ d.id = d.last
  <2>1. a.id \in Ids /\ a.id = d.id
    BY DetailTypes DEF Asks, DetailOK
  <2> QED BY <2>1 DEF DetailOK, PublicSchoolsAssumption
<1>2. f \in Fetched /\ f # NoDetail /\ f.id = a.id /\ f.generation = f.values
  BY <1>1, LabelledIs
<1>3. Is(e, d.id, f, FALSE, FALSE, d.last, {})
  <2>1. Is(me, d.id, d.fetched, FALSE, d.fallback, d.last, {})
    BY AnsweredIs
  <2>2. e = [me EXCEPT !.fetched = f, !.fallback = FALSE]
    BY Zenon
  <2> HIDE DEF me, f
  <2>3. Is(m, d.id, f, FALSE, d.fallback, d.last, {})
    BY <2>1, DetailSets
  <2>4. e = [m EXCEPT !.fallback = FALSE]
    BY <2>2
  <2> HIDE DEF m
  <2>5. Is([m EXCEPT !.fallback = FALSE], d.id, f, FALSE, FALSE, d.last, {})
    BY <2>3, DetailSets
  <2> QED BY <2>4, <2>5, Zenon
<1> HIDE DEF f, me, m
<1>4. e.id = d.id /\ e.fetched = f /\ e.last = d.last /\ e.fallback = FALSE /\ e.asks = {}
  BY <1>3 DEF Is
<1>5. e \in Details
  BY <1>2, <1>3, DetailTypes, DetailIn, FALSE \in BOOLEAN, {} \in SUBSET Asks
<1> QED BY <1>1, <1>2, <1>4, <1>5 DEF DetailOK, StaysShown

\* The file does not come: the list is fallen back on only for a school of
\* which nothing is shown (useSchoolDetail.ts 174-182).
LEMMA NoFileKeeps ==
  ASSUME PublicSchoolsAssumption, NEW d, DetailOK(d), NEW a \in d.asks,
         NEW e, e = LET me == [d EXCEPT !.asks = @ \ {a}, !.fetching = FALSE]
                    IN  IF a.changed THEN [me EXCEPT !.fallback = TRUE] ELSE me
  PROVE  DetailOK(e) /\ StaysShown(d, e)
<1> DEFINE me == [d EXCEPT !.asks = @ \ {a}, !.fetching = FALSE]
           b == IF a.changed THEN TRUE ELSE d.fallback
<1>1. a.changed \in BOOLEAN /\ (a.changed => d.fetched = NoDetail)
  BY DetailTypes DEF Asks, DetailOK
<1>2. Is(e, d.id, d.fetched, FALSE, b, d.last, {})
  <2>1. Is(me, d.id, d.fetched, FALSE, d.fallback, d.last, {})
    BY AnsweredIs
  <2>2. e = IF a.changed THEN [me EXCEPT !.fallback = TRUE] ELSE me
    OBVIOUS
  <2> HIDE DEF me
  <2>3. CASE a.changed
    <3>1. e = [me EXCEPT !.fallback = TRUE] /\ b = TRUE
      BY <2>2, <2>3, Zenon
    <3> HIDE DEF b
    <3>2. Is([me EXCEPT !.fallback = TRUE], d.id, d.fetched, FALSE, TRUE, d.last, {})
      BY <2>1, DetailSets
    <3> QED BY <3>1, <3>2, Zenon
  <2>4. CASE ~a.changed
    <3>1. e = me /\ b = d.fallback
      BY <2>2, <2>4, Zenon
    <3> QED BY <2>1, <3>1, Zenon
  <2> QED BY <2>3, <2>4
<1>3. b \in BOOLEAN /\ (~a.changed => b = d.fallback)
  BY DetailTypes
<1> HIDE DEF b, me
<1>4. e.id = d.id /\ e.fetched = d.fetched /\ e.last = d.last /\ e.fallback = b /\ e.asks = {}
  BY <1>2 DEF Is
<1>5. e \in Details
  <2>1. FALSE \in BOOLEAN /\ {} \in SUBSET Asks
    OBVIOUS
  <2>2. /\ d.id \in Ids0 /\ d.fetched \in Fetched /\ d.last \in Ids0
        /\ b \in BOOLEAN
    BY <1>3, DetailTypes
  <2> QED BY <1>2, <2>1, <2>2, DetailIn, Zenon
<1>6. d.fetched # NoDetail => e.fallback = d.fallback
  BY <1>1, <1>3, <1>4, Zenon
<1> QED BY <1>4, <1>5, <1>6, Zenon DEF DetailOK, StaysShown

-----------------------------------------------------------------------------
(* The tab.                                                                *)

Shown == [schools : Releases0, error : BOOLEAN]
Views == [Components -> [is : {"off", "rendered", "subscribed"}, shown : Shown]]

\* The invariant; what the CDN keeps came from some release.
SchoolsInv ==
  /\ current \in Releases
  /\ \A e \in edge : e.rel \in Nat
  /\ ListOK(store, current)
  /\ view \in Views
  /\ version \in Releases \cup {0, Unasked, Waiting}
  /\ DetailOK(detail)

\* emit gives components what the list is.
LEMMA EmittedIs ==
  ASSUME view \in Views, NEW s \in Stores
  PROVE  Emitted(s) \in Views
<1>1. Snapshot(s) \in Shown
  BY DEF Snapshot, Shown, Stores
<1>2. \A c \in Components : [view[c] EXCEPT !.shown = Snapshot(s)] \in
           [is : {"off", "rendered", "subscribed"}, shown : Shown]
  BY <1>1 DEF Views
<1>3. \A c \in Components : view[c] \in [is : {"off", "rendered", "subscribed"}, shown : Shown]
  BY DEF Views
<1> QED BY <1>2, <1>3 DEF Emitted, Views

\* At first there is no list, and at most the school of the page.
LEMMA InitHolds ==
  PublicSchoolsAssumption /\ Init => SchoolsInv
<1> SUFFICES ASSUME PublicSchoolsAssumption, Init PROVE SchoolsInv
  OBVIOUS
<1>1. NoList \in Stores /\ current \in Nat
  BY DEF NoList, Stores, Releases0, None, Init, PublicSchoolsAssumption
<1>2. ListOK(store, current)
  <2>1. store = NoList /\ store.cached = 0 /\ store.inFlight = 0 /\ store.loads = {}
    BY DEF Init, NoList, None
  <2> QED BY <1>1, <2>1 DEF ListOK, None
<1>3. view \in Views
  <2>1. Snapshot(store) \in Shown
    BY <1>1 DEF Init, Snapshot, Shown, Stores
  <2> QED BY <2>1 DEF Init, Views
<1>4. DetailOK(detail)
  <2>1. PICK e \in {NoDetail} \cup {Labelled(i, r, r) : i \in Ids, r \in 1..current} : detail = Embedded(e)
    BY DEF Init
  <2>2. detail = [id |-> NoId, fetched |-> e, fetching |-> FALSE, fallback |-> FALSE, last |-> e.id, asks |-> {}]
    BY <2>1 DEF Embedded
  <2>3. e \in Fetched /\ e.id \in Ids0 /\ (e # NoDetail => e.generation = e.values)
    <3>1. CASE e = NoDetail
      BY <3>1 DEF Fetched, NoDetail, Ids0
    <3>2. CASE e # NoDetail
      <4>1. PICK i \in Ids, r \in 1..current : e = Labelled(i, r, r)
        BY <3>2
      <4>2. r \in Nat
        BY <1>1
      <4> QED BY <4>1, <4>2, LabelledIs DEF Ids0
    <3> QED BY <3>1, <3>2
  <2>4. detail \in Details
    BY <2>2, <2>3 DEF Details, Ids0
  <2>5. detail.id = NoId /\ detail.fetched = e /\ detail.last = e.id /\ detail.fallback = FALSE /\ detail.asks = {}
    BY <2>2
  <2> QED BY <2>3, <2>4, <2>5 DEF DetailOK
<1> QED BY <1>2, <1>3, <1>4 DEF Init, SchoolsInv

\* A step keeps the invariant, the list goes on and the school stays.
LEMMA NextKeeps ==
  ASSUME PublicSchoolsAssumption, SchoolsInv, [Next]_vars
  PROVE  SchoolsInv' /\ GoesOn(store, store') /\ StaysShown(detail, detail')
<1> USE PublicSchoolsAssumption
<1>1. ListOK(store, current) /\ DetailOK(detail) /\ current \in Releases /\ view \in Views /\ store \in Stores
  BY DEF SchoolsInv, ListOK
<1>2. GoesOn(store, store)
  <2>1. store.cached \in Int /\ \A l \in store.loads : ~(l.gen > store.gen)
    BY <1>1, ListTypes DEF ListOK
  <2> QED BY <2>1 DEF GoesOn
<1>3. StaysShown(detail, detail)
  BY <1>1 DEF StaysShown, DetailOK
<1>4. ASSUME NEW s, ListOK(s, current), GoesOn(store, s), store' = s, view' \in Views,
             UNCHANGED <<current, edge, version, detail>>
      PROVE  SchoolsInv' /\ GoesOn(store, store') /\ StaysShown(detail, detail')
  BY <1>3, <1>4 DEF SchoolsInv
<1>5. ASSUME NEW c \in Components, Mount(c)
      PROVE  SchoolsInv' /\ GoesOn(store, store') /\ StaysShown(detail, detail')
  <2>1. Snapshot(store) \in Shown
    BY <1>1 DEF Snapshot, Shown, Stores
  <2>2. view' \in Views
    BY <1>1, <1>5, <2>1 DEF Mount, Views
  <2> QED BY <1>1, <1>2, <1>4, <1>5, <2>2 DEF Mount
<1>6. ASSUME NEW c \in Components, Subscribe(c)
      PROVE  SchoolsInv' /\ GoesOn(store, store') /\ StaysShown(detail, detail')
  <2> DEFINE s == Load(store, FALSE)
             on == [view EXCEPT ![c].is = "subscribed"]
  <2>1. ListOK(s, current) /\ GoesOn(store, s)
    BY <1>1, LoadKeeps
  <2>2. on \in Views
    BY <1>1 DEF Views
  <2>3. view' \in Views /\ store' = s
    <3>1. Snapshot(s) \in Shown
      BY <2>1 DEF Snapshot, Shown, Stores, ListOK
    <3>2. store' = s /\ view' = IF s = store THEN on
             ELSE [d \in Components |-> IF on[d].is = "subscribed" THEN [on[d] EXCEPT !.shown = Snapshot(s)] ELSE on[d]]
      BY <1>6 DEF Subscribe
    <3> HIDE DEF on, s
    <3>3. \A d \in Components : [on[d] EXCEPT !.shown = Snapshot(s)] \in
             [is : {"off", "rendered", "subscribed"}, shown : Shown]
      BY <2>2, <3>1 DEF Views
    <3>4. [d \in Components |-> IF on[d].is = "subscribed" THEN [on[d] EXCEPT !.shown = Snapshot(s)] ELSE on[d]] \in Views
      BY <2>2, <3>3 DEF Views
    <3> QED BY <2>2, <3>2, <3>4
  <2> HIDE DEF s, on
  <2> QED BY <1>4, <1>6, <2>1, <2>3 DEF Subscribe
<1>7. ASSUME NEW c \in Components, Unmount(c)
      PROVE  SchoolsInv' /\ GoesOn(store, store') /\ StaysShown(detail, detail')
  <2>1. view' \in Views
    BY <1>1, <1>7 DEF Unmount, Views
  <2> QED BY <1>1, <1>2, <1>4, <1>7, <2>1 DEF Unmount
<1>8. ASSUME NEW c \in Components, Reload(c)
      PROVE  SchoolsInv' /\ GoesOn(store, store') /\ StaysShown(detail, detail')
  <2>1. ListOK(Load(store, TRUE), current) /\ GoesOn(store, Load(store, TRUE))
    BY <1>1, LoadKeeps
  <2>2. Emitted(Load(store, TRUE)) \in Views
    BY <1>1, <2>1, EmittedIs DEF ListOK
  <2> QED BY <1>4, <1>8, <2>1, <2>2 DEF Reload, Emit
<1>9. CASE ManifestAnswered
  <2>1. PICK l \in store.loads :
          /\ l.url = Waiting
          /\ \E url \in {current, Plain} :
               store' = [store EXCEPT !.loads = (@ \ {l}) \cup {[l EXCEPT !.url = url]}]
    BY <1>9 DEF ManifestAnswered
  <2>2. PICK url \in {current, Plain} :
          store' = [store EXCEPT !.loads = (@ \ {l}) \cup {[l EXCEPT !.url = url]}]
    BY <2>1
  <2>3. ListOK(store', current) /\ GoesOn(store, store')
    BY <1>1, <2>1, <2>2, ToldKeeps
  <2>4. view' \in Views /\ UNCHANGED <<current, edge, version, detail>>
    BY <1>1, <1>9 DEF ManifestAnswered
  <2> QED BY <1>4, <2>3, <2>4
<1>10. CASE ListAnswered
  <2>1. PICK l \in store.loads :
          /\ l.url # Waiting
          /\ \E rows \in {None, IF l.url = Plain THEN current ELSE l.url} :
               IF l.gen = store.gen THEN Emit(Taken(store, l, rows))
               ELSE store' = Taken(store, l, rows) /\ UNCHANGED view
    BY <1>10 DEF ListAnswered
  <2>2. PICK rows \in {None, IF l.url = Plain THEN current ELSE l.url} :
          store' = Taken(store, l, rows) /\ view' \in {view, Emitted(store')}
    BY <2>1 DEF Emit
  <2>3. ListOK(store', current) /\ GoesOn(store, store')
    BY <1>1, <2>1, <2>2, TakenKeeps
  <2>4. view' \in Views
    <3>1. Emitted(store') \in Views
      BY <1>1, <2>3, EmittedIs DEF ListOK
    <3> QED BY <1>1, <2>2, <3>1
  <2> QED BY <1>4, <1>10, <2>3, <2>4 DEF ListAnswered
<1>11. CASE VersionAnswered
  BY <1>1, <1>2, <1>3, <1>11 DEF VersionAnswered, SchoolsInv
<1>12. CASE DetailAnswered
  <2> DEFINE kept(a) == {e \in edge : e.id = a.id /\ e.v = version}
  <2>1. PICK a \in detail.asks :
          \/ \E rel \in {current} \cup {e.rel : e \in kept(a)} :
                 /\ detail' = [[detail EXCEPT !.asks = @ \ {a}, !.fetching = FALSE]
                                EXCEPT !.fetched = Labelled(a.id, rel, version), !.fallback = FALSE]
                 /\ edge' = IF kept(a) = {} /\ version # 0 THEN edge \cup {[id |-> a.id, v |-> version, rel |-> rel]} ELSE edge
                 /\ UNCHANGED <<store, view>>
          \/ /\ detail' = LET me == [detail EXCEPT !.asks = @ \ {a}, !.fetching = FALSE]
                           IN  IF a.changed THEN [me EXCEPT !.fallback = TRUE] ELSE me
             /\ IF a.changed /\ FallsBack(store) # store THEN Emit(FallsBack(store)) ELSE UNCHANGED <<store, view>>
             /\ UNCHANGED edge
    BY <1>12 DEF DetailAnswered
  <2>2. UNCHANGED <<current, version>>
    BY <1>12 DEF DetailAnswered
  <2>3. ASSUME NEW rel \in {current} \cup {e.rel : e \in kept(a)},
               detail' = [[detail EXCEPT !.asks = @ \ {a}, !.fetching = FALSE]
                           EXCEPT !.fetched = Labelled(a.id, rel, version), !.fallback = FALSE],
               edge' = IF kept(a) = {} /\ version # 0 THEN edge \cup {[id |-> a.id, v |-> version, rel |-> rel]} ELSE edge,
               UNCHANGED <<store, view>>
        PROVE  SchoolsInv' /\ GoesOn(store, store') /\ StaysShown(detail, detail')
    <3>1. rel \in Nat
      BY <1>1, <2>3 DEF SchoolsInv, PublicSchoolsAssumption
    <3>2. DetailOK(detail') /\ StaysShown(detail, detail')
      BY <1>1, <2>3, <3>1, FileKeeps
    <3>3. \A e \in edge' : e.rel \in Nat
      BY <2>3, <3>1 DEF SchoolsInv
    <3> QED BY <1>2, <2>2, <2>3, <3>2, <3>3 DEF SchoolsInv
  <2>4. ASSUME detail' = LET me == [detail EXCEPT !.asks = @ \ {a}, !.fetching = FALSE]
                         IN  IF a.changed THEN [me EXCEPT !.fallback = TRUE] ELSE me,
               IF a.changed /\ FallsBack(store) # store THEN Emit(FallsBack(store)) ELSE UNCHANGED <<store, view>>,
               UNCHANGED edge
        PROVE  SchoolsInv' /\ GoesOn(store, store') /\ StaysShown(detail, detail')
    <3>1. DetailOK(detail') /\ StaysShown(detail, detail')
      BY <1>1, <2>4, NoFileKeeps
    <3>2. ListOK(store', current) /\ GoesOn(store, store') /\ view' \in Views
      <4>1. CASE a.changed /\ FallsBack(store) # store
        <5>1. store' = Load(store, FALSE) /\ view' = Emitted(Load(store, FALSE))
          BY <2>4, <4>1 DEF Emit, FallsBack
        <5>2. ListOK(Load(store, FALSE), current) /\ GoesOn(store, Load(store, FALSE))
          BY <1>1, LoadKeeps
        <5> QED BY <1>1, <5>1, <5>2, EmittedIs DEF ListOK
      <4>2. CASE ~(a.changed /\ FallsBack(store) # store)
        BY <1>1, <1>2, <2>4, <4>2
      <4> QED BY <4>1, <4>2
    <3> QED BY <2>2, <2>4, <3>1, <3>2 DEF SchoolsInv
  <2> QED BY <2>1, <2>3, <2>4
<1>13. CASE Deploy
  <2>1. ListOK(store, current + 1) /\ current + 1 \in Releases
    BY <1>1, <1>13, DeployKeeps DEF Deploy
  <2> QED BY <1>2, <1>3, <1>13, <2>1 DEF Deploy, SchoolsInv
<1>14. ASSUME NEW id \in Ids0, Open(id)
       PROVE  SchoolsInv' /\ GoesOn(store, store') /\ StaysShown(detail, detail')
  <2>1. DetailOK(detail') /\ StaysShown(detail, detail')
    BY <1>1, <1>14, OpenKeeps DEF Open
  <2>2. version' \in Releases \cup {0, Unasked, Waiting}
    BY <1>14 DEF Open, SchoolsInv
  <2> QED BY <1>2, <1>14, <2>1, <2>2 DEF Open, SchoolsInv
<1>15. CASE UNCHANGED vars
  BY <1>2, <1>3, <1>15 DEF vars, SchoolsInv
<1> QED BY <1>5, <1>6, <1>7, <1>8, <1>9, <1>10, <1>11, <1>12, <1>13, <1>14, <1>15 DEF Next, Ids0

\* The invariant always holds.
LEMMA SchoolsInvHolds == PublicSchoolsAssumption => (Spec => []SchoolsInv)
<1> SUFFICES ASSUME PublicSchoolsAssumption PROVE Spec => []SchoolsInv
  OBVIOUS
<1>1. Init => SchoolsInv
  BY InitHolds
<1>2. SchoolsInv /\ [Next]_vars => SchoolsInv'
  BY NextKeeps
<1> QED BY <1>1, <1>2, PTL DEF Spec

\* The shared list, the components, the versions and the detail have the shape
\* the hooks give them (useSchools.ts, useSchoolDetail.ts).
LEMMA TypesHold == PublicSchoolsAssumption => (Spec => []TypeOK)
<1> SUFFICES ASSUME PublicSchoolsAssumption PROVE Spec => []TypeOK
  OBVIOUS
<1>1. SchoolsInv => TypeOK
  <2> SUFFICES ASSUME SchoolsInv PROVE TypeOK
    OBVIOUS
  <2>1. store \in Stores /\ store.inFlight \in {None, store.gen}
    BY DEF SchoolsInv, ListOK
  <2>2. /\ store.cached \in Releases \cup {None} /\ store.gen \in Nat
        /\ \A l \in store.loads : l.url \in Releases \cup {Waiting, Plain}
    BY <2>1 DEF Stores, Releases0, Load0
  <2>3. store.inFlight \in 0..store.gen
    BY <2>1, <2>2 DEF None
  <2>4. detail.id \in Ids \cup {NoId} /\ detail.last \in Ids \cup {NoId}
    BY DetailTypes DEF SchoolsInv, Ids0
  <2>5. \A c \in Components : view[c].is \in {"off", "rendered", "subscribed"}
    BY DEF SchoolsInv, Views
  <2> QED BY <2>2, <2>3, <2>4, <2>5 DEF SchoolsInv, TypeOK
<1> QED BY <1>1, SchoolsInvHolds, PTL

\* What the page shows as a school is the school it is on, with the generation
\* its values were made under, for any number of releases and visits
\* (useSchoolDetail.ts).
THEOREM ShownIsTheSchool == PublicSchoolsAssumption => (Spec => []DetailIsOfItsSchool)
<1> SUFFICES ASSUME PublicSchoolsAssumption PROVE Spec => []DetailIsOfItsSchool
  OBVIOUS
<1>1. SchoolsInv => DetailIsOfItsSchool
  BY DEF SchoolsInv, DetailOK, DetailIsOfItsSchool
<1> QED BY <1>1, SchoolsInvHolds, PTL

\* Late answers take nothing back: neither a newer list, nor a school that is
\* shown (useSchools.ts loadGeneration, useSchoolDetail.ts 175).
THEOREM ReadingGoesOn == PublicSchoolsAssumption => (Spec => NothingGoesBack)
<1> SUFFICES ASSUME PublicSchoolsAssumption PROVE Spec => NothingGoesBack
  OBVIOUS
<1>1. SchoolsInv /\ [Next]_vars => [ListGoesOn /\ DetailStays]_vars
  <2> SUFFICES ASSUME SchoolsInv, [Next]_vars PROVE ListGoesOn /\ DetailStays
    OBVIOUS
  <2> QED BY NextKeeps DEF GoesOn, StaysShown, ListGoesOn, DetailStays
<1> QED BY <1>1, SchoolsInvHolds, PTL DEF Spec, NothingGoesBack

-----------------------------------------------------------------------------
(* The lists of a prefecture and of a municipality (ListPages).             *)

CONSTANTS Null, Prefs, Cities, Index, Texts, Occurs, Span, MaxLoads

VARIABLES release, embedded, page, loads

Lists == INSTANCE ListPages

PageIs(p, at, last, list, heads, loading, failed, chosen, typed) ==
  p = [at |-> at, last |-> last, list |-> list, heads |-> heads, loading |-> loading,
       failed |-> failed, chosen |-> chosen, typed |-> typed]

Answers == [of : Lists!Places, changed : BOOLEAN, asked : Nat, live : BOOLEAN]

\* A page holds the list of the place it is at, in one release, or none; a
\* place it had a list of before is the place it is at.
PageOK(p, now) ==
  /\ PageIs(p, p.at, p.last, p.list, p.heads, p.loading, p.failed, p.chosen, p.typed)
  /\ p.at \in Lists!Places \cup {Lists!Away}
  /\ p.loading \in BOOLEAN /\ p.failed \in BOOLEAN
  /\ p.chosen = [a \in Lists!Axes |-> p.chosen[a]]
  /\ \A a \in Lists!Axes : IsFiniteSet(p.chosen[a])
  /\ p.at # Lists!Away =>
       /\ p.last = p.at
       /\ ~p.loading /\ ~p.failed =>
            \E r \in 1..now : /\ p.list = Lists!ListOf(p.at, Index[r][p.at.pref])
                              /\ p.heads = Lists!HeadsOf(p.at, Index[r][p.at.pref])
       /\ p.loading \/ p.failed => p.list = {} /\ p.heads \in {Null, <<>>}
  /\ p.at = Lists!Away => p.loading

\* Of the answers that are out one at most would be taken; it is of the place
\* the page is at, and a list is kept through its failure only if it is drawn.
AnswersOK(ls, p, now) ==
  /\ ls \subseteq Answers
  /\ \A l \in ls : l.asked \in 1..now
  /\ \A l \in ls : l.live => /\ l.of = p.at
                             /\ l.changed \/ (~p.loading /\ ~p.failed)
  /\ \A k, l \in ls : k.live /\ l.live => k = l

ListsInv ==
  /\ release \in Releases
  /\ embedded # Null => embedded.of \in Lists!Places /\ embedded.by \in 1..release
  /\ PageOK(page, release)
  /\ AnswersOK(loads, page, release)

LEMMA ListFacts ==
  ASSUME Lists!ListPagesAssumption
  PROVE  /\ \A r \in Releases : r \in Nat \ {0} /\ \A q \in 1..r : q \in Releases
         /\ Null \notin Lists!Places /\ Lists!Away \notin Lists!Places
         /\ \A place \in Lists!Places : place.is \in {"pref", "city"} /\ place.pref \in Prefs
<1>1. Releases = 1..Lists!Cardinality(Releases)
  BY DEF Lists!ListPagesAssumption
<1> DEFINE n == Lists!Cardinality(Releases)
<1>0. n \in Nat
  <2>1. n = Cardinality(Releases) /\ IsFiniteSet(Releases)
    BY DEF Lists!ListPagesAssumption, Lists!Cardinality, Cardinality, Lists!IsFiniteSet, IsFiniteSet
  <2> QED BY <2>1, FS_CardinalityType
<1>6. Releases = 1..n
  BY <1>1
<1> HIDE DEF n
<1>2. \A r \in Releases : r \in Nat \ {0} /\ \A q \in 1..r : q \in Releases
  <2> SUFFICES ASSUME NEW r \in 1..n, NEW q \in 1..r
               PROVE  r \in Nat \ {0} /\ q \in 1..n
    BY <1>6
  <2> QED BY <1>0
<1>3. Null \notin Lists!Places
  BY DEF Lists!ListPagesAssumption
<1>4. \A place \in Lists!Places : place.is \in {"pref", "city"} /\ place.pref \in Prefs
  BY DEF Lists!Places
<1>5. Lists!Away \notin Lists!Places
  <2>1. Lists!Away.is = "away"
    BY DEF Lists!Away
  <2> QED BY <1>4, <2>1
<1> QED BY <1>2, <1>3, <1>4, <1>5

\* A page that is unmounted, one whose list was thrown away and one that was
\* filled.
LEMMA NoListIs ==
  PageIs(Lists!NoList, Lists!Away, Null, {}, Null, TRUE, FALSE, Lists!NoChips, Null)
BY DEF PageIs, Lists!NoList

LEMMA ChipsAreFinite ==
  /\ Lists!NoChips = [a \in Lists!Axes |-> Lists!NoChips[a]]
  /\ \A a \in Lists!Axes : IsFiniteSet(Lists!NoChips[a])
BY FS_EmptySet DEF Lists!NoChips

LEMMA NoListOK == ASSUME NEW now PROVE PageOK(Lists!NoList, now)
<1> DEFINE p == Lists!NoList
<1>1. /\ p.at = Lists!Away /\ p.loading = TRUE /\ p.failed = FALSE /\ p.chosen = Lists!NoChips
      /\ PageIs(p, p.at, p.last, p.list, p.heads, p.loading, p.failed, p.chosen, p.typed)
  BY NoListIs DEF PageIs
<1> QED BY <1>1, ChipsAreFinite DEF PageOK

\* One field is set at a time.
LEMMA PageSets ==
  ASSUME NEW p, NEW at, NEW last, NEW list, NEW heads, NEW loading, NEW failed, NEW chosen,
         NEW typed, PageIs(p, at, last, list, heads, loading, failed, chosen, typed), NEW v
  PROVE  /\ PageIs([p EXCEPT !.at = v], v, last, list, heads, loading, failed, chosen, typed)
         /\ PageIs([p EXCEPT !.last = v], at, v, list, heads, loading, failed, chosen, typed)
         /\ PageIs([p EXCEPT !.list = v], at, last, v, heads, loading, failed, chosen, typed)
         /\ PageIs([p EXCEPT !.heads = v], at, last, list, v, loading, failed, chosen, typed)
         /\ PageIs([p EXCEPT !.loading = v], at, last, list, heads, v, failed, chosen, typed)
         /\ PageIs([p EXCEPT !.failed = v], at, last, list, heads, loading, v, chosen, typed)
         /\ PageIs([p EXCEPT !.chosen = v], at, last, list, heads, loading, failed, v, typed)
         /\ PageIs([p EXCEPT !.typed = v], at, last, list, heads, loading, failed, chosen, v)
BY DEF PageIs

LEMMA KeptIs ==
  ASSUME NEW p, NEW place, NEW at, NEW last, NEW list, NEW heads, NEW loading, NEW failed,
         NEW chosen, NEW typed,
         PageIs(p, at, last, list, heads, loading, failed, chosen, typed)
  PROVE  PageIs([p EXCEPT !.at = place, !.chosen = Lists!NoChips, !.typed = Null],
                place, last, list, heads, loading, failed, Lists!NoChips, Null)
<1> DEFINE q == [p EXCEPT !.at = place]
           r == [q EXCEPT !.chosen = Lists!NoChips]
           s == [r EXCEPT !.typed = Null]
<1>1. s = [p EXCEPT !.at = place, !.chosen = Lists!NoChips, !.typed = Null]
  OBVIOUS
<1>2. PageIs(q, place, last, list, heads, loading, failed, chosen, typed)
  BY PageSets
<1> HIDE DEF q
<1>3. PageIs(r, place, last, list, heads, loading, failed, Lists!NoChips, typed)
  BY <1>2, PageSets
<1> HIDE DEF r
<1>4. PageIs(s, place, last, list, heads, loading, failed, Lists!NoChips, Null)
  BY <1>3, PageSets
<1> HIDE DEF s
<1> QED BY <1>1, <1>4, Zenon

LEMMA ClearedIs ==
  ASSUME NEW p, NEW place, NEW at, NEW last, NEW list, NEW heads, NEW loading, NEW failed,
         NEW chosen, NEW typed,
         PageIs(p, at, last, list, heads, loading, failed, chosen, typed)
  PROVE  PageIs(Lists!Cleared(p, place), at, place, {}, Null, TRUE, FALSE, chosen, typed)
<1> DEFINE q == [p EXCEPT !.last = place]
           r == [q EXCEPT !.list = {}]
           s == [r EXCEPT !.heads = Null]
           t == [s EXCEPT !.loading = TRUE]
           u == [t EXCEPT !.failed = FALSE]
<1>1. u = Lists!Cleared(p, place)
  BY DEF Lists!Cleared
<1>2. PageIs(q, at, place, list, heads, loading, failed, chosen, typed)
  BY PageSets
<1> HIDE DEF q
<1>3. PageIs(r, at, place, {}, heads, loading, failed, chosen, typed)
  BY <1>2, PageSets
<1> HIDE DEF r
<1>4. PageIs(s, at, place, {}, Null, loading, failed, chosen, typed)
  BY <1>3, PageSets
<1> HIDE DEF s
<1>5. PageIs(t, at, place, {}, Null, TRUE, failed, chosen, typed)
  BY <1>4, PageSets
<1> HIDE DEF t
<1>6. PageIs(u, at, place, {}, Null, TRUE, FALSE, chosen, typed)
  BY <1>5, PageSets
<1> HIDE DEF u
<1> QED BY <1>1, <1>6, Zenon

LEMMA FilledIs ==
  ASSUME NEW p, NEW place, NEW index, NEW at, NEW last, NEW list, NEW heads, NEW loading,
         NEW failed, NEW chosen, NEW typed,
         PageIs(p, at, last, list, heads, loading, failed, chosen, typed)
  PROVE  PageIs(Lists!Filled(p, place, index), at, last, Lists!ListOf(place, index),
                Lists!HeadsOf(place, index), FALSE, FALSE, chosen, typed)
<1> DEFINE q == [p EXCEPT !.list = Lists!ListOf(place, index)]
           r == [q EXCEPT !.heads = Lists!HeadsOf(place, index)]
           s == [r EXCEPT !.loading = FALSE]
           t == [s EXCEPT !.failed = FALSE]
<1>1. t = Lists!Filled(p, place, index)
  BY DEF Lists!Filled
<1>2. PageIs(q, at, last, Lists!ListOf(place, index), heads, loading, failed, chosen, typed)
  BY PageSets
<1> HIDE DEF q
<1>3. PageIs(r, at, last, Lists!ListOf(place, index), Lists!HeadsOf(place, index), loading,
             failed, chosen, typed)
  BY <1>2, PageSets
<1> HIDE DEF r
<1>4. PageIs(s, at, last, Lists!ListOf(place, index), Lists!HeadsOf(place, index), FALSE,
             failed, chosen, typed)
  BY <1>3, PageSets
<1> HIDE DEF s
<1>5. PageIs(t, at, last, Lists!ListOf(place, index), Lists!HeadsOf(place, index), FALSE,
             FALSE, chosen, typed)
  BY <1>4, PageSets
<1> HIDE DEF t
<1> QED BY <1>1, <1>5, Zenon

\* The cleanup of an effect leaves no answer that would be taken.
LEMMA CancelledIs ==
  ASSUME NEW ls \in SUBSET Answers, NEW now, \A l \in ls : l.asked \in 1..now
  PROVE  /\ Lists!Cancelled(ls) \subseteq Answers
         /\ \A l \in Lists!Cancelled(ls) : ~l.live /\ l.asked \in 1..now
<1> SUFFICES ASSUME NEW l \in ls
             PROVE  LET m == [l EXCEPT !.live = FALSE]
                    IN  m \in Answers /\ ~m.live /\ m.asked \in 1..now
  BY DEF Lists!Cancelled
<1>1. l \in Answers
  OBVIOUS
<1>2. l.asked \in 1..now
  OBVIOUS
<1> QED BY <1>1, <1>2 DEF Answers

\* Another place: what is shown of it is what was embedded for it, or nothing.
LEMMA GoKeeps ==
  ASSUME Lists!ListPagesAssumption, ListsInv,
         NEW place \in Lists!Places \cup {Lists!Away}, Lists!Go(place)
  PROVE  ListsInv'
<1> DEFINE out == Lists!Cancelled(loads)
<1>1. /\ release' = release /\ embedded' = embedded
      /\ out \subseteq Answers /\ \A l \in out : ~l.live /\ l.asked \in 1..release
  BY CancelledIs DEF ListsInv, AnswersOK, Lists!Go
<1>2. CASE place = Lists!Away
  <2>1. page' = Lists!NoList /\ loads' = out
    BY <1>2 DEF Lists!Go
  <2> HIDE DEF out
  <2>2. PageOK(page', release')
    BY <1>1, <2>1, NoListOK
  <2> QED BY <1>1, <2>1, <2>2 DEF ListsInv, AnswersOK
<1>3. CASE place \in Lists!Places
  <2> DEFINE same == place.is = page.at.is
             here == IF same THEN page ELSE Lists!Boot(place)
             changed == here.last # place
             kept == [(IF changed THEN Lists!Cleared(here, place) ELSE here) EXCEPT
                        !.at = place, !.chosen = Lists!NoChips, !.typed = Null]
             new == [of |-> place, changed |-> changed, asked |-> release, live |-> TRUE]
  <2>1. place # Lists!Away /\ place # Null
    BY <1>3, ListFacts
  <2>2. page' = kept /\ loads' = out \cup {new} /\ place # page.at
    BY <2>1 DEF Lists!Go
  <2>3. /\ PageIs(kept, place, place, {}, Null, TRUE, FALSE, Lists!NoChips, Null) /\ changed
        \/ \E r \in 1..release :
             PageIs(kept, place, place, Lists!ListOf(place, Index[r][place.pref]),
                    Lists!HeadsOf(place, Index[r][place.pref]), FALSE, FALSE,
                    Lists!NoChips, Null)
    <3>1. CASE same
      <4>1. page.at # Lists!Away
        BY <1>3, <3>1, ListFacts DEF Lists!Away
      <4>2. here = page /\ changed
        BY <2>2, <3>1, <4>1 DEF ListsInv, PageOK
      <4> DEFINE from == Lists!Cleared(page, place)
      <4>3. kept = [from EXCEPT !.at = place, !.chosen = Lists!NoChips, !.typed = Null]
        BY <4>2
      <4>4. PageIs(from, page.at, place, {}, Null, TRUE, FALSE, page.chosen, page.typed)
        BY ClearedIs DEF ListsInv, PageOK
      <4> HIDE DEF from
      <4> QED BY <4>2, <4>3, <4>4, KeptIs
    <3>2. CASE ~same /\ embedded # Null /\ embedded.of = place
      <4> DEFINE started == [Lists!NoList EXCEPT !.last = place]
                 r == embedded.by
      <4>1. r \in 1..release
        BY <3>2 DEF ListsInv
      <4>2. PageIs(started, Lists!Away, place, {}, Null, TRUE, FALSE, Lists!NoChips, Null)
        BY NoListIs, PageSets
      <4>3. here = Lists!Filled(started, place, Index[r][place.pref])
        BY <3>2 DEF Lists!Boot
      <4> HIDE DEF started
      <4>4. PageIs(here, Lists!Away, place, Lists!ListOf(place, Index[r][place.pref]),
                   Lists!HeadsOf(place, Index[r][place.pref]), FALSE, FALSE,
                   Lists!NoChips, Null)
        BY <4>2, <4>3, FilledIs
      <4> HIDE DEF here
      <4>5. ~changed
        BY <4>4 DEF PageIs
      <4>6. kept = [here EXCEPT !.at = place, !.chosen = Lists!NoChips, !.typed = Null]
        BY <4>5
      <4> QED BY <4>1, <4>4, <4>6, KeptIs
    <3>3. CASE ~same /\ ~(embedded # Null /\ embedded.of = place)
      <4>1. here = Lists!NoList
        BY <3>3 DEF Lists!Boot
      <4>2. changed
        BY <2>1, <4>1, NoListIs DEF PageIs
      <4> DEFINE from == Lists!Cleared(Lists!NoList, place)
      <4>3. kept = [from EXCEPT !.at = place, !.chosen = Lists!NoChips, !.typed = Null]
        BY <4>1, <4>2
      <4>4. PageIs(from, Lists!Away, place, {}, Null, TRUE, FALSE, Lists!NoChips, Null)
        BY ClearedIs, NoListIs
      <4> HIDE DEF from
      <4> QED BY <4>2, <4>3, <4>4, KeptIs
    <3> QED BY <3>1, <3>2, <3>3
  <2> HIDE DEF kept, here, changed, out
  <2>4. PageOK(kept, release) /\ kept.at = place /\ (changed \/ (~kept.loading /\ ~kept.failed))
    <3>1. CASE PageIs(kept, place, place, {}, Null, TRUE, FALSE, Lists!NoChips, Null) /\ changed
      <4>1. /\ kept.at = place /\ kept.last = place /\ kept.list = {} /\ kept.heads = Null
            /\ kept.loading = TRUE /\ kept.failed = FALSE /\ kept.chosen = Lists!NoChips
            /\ PageIs(kept, kept.at, kept.last, kept.list, kept.heads, kept.loading,
                      kept.failed, kept.chosen, kept.typed)
        BY <3>1 DEF PageIs
      <4> QED BY <1>3, <2>1, <3>1, <4>1, ChipsAreFinite DEF PageOK
    <3>2. ASSUME NEW r \in 1..release,
                 PageIs(kept, place, place, Lists!ListOf(place, Index[r][place.pref]),
                        Lists!HeadsOf(place, Index[r][place.pref]), FALSE, FALSE,
                        Lists!NoChips, Null)
          PROVE  PageOK(kept, release) /\ kept.at = place /\ ~kept.loading /\ ~kept.failed
      <4>1. /\ kept.at = place /\ kept.last = place
            /\ kept.list = Lists!ListOf(place, Index[r][place.pref])
            /\ kept.heads = Lists!HeadsOf(place, Index[r][place.pref])
            /\ kept.loading = FALSE /\ kept.failed = FALSE /\ kept.chosen = Lists!NoChips
            /\ PageIs(kept, kept.at, kept.last, kept.list, kept.heads, kept.loading,
                      kept.failed, kept.chosen, kept.typed)
        BY <3>2 DEF PageIs
      <4> QED BY <1>3, <2>1, <4>1, ChipsAreFinite DEF PageOK
    <3> QED BY <2>3, <3>1, <3>2
  <2>5. new \in Answers /\ new.asked \in 1..release /\ new.live /\ new.of = place
        /\ (new.changed = changed)
    <3>1. release \in Nat \ {0}
      BY ListFacts DEF ListsInv
    <3>2. release \in 1..release /\ release \in Nat /\ changed \in BOOLEAN
      BY <3>1 DEF changed
    <3> QED BY <1>3, <3>2 DEF Answers
  <2> HIDE DEF new
  <2>6. AnswersOK(loads', page', release)
    BY <1>1, <2>2, <2>4, <2>5 DEF AnswersOK
  <2> QED BY <1>1, <2>2, <2>4, <2>6 DEF ListsInv
<1> QED BY <1>2, <1>3

\* An answer that is taken is of the place the page is at, and one that does
\* not come leaves a list that is drawn.
LEMMA AnsweredKeeps ==
  ASSUME Lists!ListPagesAssumption, ListsInv, NEW l, Lists!Answered(l)
  PROVE  ListsInv'
<1>1. /\ l \in loads /\ loads' = loads \ {l} /\ release' = release /\ embedded' = embedded
      /\ release \in Nat \ {0}
  BY ListFacts DEF Lists!Answered, ListsInv
<1>2. CASE ~l.live
  <2>1. page' = page
    BY <1>2 DEF Lists!Answered
  <2> QED BY <1>1, <2>1 DEF ListsInv, AnswersOK
<1>3. CASE l.live
  <2>1. /\ l \in Answers /\ l.of = page.at /\ l.of \in Lists!Places /\ l.asked \in 1..release
        /\ l.changed \/ (~page.loading /\ ~page.failed)
    BY <1>1, <1>3 DEF ListsInv, AnswersOK, Answers
  <2>2. page.at # Lists!Away /\ page.last = page.at
    BY <2>1, ListFacts DEF ListsInv, PageOK
  <2>3. AnswersOK(loads', page', release)
    BY <1>1, <1>3 DEF ListsInv, AnswersOK
  <2>4. PageIs(page, page.at, page.last, page.list, page.heads, page.loading, page.failed,
               page.chosen, page.typed)
    BY DEF ListsInv, PageOK
  <2>5. CASE \E r \in l.asked..release : page' = Lists!Taken(page, l.of, Index[r][l.of.pref])
    <3>1. PICK r \in l.asked..release :
            page' = Lists!Filled(page, page.at, Index[r][page.at.pref])
      BY <2>1, <2>5 DEF Lists!Taken
    <3>2. r \in 1..release
      BY <1>1, <2>1
    <3> DEFINE list == Lists!ListOf(page.at, Index[r][page.at.pref])
               heads == Lists!HeadsOf(page.at, Index[r][page.at.pref])
    <3>3. PageIs(page', page.at, page.last, list, heads, FALSE, FALSE, page.chosen, page.typed)
      BY <2>4, <3>1, FilledIs
    <3>4. /\ page'.at = page.at /\ page'.last = page.last /\ page'.list = list
          /\ page'.heads = heads /\ page'.loading = FALSE /\ page'.failed = FALSE
          /\ page'.chosen = page.chosen
          /\ PageIs(page', page'.at, page'.last, page'.list, page'.heads, page'.loading,
                    page'.failed, page'.chosen, page'.typed)
      BY <3>3 DEF PageIs
    <3>5. PageOK(page', release)
      BY <2>2, <3>2, <3>4 DEF ListsInv, PageOK
    <3> QED BY <1>1, <2>3, <3>5 DEF ListsInv
  <2>6. CASE page' = Lists!Failed(page, l) /\ l.changed
    <3> DEFINE q == [page EXCEPT !.loading = FALSE]
               s == [q EXCEPT !.failed = TRUE]
               t == [s EXCEPT !.list = {}]
               u == [t EXCEPT !.heads = <<>>]
    <3>1. page' = u
      BY <2>6 DEF Lists!Failed
    <3>2. PageIs(q, page.at, page.last, page.list, page.heads, FALSE, page.failed,
                 page.chosen, page.typed)
      BY <2>4, PageSets
    <3> HIDE DEF q
    <3>3. PageIs(s, page.at, page.last, page.list, page.heads, FALSE, TRUE, page.chosen,
                 page.typed)
      BY <3>2, PageSets
    <3> HIDE DEF s
    <3>4. PageIs(t, page.at, page.last, {}, page.heads, FALSE, TRUE, page.chosen, page.typed)
      BY <3>3, PageSets
    <3> HIDE DEF t
    <3>5. PageIs(u, page.at, page.last, {}, <<>>, FALSE, TRUE, page.chosen, page.typed)
      BY <3>4, PageSets
    <3> HIDE DEF u
    <3>6. /\ page'.at = page.at /\ page'.last = page.last /\ page'.list = {}
          /\ page'.heads = <<>> /\ page'.loading = FALSE /\ page'.failed = TRUE
          /\ page'.chosen = page.chosen
          /\ PageIs(page', page'.at, page'.last, page'.list, page'.heads, page'.loading,
                    page'.failed, page'.chosen, page'.typed)
      BY <3>1, <3>5 DEF PageIs
    <3>7. PageOK(page', release)
      BY <2>2, <3>6 DEF ListsInv, PageOK
    <3> QED BY <1>1, <2>3, <3>7 DEF ListsInv
  <2>7. CASE page' = Lists!Failed(page, l) /\ ~l.changed
    <3>1. page' = [page EXCEPT !.loading = FALSE]
      BY <2>7 DEF Lists!Failed
    <3>2. PageIs(page', page.at, page.last, page.list, page.heads, FALSE, page.failed,
                 page.chosen, page.typed)
      BY <2>4, <3>1, PageSets
    <3>3. page.loading = FALSE
      BY <2>1, <2>7 DEF ListsInv, PageOK
    <3>4. page' = page
      BY <2>4, <3>2, <3>3 DEF PageIs
    <3> QED BY <1>1, <2>3, <3>4 DEF ListsInv
  <2> QED BY <1>3, <2>5, <2>6, <2>7 DEF Lists!Answered
<1> QED BY <1>2, <1>3

\* Chips and text change nothing else.
LEMMA ChipsKeep ==
  ASSUME ListsInv, NEW chosen, chosen = [a \in Lists!Axes |-> chosen[a]],
         \A a \in Lists!Axes : IsFiniteSet(chosen[a]), NEW typed,
         PageIs(page', page.at, page.last, page.list, page.heads, page.loading, page.failed,
                chosen, typed),
         UNCHANGED <<release, embedded, loads>>
  PROVE  ListsInv'
<1>1. /\ page'.at = page.at /\ page'.last = page.last /\ page'.list = page.list
      /\ page'.heads = page.heads /\ page'.loading = page.loading
      /\ page'.failed = page.failed /\ page'.chosen = chosen
      /\ PageIs(page', page'.at, page'.last, page'.list, page'.heads, page'.loading,
                page'.failed, page'.chosen, page'.typed)
  BY DEF PageIs
<1>2. PageOK(page', release)
  BY <1>1 DEF ListsInv, PageOK
<1>3. AnswersOK(loads', page', release)
  BY <1>1 DEF ListsInv, AnswersOK
<1> QED BY <1>2, <1>3 DEF ListsInv

LEMMA ToggleKeeps ==
  ASSUME ListsInv, NEW c \in Lists!Offered(page.list), Lists!ToggleChip(c)
  PROVE  ListsInv'
<1> DEFINE old == page.chosen
           set == IF c[2] \in old[c[1]] THEN old[c[1]] \ {c[2]} ELSE old[c[1]] \cup {c[2]}
           chosen == [old EXCEPT ![c[1]] = set]
<1>1. c[1] \in Lists!Axes
  BY DEF Lists!Offered
<1>2. /\ old = [a \in Lists!Axes |-> old[a]]
      /\ \A a \in Lists!Axes : IsFiniteSet(old[a])
      /\ PageIs(page, page.at, page.last, page.list, page.heads, page.loading, page.failed,
                page.chosen, page.typed)
  BY DEF ListsInv, PageOK
<1>3. IsFiniteSet(set)
  BY <1>1, <1>2, FS_AddElement, FS_RemoveElement
<1>4. page' = [page EXCEPT !.chosen = chosen] /\ UNCHANGED <<release, embedded, loads>>
  BY DEF Lists!ToggleChip
<1>5. chosen = [a \in Lists!Axes |-> IF a = c[1] THEN set ELSE old[a]]
  BY <1>1, <1>2
<1> HIDE DEF set
<1>6. /\ chosen = [a \in Lists!Axes |-> chosen[a]]
      /\ \A a \in Lists!Axes : IsFiniteSet(chosen[a])
  BY <1>2, <1>3, <1>5
<1> HIDE DEF chosen
<1>7. PageIs(page', page.at, page.last, page.list, page.heads, page.loading, page.failed,
             chosen, page.typed)
  BY <1>2, <1>4, PageSets
<1> QED BY <1>4, <1>6, <1>7, ChipsKeep

LEMMA ClearTypeKeep ==
  ASSUME ListsInv, Lists!ClearChips \/ \E text \in Texts \cup {Null} : Lists!Type(text)
  PROVE  ListsInv'
<1>1. /\ page.chosen = [a \in Lists!Axes |-> page.chosen[a]]
      /\ \A a \in Lists!Axes : IsFiniteSet(page.chosen[a])
      /\ PageIs(page, page.at, page.last, page.list, page.heads, page.loading, page.failed,
                page.chosen, page.typed)
  BY DEF ListsInv, PageOK
<1>2. CASE Lists!ClearChips
  <2>1. /\ page' = [page EXCEPT !.chosen = Lists!NoChips]
        /\ UNCHANGED <<release, embedded, loads>>
    BY <1>2 DEF Lists!ClearChips
  <2>2. PageIs(page', page.at, page.last, page.list, page.heads, page.loading, page.failed,
               Lists!NoChips, page.typed)
    BY <1>1, <2>1, PageSets
  <2> QED BY <2>1, <2>2, ChipsAreFinite, ChipsKeep
<1>3. ASSUME NEW text, Lists!Type(text) PROVE ListsInv'
  <2>1. page' = [page EXCEPT !.typed = text] /\ UNCHANGED <<release, embedded, loads>>
    BY <1>3 DEF Lists!Type
  <2>2. PageIs(page', page.at, page.last, page.list, page.heads, page.loading, page.failed,
               page.chosen, text)
    BY <1>1, <2>1, PageSets
  <2> QED BY <1>1, <2>1, <2>2, ChipsKeep
<1> QED BY <1>2, <1>3

LEMMA LaterKeeps ==
  ASSUME Lists!ListPagesAssumption, ListsInv, Lists!Deploy
  PROVE  ListsInv'
<1>1. /\ release' = release + 1 /\ release' \in Releases /\ embedded' = embedded
      /\ page' = page /\ loads' = loads /\ release \in Nat
  BY ListFacts DEF Lists!Deploy, ListsInv
<1>2. 1..release \subseteq 1..release'
  BY <1>1
<1> HIDE DEF Lists!Deploy
<1>3. PageOK(page', release')
  BY <1>1, <1>2 DEF ListsInv, PageOK
<1>4. AnswersOK(loads', page', release')
  BY <1>1, <1>2 DEF ListsInv, AnswersOK
<1> QED BY <1>1, <1>2, <1>3, <1>4 DEF ListsInv

LEMMA ListsInvHolds == Lists!ListPagesAssumption => (Lists!Spec => []ListsInv)
<1> SUFFICES ASSUME Lists!ListPagesAssumption PROVE Lists!Spec => []ListsInv
  OBVIOUS
<1>1. Lists!Init => ListsInv
  <2> SUFFICES ASSUME Lists!Init PROVE ListsInv
    OBVIOUS
  <2>1. release \in Releases /\ page = Lists!NoList /\ loads = {}
    BY DEF Lists!Init
  <2>2. embedded # Null => embedded.of \in Lists!Places /\ embedded.by \in 1..release
    BY DEF Lists!Init
  <2>3. PageOK(page, release)
    BY <2>1, NoListOK
  <2> QED BY <2>1, <2>2, <2>3 DEF ListsInv, AnswersOK
<1>2. ListsInv /\ [Lists!Next]_(Lists!vars) => ListsInv'
  <2> SUFFICES ASSUME ListsInv, Lists!Next \/ UNCHANGED Lists!vars PROVE ListsInv'
    OBVIOUS
  <2>1. CASE UNCHANGED Lists!vars
    BY <2>1 DEF Lists!vars, ListsInv
  <2> QED BY <2>1, GoKeeps, AnsweredKeeps, ToggleKeeps, ClearTypeKeep, LaterKeeps, Zenon
          DEF Lists!Next
<1> QED BY <1>1, <1>2, PTL DEF Lists!Spec

\* What an index says of its schools.
LEMMA IndexFacts ==
  ASSUME Lists!ListPagesAssumption, NEW r \in Releases, NEW p \in Prefs
  PROVE  /\ Index[r][p].cities # Null /\ Lists!ToSet(Index[r][p].cities) \subseteq Cities
         /\ \A s \in Index[r][p].schools :
              DOMAIN s = {"id", "city", "tags"} /\ s.city \in Cities \cup {Null}
         /\ Null \notin Cities /\ Lists!Other \notin Cities
BY DEF Lists!ListPagesAssumption

Of(schools, city) == {s \in schools : s.city = city}

\* Filling in the tags moves no school to another municipality.
LEMMA ExpandedKeeps ==
  ASSUME NEW schools, \A s \in schools : DOMAIN s = {"id", "city", "tags"}, NEW city
  PROVE  /\ Of(Lists!Expanded(schools), city) = Lists!Expanded(Of(schools, city))
         /\ (\E s \in schools : s.city = city) => Lists!Expanded(Of(schools, city)) # {}
<1> DEFINE F(s) == [s EXCEPT !.tags = [@ EXCEPT !["course"] = IF @ = {} THEN {"fulltime"} ELSE @,
                                                !["gender"] = IF @ = {} THEN {"coed"} ELSE @]]
<1>1. \A set : Lists!Expanded(set) = {F(s) : s \in set}
  BY DEF Lists!Expanded
<1>2. ASSUME NEW s \in schools PROVE F(s).city = s.city
  <2>1. ASSUME NEW w PROVE [s EXCEPT !.tags = w].city = s.city
    OBVIOUS
  <2> QED BY <2>1
<1> HIDE DEF F
<1> QED BY <1>1, <1>2 DEF Of

LEMMA ShownHolds ==
  ASSUME Lists!ListPagesAssumption, ListsInv
  PROVE  Lists!ShownAsAskedFor
<1>1. /\ release \in Releases /\ \A q \in 1..release : q \in Releases
      /\ page.at \in Lists!Places \cup {Lists!Away} /\ Lists!Away \notin Lists!Places
      /\ page.at \in Lists!Places => page.at.pref \in Prefs
      /\ page.loading \in BOOLEAN /\ page.failed \in BOOLEAN
  BY ListFacts DEF ListsInv, PageOK
<1>2. Lists!Shows => \E r \in 1..release : Lists!OfIndex(r)
  BY DEF Lists!Shows, Lists!OfIndex, ListsInv, PageOK
<1>3. page.at # Lists!Away /\ ~Lists!Shows => page.list = {} /\ page.heads \in {Null, <<>>}
  BY <1>1 DEF Lists!Shows, ListsInv, PageOK
<1>4. Lists!ListIsOfItsPlace
  <2>1. ASSUME Lists!NotFound
        PROVE  \E r \in 1..release :
                 page.at.city \notin Lists!ToSet(Lists!CityCounts(Index[r][page.at.pref]))
    <3>1. page.at # Lists!Away
      BY <2>1 DEF Lists!NotFound, Lists!Away
    <3>2. DOMAIN <<>> = {}
      OBVIOUS
    <3>3. Lists!Shows
      BY <1>3, <2>1, <3>1, <3>2 DEF Lists!NotFound
    <3>4. PICK r \in 1..release : Lists!OfIndex(r)
      BY <1>2, <3>3
    <3>5. page.heads = Lists!CityCounts(Index[r][page.at.pref])
      BY <2>1, <3>4 DEF Lists!OfIndex, Lists!HeadsOf, Lists!NotFound
    <3> QED BY <2>1, <3>5 DEF Lists!NotFound
  <2> QED BY <1>2, <1>3, <2>1 DEF Lists!ListIsOfItsPlace
<1>5. Lists!LinksLeadToLists
  <2> SUFFICES ASSUME Lists!Shows PROVE Lists!LinksLeadToLists
    BY DEF Lists!LinksLeadToLists
  <2>1. PICK r \in 1..release : Lists!OfIndex(r)
    BY <1>2
  <2> DEFINE index == Index[r][page.at.pref]
             There(city) == Lists!ListOf([is |-> "city", pref |-> page.at.pref, city |-> city], index)
  <2>2. /\ page.at \in Lists!Places /\ page.at.pref \in Prefs /\ r \in Releases
    BY <1>1 DEF Lists!Shows
  <2>3. /\ index.cities # Null /\ Lists!ToSet(index.cities) \subseteq Cities
        /\ \A s \in index.schools :
             DOMAIN s = {"id", "city", "tags"} /\ s.city \in Cities \cup {Null}
        /\ Null \notin Cities /\ Lists!Other \notin Cities
    BY <2>2, IndexFacts
  <2>4. ASSUME NEW city
        PROVE  There(city) = Lists!Expanded(Of(index.schools, city))
    BY DEF Lists!ListOf, Of
  <2>5. page.list = Lists!ListOf(page.at, index) /\ page.heads = Lists!HeadsOf(page.at, index)
    BY <2>1 DEF Lists!OfIndex
  <2> HIDE DEF There
  <2>6. ASSUME page.at.is = "pref"
        PROVE  /\ page.chosen = Lists!NoChips /\ page.typed = Null => Lists!Listed = page.list
               /\ \A g \in Lists!Groups : g.hasPage => There(g.label) = g.schools
    <3>1. page.list = Lists!Expanded(index.schools) /\ page.heads = index.cities
      BY <2>5, <2>6 DEF Lists!ListOf, Lists!HeadsOf
    <3> HIDE DEF index
    <3> DEFINE G(l) == [label |-> l, schools |-> {s \in page.list : Lists!Label(s) = l},
                        hasPage |-> l \in Lists!ToSet(page.heads)]
    <3>2. Lists!Groups = {G(l) : l \in {Lists!Label(s) : s \in page.list}}
      BY <2>3, <3>1 DEF Lists!Groups
    <3>3. ASSUME page.chosen = Lists!NoChips, page.typed = Null
          PROVE  Lists!Listed = page.list
      <4> DEFINE Kept(g) == {s \in g.schools : Lists!Matches(s, page.chosen) /\ Lists!Hit(s, g.label)}
      <4>1. \A s, l : Lists!Matches(s, page.chosen) /\ Lists!Hit(s, l)
        BY <3>3 DEF Lists!Matches, Lists!Hit, Lists!NoChips
      <4>2. Lists!Visible = {[g EXCEPT !.schools = Kept(g)] : g \in Lists!Groups}
        BY <3>3 DEF Lists!Visible
      <4>3. \A g : Kept(g) = {s \in g.schools : TRUE}
        BY <4>1
      <4> HIDE DEF Kept
      <4>4. ASSUME NEW l
            PROVE  [G(l) EXCEPT !.schools = Kept(G(l))].schools = {s \in page.list : Lists!Label(s) = l}
        BY <4>3
      <4> HIDE DEF G
      <4>5. Lists!Listed = UNION {g.schools : g \in Lists!Visible}
        BY <2>6 DEF Lists!Listed
      <4> DEFINE V(l) == [G(l) EXCEPT !.schools = Kept(G(l))]
      <4>6. Lists!Visible = {V(l) : l \in {Lists!Label(s) : s \in page.list}}
        BY <3>2, <4>2
      <4>7. \A l : V(l).schools = {s \in page.list : Lists!Label(s) = l}
        BY <4>4
      <4> HIDE DEF V
      <4>8. ASSUME NEW s \in Lists!Listed PROVE s \in page.list
        <5>1. PICK g \in Lists!Visible : s \in g.schools
          BY <4>5, <4>8
        <5>2. PICK l : g = V(l)
          BY <4>6, <5>1
        <5> QED BY <4>7, <5>1, <5>2
      <4>9. ASSUME NEW s \in page.list PROVE s \in Lists!Listed
        <5> DEFINE l == Lists!Label(s)
        <5>1. V(l) \in Lists!Visible
          BY <4>6
        <5>2. s \in V(l).schools
          BY <4>7
        <5> QED BY <4>5, <5>1, <5>2
      <4> QED BY <4>8, <4>9
    <3>4. ASSUME NEW g \in Lists!Groups, g.hasPage PROVE There(g.label) = g.schools
      <4>1. PICK l : g = G(l)
        BY <3>2
      <4>2. /\ g.label = l /\ g.schools = {s \in page.list : Lists!Label(s) = l}
            /\ l \in Lists!ToSet(page.heads)
        BY <3>4, <4>1
      <4> HIDE DEF G
      <4>3. l \in Cities /\ l # Null /\ l # Lists!Other
        BY <2>3, <3>1, <4>2
      <4>4. \A s : Lists!Label(s) = l <=> s.city = l
        BY <4>3 DEF Lists!Label
      <4>5. g.schools = Of(Lists!Expanded(index.schools), l)
        BY <3>1, <4>2, <4>4 DEF Of
      <4>6. g.schools = Lists!Expanded(Of(index.schools, l))
        <5>1. \A s \in index.schools : DOMAIN s = {"id", "city", "tags"}
          BY <2>3
        <5> QED BY <4>5, <5>1, ExpandedKeeps
      <4> QED BY <2>4, <4>2, <4>6
    <3> QED BY <3>3, <3>4
  <2>7. ASSUME page.at.is = "city", NEW c \in Lists!Siblings
        PROVE  There(c) # {}
    <3>1. page.heads = Lists!CityCounts(index)
      BY <2>5, <2>7 DEF Lists!HeadsOf
    <3>2. PICK j \in DOMAIN page.heads : c = page.heads[j]
      BY <2>7 DEF Lists!Siblings
    <3>3. \E s \in index.schools : s.city = c
      BY <3>1, <3>2 DEF Lists!CityCounts
    <3>4. \A s \in index.schools : DOMAIN s = {"id", "city", "tags"}
      BY <2>3
    <3> HIDE DEF index
    <3>5. Lists!Expanded(Of(index.schools, c)) # {}
      BY <3>3, <3>4, ExpandedKeeps
    <3> QED BY <2>4, <3>5
  <2> QED BY <2>1, <2>6, <2>7 DEF Lists!LinksLeadToLists, There
<1> QED BY <1>4, <1>5 DEF Lists!ShownAsAskedFor

LEMMA ListsTyped == ASSUME ListsInv PROVE Lists!ListTypeOK
<1> DEFINE live == {l \in loads : l.live}
<1>1. live = {} \/ \E l : live = {l}
  BY DEF ListsInv, AnswersOK
<1> HIDE DEF live
<1>2. Cardinality(live) <= 1
  <2>1. CASE live = {}
    BY <2>1, FS_EmptySet
  <2>2. ASSUME NEW l, live = {l} PROVE Cardinality(live) = 1
    BY <2>2, FS_Singleton
  <2> QED BY <1>1, <2>1, <2>2
<1>3. Lists!Cardinality(live) = Cardinality(live)
  BY DEF Lists!Cardinality, Cardinality, Lists!IsFiniteSet, IsFiniteSet
<1>4. \A a \in Lists!Axes : Lists!IsFiniteSet(page.chosen[a])
  BY DEF ListsInv, PageOK, Lists!IsFiniteSet, IsFiniteSet
<1> QED BY <1>2, <1>3, <1>4 DEF live, Lists!ListTypeOK, ListsInv, PageOK

\* A list that is shown is complete, of the place that was asked for and of
\* one release; "not found" is said only of what an index really lacks, and a
\* link leads to a page that lists the same schools: for any prefectures,
\* releases and schools, whatever was visited while answers were out
\* (PrefecturePage.tsx 133-199, CityPage.tsx 144-160).
LEMMA ListsShowWhatWasAsked ==
  Lists!ListPagesAssumption => (Lists!Spec => [](Lists!ListTypeOK /\ Lists!ShownAsAskedFor))
<1> SUFFICES ASSUME Lists!ListPagesAssumption
             PROVE  Lists!Spec => [](Lists!ListTypeOK /\ Lists!ShownAsAskedFor)
  OBVIOUS
<1>1. ListsInv => Lists!ListTypeOK /\ Lists!ShownAsAskedFor
  BY ListsTyped, ShownHolds
<1> QED BY <1>1, ListsInvHolds, PTL

-----------------------------------------------------------------------------
(* The move of the address (SiteMove).                                      *)

CONSTANTS Phases, LastDay, NoticeDays, MaxAttempts, Visits

VARIABLES env, tab, kind, hasData, saved, attempt, attempts, callback, today, switchDate,
          dismissed, closed, mounted

Edge == INSTANCE SiteMove WITH None <- Null

Bodies == {"app", "legacy", "portal", "maintenance", "next", "notFound", "ended", "none"}
Target == [host: Edge!Hosts, path: Edge!Paths, query: SUBSET Edge!Names]
Statuses == {200, 301, 302, 404, 405, 410, 503}
Given == [status: Statuses, body: Bodies, to: {Null} \cup Target]

\* Where a redirect leads: to the new address or to the bare old one, with
\* nothing of a login or of advertising.
LeadsOn(to) ==
  /\ to \in Target /\ to.query \cap {"code", "tracking"} = {}
  /\ to.host = "high" \/ (to.host = "old" /\ to.path = "/" /\ to.query = {})

IsPage(body) == body \in {"app", "legacy"}

AnswerOK(r, a) ==
  /\ a \in Given
  /\ a.to # Null => LeadsOn(a.to)
  /\ IsPage(a.body) => a.to = Null
  /\ r.path = "/auth/callback" =>
       a.to = Null /\ (a.status = 200 /\ r.method # "POST" => IsPage(a.body))
  /\ Edge!IsApi(r.path) =>
       a.body \notin {"app", "legacy", "portal", "maintenance"} /\ a.to = Null

\* The two forms an answer has.
LEMMA EdgeNames ==
  /\ {"old", "high"} \subseteq Edge!Hosts /\ {} \in SUBSET Edge!Names
  /\ {"position", "q", "code"} \subseteq Edge!Names
  /\ {"/", "/auth/callback", "/mypage", "/family/join"} \subseteq Edge!Paths
  /\ Edge!MovablePaths \cup Edge!Routes \cup Edge!RescuePaths \subseteq Edge!Paths
  /\ \A p \in Edge!MovablePaths \cup Edge!Routes : p # "/auth/callback" /\ ~Edge!IsApi(p)
  /\ \A p \in {"/", "/auth/callback", "/mypage", "/family/join"} : ~Edge!IsApi(p)
BY DEF Edge!Hosts, Edge!Names, Edge!Paths, Edge!SpaRoutes, Edge!Routes, Edge!MovablePaths,
       Edge!RescuePaths, Edge!IsApi, Edge!Endpoints

LEMMA AnswerIs ==
  ASSUME Edge!SiteMoveAssumption, NEW status \in Statuses, NEW body \in Bodies
  PROVE  LET a == Edge!Answer(status, body)
         IN  a \in Given /\ a.to = Null /\ a.body = body /\ a.status = status
<1> DEFINE a == [status |-> status, body |-> body, to |-> Null]
<1>1. a \in Given /\ a.to = Null /\ a.body = body /\ a.status = status
  BY DEF Given
<1> QED BY <1>1 DEF Edge!Answer

LEMMA RedirectIs ==
  ASSUME Edge!SiteMoveAssumption, NEW status \in Statuses, NEW host \in Edge!Hosts, NEW path \in Edge!Paths,
         NEW query \in SUBSET Edge!Names
  PROVE  LET a == Edge!Redirect(status, host, path, query)
         IN  /\ a \in Given /\ a.to \in Target /\ a.body = "none"
             /\ a.to.host = host /\ a.to.path = path /\ a.to.query = query
<1> DEFINE to == [host |-> host, path |-> path, query |-> query]
           a == [status |-> status, body |-> "none", to |-> to]
<1>1. to \in Target /\ to.host = host /\ to.path = path /\ to.query = query
  BY DEF Target
<1>2. Edge!Redirect(status, host, path, query) = a
  BY DEF Edge!Redirect
<1> HIDE DEF to
<1>3. a \in Given /\ a.to = to /\ a.body = "none"
  BY <1>1 DEF Given, Bodies
<1> QED BY <1>1, <1>2, <1>3

\* What the middleware decides while a phase is set, of the requests that
\* matter here.
LEMMA ActionIs ==
  ASSUME NEW r \in Edge!Request, NEW phase
  PROVE  LET action == Edge!MigrationAction(r, phase)
         IN  /\ action \in {"missing", "method", "ended", "redirect", "next", "shell"}
             /\ action = "redirect" => r.path \in Edge!MovablePaths \cup Edge!Routes
             /\ r.path = "/auth/callback" => action \in {"missing", "method", "shell", "ended"}
             /\ Edge!IsApi(r.path) => action \in {"missing", "method", "next", "ended"}
<1> DEFINE action == Edge!MigrationAction(r, phase)
<1> SUFFICES    /\ action \in {"missing", "method", "ended", "redirect", "next", "shell"}
                /\ action = "redirect" => r.path \in Edge!MovablePaths \cup Edge!Routes
                /\ r.path = "/auth/callback" => action \in {"missing", "method", "shell", "ended"}
                /\ Edge!IsApi(r.path) => action \in {"missing", "method", "next", "ended"}
  OBVIOUS
<1> HIDE DEF action
<1>1. CASE r.path = "malformed" \/ r.host = "high"
  <2>1. action = "missing"
    BY <1>1 DEF Edge!MigrationAction, action
  <2> QED BY <2>1
<1>2. CASE ~(r.path = "malformed" \/ r.host = "high") /\ r.path = "/api/v1/schools"
  <2>1. action = "next"
    BY <1>2 DEF Edge!MigrationAction, action
  <2> QED BY <1>2, <2>1
<1>3. CASE ~(r.path = "malformed" \/ r.host = "high") /\ r.path # "/api/v1/schools" /\ Edge!IsApi(r.path)
  <2>1. action \in {"missing", "ended", "next", "method"}
    BY <1>3 DEF Edge!MigrationAction, action
  <2>2. r.path # "/auth/callback"
    BY <1>3 DEF Edge!IsApi, Edge!Endpoints
  <2> QED BY <2>1, <2>2
<1>4. CASE ~(r.path = "malformed" \/ r.host = "high") /\ r.path # "/api/v1/schools" /\ ~Edge!IsApi(r.path)
  <2> DEFINE rescued == phase = "rescue" /\ r.path \in Edge!RescuePaths
             gone == r.path \in {"/auth/callback", "/family/join", "/legacy-school",
                                 "/school-recovery-ended.html"}
  <2>1. CASE r.method \notin {"GET", "HEAD"}
    <3>1. action = "method"
      BY <1>4, <2>1 DEF Edge!MigrationAction, action
    <3> QED BY <1>4, <3>1
  <2>2. CASE r.method \in {"GET", "HEAD"} /\ rescued
    <3>1. action = "shell"
      BY <1>4, <2>2 DEF Edge!MigrationAction, action
    <3> QED BY <1>4, <3>1
  <2>3. CASE r.method \in {"GET", "HEAD"} /\ ~rescued /\ gone
    <3>1. action = "ended"
      BY <1>4, <2>3 DEF Edge!MigrationAction, action
    <3> QED BY <1>4, <3>1
  <2>4. CASE r.method \in {"GET", "HEAD"} /\ ~rescued /\ ~gone
    <3>1. /\ action \in {"redirect", "next", "missing"}
          /\ action = "redirect" => r.path \in Edge!MovablePaths \cup Edge!Routes
      BY <1>4, <2>4 DEF Edge!MigrationAction, action
    <3> QED BY <1>4, <2>4, <3>1
  <2> QED BY <2>1, <2>2, <2>3, <2>4
<1> QED BY <1>1, <1>2, <1>3, <1>4

LEMMA RespondOK ==
  ASSUME Edge!SiteMoveAssumption, NEW r \in Edge!Request PROVE AnswerOK(r, Edge!Respond(r))
<1> DEFINE a == Edge!Respond(r)
<1> SUFFICES AnswerOK(r, a)
  OBVIOUS
<1> HIDE DEF a
<1>1. r.path \in Edge!Paths /\ r.method \in {"GET", "HEAD", "POST"} /\ r.host \in Edge!Hosts
  BY DEF Edge!Request
<1>2. /\ {"portal", "none", "maintenance", "legacy", "app", "next", "notFound", "ended"} \subseteq Bodies
      /\ {200, 301, 302, 404, 405, 410, 503} \subseteq Statuses
  BY DEF Bodies, Statuses
<1>3. ASSUME NEW status \in Statuses, NEW body \in Bodies, a = Edge!Answer(status, body),
             r.path = "/auth/callback" /\ status = 200 /\ r.method # "POST" => IsPage(body),
             Edge!IsApi(r.path) => body \notin {"app", "legacy", "portal", "maintenance"}
      PROVE  AnswerOK(r, a)
  <2>1. a \in Given /\ a.to = Null /\ a.body = body /\ a.status = status
    BY <1>3, AnswerIs
  <2> QED BY <1>3, <2>1 DEF AnswerOK
<1>4. ASSUME NEW status \in Statuses, NEW host \in Edge!Hosts, NEW path \in Edge!Paths,
             NEW query \in SUBSET Edge!Names, a = Edge!Redirect(status, host, path, query),
             query \cap {"code", "tracking"} = {},
             host = "high" \/ (host = "old" /\ path = "/" /\ query = {}),
             r.path # "/auth/callback", ~Edge!IsApi(r.path)
      PROVE  AnswerOK(r, a)
  <2>1. /\ a \in Given /\ a.to \in Target /\ a.body = "none"
        /\ a.to.host = host /\ a.to.path = path /\ a.to.query = query
    BY <1>4, RedirectIs
  <2> QED BY <1>4, <2>1 DEF AnswerOK, LeadsOn, IsPage
<1>5. CASE Edge!Portal(r)
  <2>1. a = Edge!Answer(200, "portal") /\ r.path = "/"
    BY <1>5 DEF Edge!Respond, a, Edge!Portal
  <2> QED BY <1>2, <1>3, <2>1, EdgeNames
<1>6. CASE ~Edge!Portal(r) /\ Edge!ApexTracking(r)
  <2>1. a = Edge!Redirect(302, "old", "/", {}) /\ r.path = "/"
    BY <1>6 DEF Edge!Respond, a, Edge!ApexTracking, Edge!ApexQuery
  <2> QED BY <1>2, <1>4, <2>1, EdgeNames
<1>7. CASE /\ ~Edge!Portal(r) /\ ~Edge!ApexTracking(r)
           /\ Edge!EnvOf(r.host).phase # Null
  <2> DEFINE e == Edge!EnvOf(r.host)
             action == Edge!MigrationAction(r, e.phase)
  <2>1. a = Edge!AnswerInPhase(r, e)
    BY <1>7 DEF Edge!Respond, a
  <2>2. /\ action \in {"missing", "method", "ended", "redirect", "next", "shell"}
        /\ action = "redirect" => r.path \in Edge!MovablePaths \cup Edge!Routes
        /\ r.path = "/auth/callback" => action \in {"missing", "method", "shell", "ended"}
        /\ Edge!IsApi(r.path) => action \in {"missing", "method", "next", "ended"}
    BY ActionIs
  <2> HIDE DEF e, action
  <2>3. CASE ~e.inventory
    <3>1. a = Edge!Answer(503, "none")
      BY <2>1, <2>3 DEF Edge!AnswerInPhase
    <3> QED BY <1>2, <1>3, <3>1
  <2>4. CASE e.inventory /\ action = "redirect"
    <3>1. a = Edge!Redirect(301, "high", r.path, Edge!Forwarded(r.path, r.query))
      BY <2>1, <2>4 DEF Edge!AnswerInPhase, action
    <3>2. /\ Edge!Forwarded(r.path, r.query) \in SUBSET Edge!Names
          /\ Edge!Forwarded(r.path, r.query) \cap {"code", "tracking"} = {}
      <4>1. Edge!Forwarded(r.path, r.query) \subseteq {"position", "q"}
        BY DEF Edge!Forwarded
      <4> QED BY <4>1, EdgeNames
    <3>3. r.path # "/auth/callback" /\ ~Edge!IsApi(r.path) /\ "high" \in Edge!Hosts
      BY <2>2, <2>4, EdgeNames
    <3> QED BY <1>1, <1>2, <1>4, <3>1, <3>2, <3>3
  <2>5. CASE e.inventory /\ action = "shell"
    <3>1. a = Edge!Answer(503, "maintenance") \/ a = Edge!Answer(200, "legacy")
      BY <2>1, <2>5 DEF Edge!AnswerInPhase, action
    <3>2. ~Edge!IsApi(r.path)
      BY <2>2, <2>5
    <3> QED BY <1>2, <1>3, <3>1, <3>2 DEF IsPage
  <2>6. CASE e.inventory /\ action = "next"
    <3>1. a = Edge!Answer(200, "next")
      BY <2>1, <2>6 DEF Edge!AnswerInPhase, action
    <3>2. r.path # "/auth/callback"
      BY <2>2, <2>6
    <3> QED BY <1>2, <1>3, <3>1, <3>2
  <2>7. CASE e.inventory /\ action \in {"missing", "method", "ended"}
    <3>1. \/ a = Edge!Answer(404, "notFound") \/ a = Edge!Answer(405, "none")
          \/ a = Edge!Answer(410, "ended")
      BY <2>1, <2>7 DEF Edge!AnswerInPhase, action
    <3> QED BY <1>2, <1>3, <3>1
  <2> QED BY <2>2, <2>3, <2>4, <2>5, <2>6, <2>7
<1>8. CASE /\ ~Edge!Portal(r) /\ ~Edge!ApexTracking(r)
           /\ Edge!EnvOf(r.host).phase = Null
  <2> DEFINE e == Edge!EnvOf(r.host)
  <2>1. a = Edge!AnswerOutOfPhase(r, e)
    BY <1>8 DEF Edge!Respond, a
  <2> HIDE DEF e
  <2>2. CASE e.maintenance
    <3>1. CASE Edge!IsApi(r.path) \/ r.path \in Edge!AllowedInMaintenance
      <4>1. a = Edge!Answer(200, "next")
        BY <2>1, <2>2, <3>1 DEF Edge!AnswerOutOfPhase
      <4>2. r.path # "/auth/callback"
        BY <3>1, EdgeNames DEF Edge!AllowedInMaintenance, Edge!Assets
      <4> QED BY <1>2, <1>3, <4>1, <4>2
    <3>2. CASE ~(Edge!IsApi(r.path) \/ r.path \in Edge!AllowedInMaintenance)
      <4>1. a = Edge!Answer(503, "maintenance")
        BY <2>1, <2>2, <3>2 DEF Edge!AnswerOutOfPhase
      <4> QED BY <1>2, <1>3, <3>2, <4>1
    <3> QED BY <3>1, <3>2
  <2>3. CASE ~e.maintenance /\ r.method \in {"GET", "HEAD"} /\ r.path \in Edge!SpaRoutes
    <3>1. a = Edge!Answer(200, "legacy") \/ a = Edge!Answer(200, "app")
      BY <2>1, <2>3 DEF Edge!AnswerOutOfPhase
    <3>2. ~Edge!IsApi(r.path)
      BY <2>3 DEF Edge!SpaRoutes, Edge!MovablePaths, Edge!IsApi, Edge!Endpoints
    <3> QED BY <1>2, <1>3, <3>1, <3>2 DEF IsPage
  <2>4. CASE ~e.maintenance /\ ~(r.method \in {"GET", "HEAD"} /\ r.path \in Edge!SpaRoutes)
    <3>1. a = Edge!Answer(200, "next")
      BY <2>1, <2>4 DEF Edge!AnswerOutOfPhase
    <3>2. r.path = "/auth/callback" => r.method = "POST"
      BY <1>1, <2>4 DEF Edge!SpaRoutes
    <3> QED BY <1>2, <1>3, <3>1, <3>2
  <2> QED BY <2>2, <2>3, <2>4
<1> QED BY <1>5, <1>6, <1>7, <1>8

\* Where a redirect leads is answered at once.
LEMMA RedirectsLeadHome ==
  ASSUME Edge!SiteMoveAssumption, NEW to, LeadsOn(to)
  PROVE  LET r == Edge!Get(to.host, to.path, to.query)
         IN  r \in Edge!Request /\ Edge!Respond(r).to = Null
<1> DEFINE r == Edge!Get(to.host, to.path, to.query)
<1>1. /\ r \in Edge!Request /\ r.host = to.host /\ r.path = to.path /\ r.query = to.query
  <2>1. to \in Target
    BY DEF LeadsOn
  <2> QED BY <2>1 DEF Edge!Get, Edge!Request, Target
<1> HIDE DEF r
<1>2. CASE to.host = "old" /\ to.path = "/" /\ to.query = {}
  <2>1. Edge!Respond(r) = Edge!Answer(200, "portal")
    BY <1>1, <1>2 DEF Edge!Respond, Edge!Portal
  <2>2. Edge!Respond(r).to = Null
    BY <2>1, AnswerIs DEF Bodies, Statuses
  <2> QED BY <1>1, <2>2 DEF r
<1>3. CASE to.host = "high"
  <2> DEFINE e == Edge!EnvOf("high")
  <2>1. e.phase = Null /\ ~Edge!Portal(r) /\ ~Edge!ApexTracking(r)
    BY <1>1, <1>3 DEF Edge!EnvOf, Edge!Plain, Edge!Portal, Edge!ApexTracking
  <2>2. Edge!Respond(r) = Edge!AnswerOutOfPhase(r, e)
    BY <1>1, <1>3, <2>1 DEF Edge!Respond
  <2> HIDE DEF e
  <2>3. \/ Edge!Respond(r) = Edge!Answer(200, "next") \/ Edge!Respond(r) = Edge!Answer(200, "legacy")
        \/ Edge!Respond(r) = Edge!Answer(200, "app") \/ Edge!Respond(r) = Edge!Answer(503, "maintenance")
    BY <2>2 DEF Edge!AnswerOutOfPhase
  <2>4. Edge!Respond(r).to = Null
    BY <2>3, AnswerIs DEF Bodies, Statuses
  <2> QED BY <1>1, <2>4 DEF r
<1> QED BY <1>2, <1>3 DEF LeadsOn

-----------------------------------------------------------------------------
(* The tab, the logins and the notices.                                     *)

Tabs == [request: Edge!Request, answer: Given, hops: Nat]
Landings == {"/family/join", "/mypage"}
Settings == [phase: Phases \cup {Null}, maintenance: BOOLEAN, inventory: BOOLEAN, legacyShell: BOOLEAN]

TabInv ==
  /\ env \in Settings
  /\ tab \in Tabs /\ AnswerOK(tab.request, tab.answer)
  /\ tab.hops > 0 => tab.answer.to = Null

\* What the page of a login's return knows: a page that has landed somewhere
\* has landed where the login asked for.
CallbackOK ==
  callback # Null =>
    /\ callback \in Edge!Callback
    /\ attempt # Null /\ tab.request.host = attempt.host /\ IsPage(tab.answer.body)
    /\ ~callback.done => callback.landed = Null
    /\ callback.landed # Null =>
         /\ callback.landed = callback.expected
         /\ callback.landed \in Landings \/ (callback.landed = "/" /\ tab.answer.body # "legacy")

\* What is kept of a login that is under way.
Kept(a) == IF a.start \in Landings THEN [path |-> a.start, age |-> a.age] ELSE Null

LoginInv ==
  /\ saved \in [Edge!Hosts -> {Null} \cup Edge!Return]
  /\ attempt \in {Null} \cup Edge!Attempt
  /\ attempt # Null /\ (callback = Null \/ ~callback.done) => saved[attempt.host] = Kept(attempt)
  /\ CallbackOK

Notices == {"before", "after"}
Dates == Nat \cup {Null}

\* The dates a notice was closed for are at most the one that is remembered,
\* and that one at most the date of the move.
ClosedUpTo(d, switch) ==
  \A n \in Notices :
    /\ d[n] # Null => switch # Null /\ d[n] <= switch
    /\ \A c \in closed[n] : d[n] # Null /\ c <= d[n]

MountedOK ==
  mounted # Null =>
    /\ mounted \in [day: Nat, switch: Dates, dismissed: [Notices -> Dates]]
    /\ mounted.switch # Null => switchDate # Null /\ mounted.switch <= switchDate
    /\ ClosedUpTo(mounted.dismissed, mounted.switch)

NoticeInv ==
  /\ today \in Nat /\ switchDate \in Dates
  /\ dismissed \in [Notices -> Dates] /\ closed \in [Notices -> SUBSET Nat]
  /\ ClosedUpTo(dismissed, switchDate) /\ MountedOK

EdgeInv == TabInv /\ LoginInv /\ NoticeInv

LEMMA EdgeInitial == Edge!SiteMoveAssumption /\ Edge!Init => EdgeInv
<1> SUFFICES ASSUME Edge!SiteMoveAssumption, Edge!Init PROVE EdgeInv
  OBVIOUS
<1>1. TabInv
  <2> DEFINE r == Edge!Get("old", "/", {})
             a == Edge!Respond(r)
  <2>1. r \in Edge!Request
    BY EdgeNames DEF Edge!Get, Edge!Request
  <2>2. AnswerOK(r, a)
    BY <2>1, RespondOK
  <2> HIDE DEF a
  <2>3. tab = [request |-> r, answer |-> a, hops |-> 0]
    BY DEF Edge!Init, Edge!Visited, a
  <2> HIDE DEF r
  <2>4. tab \in Tabs /\ tab.request = r /\ tab.answer = a /\ tab.hops = 0
    BY <2>1, <2>2, <2>3 DEF Tabs, AnswerOK
  <2>5. env \in Settings
    BY DEF Edge!Init, Settings
  <2> QED BY <2>2, <2>4, <2>5 DEF TabInv
<1>2. LoginInv
  BY DEF Edge!Init, LoginInv, CallbackOK
<1>3. NoticeInv
  BY DEF Edge!Init, NoticeInv, MountedOK, ClosedUpTo, Notices, Dates
<1> QED BY <1>1, <1>2, <1>3 DEF EdgeInv

\* A page is requested, by the visitor or by a redirect.
LEMMA ShownIs ==
  ASSUME Edge!SiteMoveAssumption, NEW r \in Edge!Request, NEW h \in Nat,
         h > 0 => Edge!Respond(r).to = Null,
         tab' = [request |-> r, answer |-> Edge!Respond(r), hops |-> h], env' \in Settings
  PROVE  TabInv' /\ tab'.request = r /\ tab'.answer = Edge!Respond(r)
<1> DEFINE a == Edge!Respond(r)
<1>1. AnswerOK(r, a)
  BY RespondOK
<1> HIDE DEF a
<1>2. tab' = [request |-> r, answer |-> a, hops |-> h]
  BY DEF a
<1>3. tab' \in Tabs /\ tab'.request = r /\ tab'.answer = a /\ tab'.hops = h
  BY <1>1, <1>2 DEF Tabs, AnswerOK
<1>4. h > 0 => a.to = Null
  BY DEF a
<1>5. TabInv'
  BY <1>1, <1>3, <1>4 DEF TabInv
<1> QED BY <1>3, <1>5 DEF a

\* A page that is mounted reads what was closed and when the move is.
LEMMA MountKeeps ==
  ASSUME Edge!SiteMoveAssumption, NoticeInv, NEW answer, Edge!Mount(answer),
         UNCHANGED <<today, switchDate, dismissed, closed>>
  PROVE  NoticeInv'
<1> DEFINE m == [day |-> today, switch |-> switchDate, dismissed |-> dismissed]
<1>1. mounted' = m \/ mounted' = Null
  BY DEF Edge!Mount
<1>2. /\ m \in [day: Nat, switch: Dates, dismissed: [Notices -> Dates]]
      /\ m.switch = switchDate /\ m.dismissed = dismissed
  BY DEF NoticeInv
<1> HIDE DEF m
<1>3. ClosedUpTo(dismissed, switchDate)' /\ (switchDate # Null => switchDate <= switchDate)
  BY DEF NoticeInv, ClosedUpTo, Dates
<1>4. MountedOK'
  BY <1>1, <1>2, <1>3 DEF MountedOK, ClosedUpTo
<1> QED BY <1>3, <1>4 DEF NoticeInv

LEMMA NoticeStays ==
  ASSUME NoticeInv, UNCHANGED <<today, switchDate, dismissed, closed, mounted>> PROVE NoticeInv'
BY DEF NoticeInv, MountedOK, ClosedUpTo

\* The operator's switches, and time.
LEMMA OperatorKeeps ==
  ASSUME Edge!SiteMoveAssumption, EdgeInv, Edge!Operator PROVE EdgeInv'
<1>1. ASSUME UNCHANGED <<tab, kind, hasData, saved, attempt, attempts, callback>>, env' \in Settings
      PROVE  TabInv' /\ LoginInv'
  BY <1>1 DEF EdgeInv, TabInv, LoginInv, CallbackOK
<1>2. CASE (\E p \in Phases \cup {Null} : Edge!SetPhase(p)) \/ Edge!ToggleMaintenance \/ Edge!BreakInventory
  <2>1. /\ UNCHANGED <<tab, kind, hasData, saved, attempt, attempts, callback,
                       today, switchDate, dismissed, closed, mounted>>
        /\ \/ \E p \in Phases \cup {Null} : env' = [env EXCEPT !.phase = p]
           \/ env' = [env EXCEPT !.maintenance = ~env.maintenance]
           \/ env' = [env EXCEPT !.inventory = ~env.inventory]
    BY <1>2 DEF Edge!SetPhase, Edge!ToggleMaintenance, Edge!BreakInventory, Edge!login, Edge!notice
  <2>2. env \in Settings
    BY DEF EdgeInv, TabInv
  <2>3. env' \in Settings
    <3>1. ASSUME NEW p \in Phases \cup {Null} PROVE [env EXCEPT !.phase = p] \in Settings
      BY <2>2 DEF Settings
    <3>2. ASSUME NEW b \in BOOLEAN PROVE [env EXCEPT !.maintenance = b] \in Settings
      BY <2>2 DEF Settings
    <3>3. ASSUME NEW b \in BOOLEAN PROVE [env EXCEPT !.inventory = b] \in Settings
      BY <2>2 DEF Settings
    <3>4. (~env.maintenance) \in BOOLEAN /\ (~env.inventory) \in BOOLEAN
      OBVIOUS
    <3> QED BY <2>1, <3>1, <3>2, <3>3, <3>4
  <2> QED BY <1>1, <2>1, <2>3, NoticeStays DEF EdgeInv
<1>3. CASE Edge!NextDay \/ Edge!Postpone
  <2>1. UNCHANGED <<env, tab, kind, hasData, saved, attempt, attempts, callback, dismissed, closed, mounted>>
    BY <1>3 DEF Edge!NextDay, Edge!Postpone, Edge!login
  <2>2. \/ today' = today + 1 /\ switchDate' = switchDate
        \/ today' = today /\ switchDate # Null /\ switchDate' = switchDate + 1
    BY <1>3 DEF Edge!NextDay, Edge!Postpone
  <2>3. today' \in Nat
    BY <2>2 DEF EdgeInv, NoticeInv
  <2>4. /\ switchDate' \in Dates /\ (switchDate # Null <=> switchDate' # Null)
        /\ \A c \in Nat : switchDate # Null /\ c <= switchDate => c <= switchDate'
    BY <2>2 DEF EdgeInv, NoticeInv, Dates, Edge!SiteMoveAssumption
  <2>5. NoticeInv'
    <3>1. /\ dismissed \in [Notices -> Dates] /\ closed \in [Notices -> SUBSET Nat]
          /\ ClosedUpTo(dismissed, switchDate) /\ MountedOK
      BY DEF EdgeInv, NoticeInv
    <3>2. ClosedUpTo(dismissed', switchDate')
      BY <2>1, <2>4, <3>1 DEF ClosedUpTo, Dates
    <3>3. MountedOK'
      BY <2>1, <2>4, <3>1 DEF MountedOK, ClosedUpTo, Dates
    <3>4. ClosedUpTo(dismissed, switchDate)'
      BY <2>1, <3>2 DEF ClosedUpTo
    <3> QED BY <2>1, <2>3, <2>4, <3>1, <3>3, <3>4 DEF NoticeInv
  <2>6. env' \in Settings
    BY <2>1 DEF EdgeInv, TabInv
  <2> QED BY <1>1, <2>1, <2>5, <2>6 DEF EdgeInv
<1> QED BY <1>2, <1>3 DEF Edge!Operator

LEMMA LoginsStay ==
  ASSUME LoginInv, UNCHANGED <<tab, saved, attempt, callback>> PROVE LoginInv'
BY DEF LoginInv, CallbackOK

\* Pages are opened and redirects followed.
LEMMA PagesKeep ==
  ASSUME Edge!SiteMoveAssumption, EdgeInv, Edge!Visit \/ Edge!FollowRedirect PROVE EdgeInv'
<1>1. env \in Settings /\ tab \in Tabs /\ AnswerOK(tab.request, tab.answer)
  BY DEF EdgeInv, TabInv
<1>2. CASE Edge!Visit
  <2>1. PICK r \in Visits : tab' = Edge!Visited(r)
    BY <1>2 DEF Edge!Visit
  <2>2. /\ Edge!Mount(tab'.answer) /\ callback' = Null /\ attempt' = Null
        /\ UNCHANGED <<env, saved, today, switchDate, dismissed, closed>>
    BY <1>2 DEF Edge!Visit
  <2>3. r \in Edge!Request /\ tab' = [request |-> r, answer |-> Edge!Respond(r), hops |-> 0]
    BY <2>1 DEF Edge!SiteMoveAssumption, Edge!Visited
  <2>4. TabInv'
    BY <1>1, <2>2, <2>3, ShownIs
  <2>5. LoginInv'
    BY <2>2 DEF EdgeInv, LoginInv, CallbackOK
  <2>6. NoticeInv'
    BY <2>2, MountKeeps DEF EdgeInv
  <2> QED BY <2>4, <2>5, <2>6 DEF EdgeInv
<1>3. CASE Edge!FollowRedirect
  <2> DEFINE to == tab.answer.to
             r == Edge!Get(to.host, to.path, to.query)
  <2>1. /\ to # Null /\ tab' = [request |-> r, answer |-> Edge!Respond(r), hops |-> tab.hops + 1]
        /\ Edge!Mount(tab'.answer)
        /\ UNCHANGED <<env, saved, attempt, callback, today, switchDate, dismissed, closed>>
    BY <1>3 DEF Edge!FollowRedirect, Edge!login
  <2>2. LeadsOn(to)
    BY <1>1, <2>1 DEF AnswerOK
  <2>3. r \in Edge!Request /\ Edge!Respond(r).to = Null
    BY <2>2, RedirectsLeadHome
  <2>4. tab.hops + 1 \in Nat
    BY <1>1 DEF Tabs
  <2>5. callback = Null
    BY <1>1, <2>1 DEF EdgeInv, LoginInv, CallbackOK, AnswerOK
  <2> HIDE DEF r
  <2>6. TabInv'
    BY <1>1, <2>1, <2>3, <2>4, ShownIs
  <2>7. LoginInv'
    BY <2>1, <2>5 DEF EdgeInv, LoginInv, CallbackOK
  <2>8. NoticeInv'
    BY <2>1, MountKeeps DEF EdgeInv
  <2> QED BY <2>6, <2>7, <2>8 DEF EdgeInv
<1> QED BY <1>2, <1>3

LEMMA OlderIs ==
  ASSUME Edge!SiteMoveAssumption
  PROVE  /\ \A s \in {Null} \cup Edge!Return : Edge!Older(s) \in {Null} \cup Edge!Return
         /\ Edge!Older(Null) = Null
         /\ \A a \in Edge!Attempt :
              /\ Edge!Older(a) \in Edge!Attempt /\ Edge!Older(a).host = a.host
              /\ Kept(Edge!Older(a)) = Edge!Older(Kept(a))
<1>1. Edge!Older(Null) = Null
  BY DEF Edge!Older
<1>2. ASSUME NEW s \in Edge!Return
      PROVE  /\ s # Null /\ Edge!Older(s) \in Edge!Return
             /\ Edge!Older(s) = [path |-> s.path, age |-> IF s.age = 2 THEN 2 ELSE s.age + 1]
  <2>1. s # Null /\ s = [path |-> s.path, age |-> s.age] /\ s.age \in 0..2
    BY DEF Edge!SiteMoveAssumption, Edge!Return
  <2>2. Edge!Older(s) = [path |-> s.path, age |-> IF s.age = 2 THEN 2 ELSE s.age + 1]
    BY <2>1 DEF Edge!Older
  <2>3. (IF s.age = 2 THEN 2 ELSE s.age + 1) \in 0..2
    BY <2>1
  <2> QED BY <2>1, <2>2, <2>3 DEF Edge!Return
<1>3. ASSUME NEW a \in Edge!Attempt
      PROVE  /\ Edge!Older(a) \in Edge!Attempt /\ Edge!Older(a).host = a.host
             /\ Kept(Edge!Older(a)) = Edge!Older(Kept(a))
  <2> DEFINE later == IF a.age = 2 THEN 2 ELSE a.age + 1
             b == Edge!Older(a)
  <2>1. a # Null /\ a = [start |-> a.start, host |-> a.host, age |-> a.age] /\ a.age \in 0..2
    BY DEF Edge!SiteMoveAssumption, Edge!Attempt
  <2>2. b = [start |-> a.start, host |-> a.host, age |-> later] /\ later \in 0..2
    BY <2>1 DEF Edge!Older
  <2>3. b \in Edge!Attempt /\ b.host = a.host /\ b.start = a.start /\ b.age = later
    BY <2>2 DEF Edge!Attempt
  <2>4. CASE a.start \in Landings
    <3>1. Kept(a) \in Edge!Return /\ Kept(a) = [path |-> a.start, age |-> a.age]
      BY <2>1, <2>4 DEF Kept, Edge!Return, Landings
    <3>2. Edge!Older(Kept(a)) = [path |-> a.start, age |-> later]
      BY <1>2, <3>1
    <3>3. Kept(b) = [path |-> a.start, age |-> later]
      BY <2>3, <2>4 DEF Kept
    <3> QED BY <2>3, <3>2, <3>3
  <2>5. CASE a.start \notin Landings
    BY <1>1, <2>3, <2>5 DEF Kept
  <2> QED BY <2>4, <2>5
<1> QED BY <1>1, <1>2, <1>3

\* A login begins, and time passes while it is under way.
LEMMA LoginKeeps ==
  ASSUME Edge!SiteMoveAssumption, EdgeInv, Edge!StartLogin \/ Edge!TimePasses PROVE EdgeInv'
<1>1. /\ tab \in Tabs /\ saved \in [Edge!Hosts -> {Null} \cup Edge!Return]
      /\ attempt \in {Null} \cup Edge!Attempt /\ CallbackOK
  BY DEF EdgeInv, TabInv, LoginInv
<1>2. CASE Edge!StartLogin
  <2> DEFINE start == IF kind = "anon" THEN "/mypage" ELSE tab.request.path
             host == tab.request.host
             a == [start |-> start, host |-> host, age |-> 0]
  <2>1. /\ callback' = Null /\ attempt' = a
        /\ saved' = [saved EXCEPT ![host] = Edge!Remembered(saved[host], start)]
        /\ UNCHANGED <<env, tab, today, switchDate, dismissed, closed, mounted>>
    BY <1>2 DEF Edge!StartLogin, Edge!Path, Edge!Host, Edge!notice
  <2>2. start \in Edge!Paths /\ host \in Edge!Hosts
    BY <1>1, EdgeNames DEF Tabs, Edge!Request
  <2> HIDE DEF start, host
  <2>3. /\ a \in Edge!Attempt /\ a.host = host /\ a.start = start /\ a.age = 0
    BY <2>2 DEF Edge!Attempt
  <2> HIDE DEF a
  <2>4. Edge!Remembered(saved[host], start) = Kept(a) /\ Kept(a) \in {Null} \cup Edge!Return
    BY <2>3 DEF Edge!Remembered, Kept, Landings, Edge!Return
  <2>5. saved' \in [Edge!Hosts -> {Null} \cup Edge!Return] /\ saved'[host] = Kept(a)
    BY <1>1, <2>1, <2>2, <2>4
  <2>6. LoginInv'
    BY <2>1, <2>3, <2>5 DEF LoginInv, CallbackOK
  <2> QED BY <2>1, <2>6, NoticeStays DEF EdgeInv, TabInv
<1>3. CASE Edge!TimePasses
  <2>1. /\ saved' = [h \in Edge!Hosts |-> Edge!Older(saved[h])] /\ attempt' = Edge!Older(attempt)
        /\ UNCHANGED <<env, tab, callback, today, switchDate, dismissed, closed, mounted>>
    BY <1>3 DEF Edge!TimePasses, Edge!notice
  <2>2. saved' \in [Edge!Hosts -> {Null} \cup Edge!Return]
    BY <1>1, <2>1, OlderIs
  <2>3. CASE attempt = Null
    <3>1. attempt' = Null /\ callback = Null /\ callback' = Null
      BY <1>1, <2>1, <2>3, OlderIs DEF CallbackOK
    <3>2. LoginInv'
      BY <2>2, <3>1 DEF LoginInv, CallbackOK
    <3> QED BY <2>1, <3>2, NoticeStays DEF EdgeInv, TabInv
  <2>4. CASE attempt # Null
    <3>1. /\ attempt \in Edge!Attempt /\ attempt' \in Edge!Attempt /\ attempt'.host = attempt.host
          /\ Kept(attempt') = Edge!Older(Kept(attempt))
      BY <1>1, <2>1, <2>4, OlderIs
    <3>2. attempt.host \in Edge!Hosts /\ attempt' # Null
      BY <3>1 DEF Edge!Attempt, Edge!SiteMoveAssumption
    <3>3. callback' = Null \/ ~callback'.done => saved'[attempt'.host] = Kept(attempt')
      BY <2>1, <2>4, <3>1, <3>2 DEF EdgeInv, LoginInv
    <3>4. CallbackOK'
      BY <1>1, <2>1, <3>1, <3>2 DEF CallbackOK
    <3>5. LoginInv'
      BY <2>2, <3>1, <3>3, <3>4 DEF LoginInv
    <3> QED BY <2>1, <3>5, NoticeStays DEF EdgeInv, TabInv
  <2> QED BY <2>3, <2>4
<1> QED BY <1>2, <1>3

\* The provider sends the browser back.
LEMMA ReturnKeeps ==
  ASSUME Edge!SiteMoveAssumption, EdgeInv, Edge!ProviderReturns PROVE EdgeInv'
<1> DEFINE r == Edge!Get(attempt.host, "/auth/callback", {"code"})
           a == Edge!Respond(r)
<1>1. PICK failed \in BOOLEAN :
        callback' = IF a.body \notin {"app", "legacy"} THEN Null
                    ELSE [done |-> failed, failure |-> IF failed THEN "error" ELSE Null,
                          landed |-> Null, expected |-> Null]
  BY DEF Edge!ProviderReturns
<1>2. /\ attempt # Null /\ callback = Null /\ attempt' = (IF callback' = Null THEN Null ELSE attempt)
      /\ tab' = [request |-> r, answer |-> a, hops |-> 0] /\ Edge!Mount(tab'.answer)
      /\ UNCHANGED <<env, saved, today, switchDate, dismissed, closed>>
  BY DEF Edge!ProviderReturns, Edge!Visited
<1>3. attempt \in Edge!Attempt /\ attempt.host \in Edge!Hosts
  BY <1>2 DEF EdgeInv, LoginInv, Edge!Attempt
<1>4. r \in Edge!Request /\ r.host = attempt.host
  BY <1>3, EdgeNames DEF Edge!Get, Edge!Request
<1> HIDE DEF r
<1>5. TabInv' /\ tab'.request = r /\ tab'.answer = a
  <2>1. env' \in Settings
    BY <1>2 DEF EdgeInv, TabInv
  <2> QED BY <1>2, <1>4, <2>1, ShownIs
<1>6. CallbackOK'
  <2> SUFFICES ASSUME callback' # Null PROVE CallbackOK'
    BY DEF CallbackOK
  <2>1. /\ callback' = [done |-> failed, failure |-> IF failed THEN "error" ELSE Null,
                        landed |-> Null, expected |-> Null]
        /\ IsPage(a.body) /\ attempt' = attempt
    BY <1>1, <1>2 DEF IsPage
  <2>2. callback' \in Edge!Callback /\ callback'.landed = Null
    BY <2>1 DEF Edge!Callback
  <2> QED BY <1>2, <1>4, <1>5, <2>1, <2>2 DEF CallbackOK
<1>7. LoginInv'
  BY <1>2, <1>6 DEF EdgeInv, LoginInv
<1>8. NoticeInv'
  BY <1>2, MountKeeps DEF EdgeInv
<1> QED BY <1>5, <1>7, <1>8 DEF EdgeInv

LEMMA FallbackIs ==
  /\ Edge!Fallback \in {"/", "/mypage"}
  /\ Edge!Fallback = "/" => tab.answer.body # "legacy"
BY DEF Edge!Fallback, Edge!Legacy

\* The session is there: the page the login was started from.
LEMMA SignedInKeeps ==
  ASSUME Edge!SiteMoveAssumption, EdgeInv, Edge!SignedIn PROVE EdgeInv'
<1> DEFINE host == tab.request.host
           landed == Edge!Consumed
           expected == IF attempt.start \in {"/family/join", "/mypage"} /\ attempt.age <= 1
                       THEN attempt.start ELSE Edge!Fallback
<1>1. /\ callback # Null /\ ~callback.done /\ saved' = [saved EXCEPT ![host] = Null]
      /\ callback' = [callback EXCEPT !.done = TRUE, !.landed = landed, !.expected = expected]
      /\ UNCHANGED <<env, tab, attempt, today, switchDate, dismissed, closed, mounted>>
  BY DEF Edge!SignedIn, Edge!Done, Edge!Host, Edge!notice
<1>2. /\ callback \in Edge!Callback /\ attempt # Null /\ attempt \in Edge!Attempt
      /\ host = attempt.host /\ IsPage(tab.answer.body)
      /\ saved \in [Edge!Hosts -> {Null} \cup Edge!Return] /\ saved[host] = Kept(attempt)
  BY <1>1 DEF EdgeInv, LoginInv, CallbackOK
<1>3. landed = expected
  <2>1. attempt.age \in 0..2
    BY <1>2 DEF Edge!Attempt
  <2>2. CASE attempt.start \in Landings
    <3> DEFINE k == [path |-> attempt.start, age |-> attempt.age]
    <3>1. saved[host] = k
      BY <1>2, <2>2 DEF Kept
    <3>2. k \in Edge!Return
      BY <2>1, <2>2 DEF Edge!Return, Landings
    <3>3. saved[host] # Null /\ saved[host].path = attempt.start /\ saved[host].age = attempt.age
      BY <3>1, <3>2 DEF Edge!SiteMoveAssumption
    <3> QED BY <2>2, <3>3 DEF Edge!Consumed, Edge!Host, Edge!Fresh, Landings
  <2>3. CASE attempt.start \notin Landings
    <3>1. saved[host] = Null
      BY <1>2, <2>3 DEF Kept
    <3> QED BY <2>3, <3>1 DEF Edge!Consumed, Edge!Host, Landings
  <2> QED BY <2>2, <2>3
<1>4. /\ landed \in Landings \/ (landed = "/" /\ tab.answer.body # "legacy")
      /\ landed \in Edge!Paths
  BY <1>3, FallbackIs, EdgeNames DEF Landings
<1> HIDE DEF landed, expected, host
<1>5. /\ callback' \in Edge!Callback /\ callback'.done /\ callback'.landed = landed
      /\ callback'.expected = expected
  BY <1>1, <1>2, <1>3, <1>4 DEF Edge!Callback
<1>6. callback' # Null
  BY <1>5 DEF Edge!SiteMoveAssumption
<1>7. CallbackOK'
  BY <1>1, <1>2, <1>3, <1>4, <1>5 DEF CallbackOK, host
<1>8. saved' \in [Edge!Hosts -> {Null} \cup Edge!Return]
  BY <1>1, <1>2
<1>9. LoginInv'
  BY <1>1, <1>2, <1>5, <1>6, <1>7, <1>8 DEF LoginInv
<1> QED BY <1>1, <1>9, NoticeStays DEF EdgeInv, TabInv

\* The page of the return gives up, or is left for where it landed.
LEMMA LandingKeeps ==
  ASSUME Edge!SiteMoveAssumption, EdgeInv, Edge!CallbackTimeout \/ Edge!Land PROVE EdgeInv'
<1>1. CASE Edge!CallbackTimeout
  <2>1. /\ callback # Null /\ ~callback.done
        /\ callback' = [callback EXCEPT !.done = TRUE, !.failure = "timeout"]
        /\ UNCHANGED <<env, tab, saved, attempt, today, switchDate, dismissed, closed, mounted>>
    BY <1>1 DEF Edge!CallbackTimeout, Edge!Done, Edge!notice
  <2>2. callback \in Edge!Callback /\ callback.landed = Null
    BY <2>1 DEF EdgeInv, LoginInv, CallbackOK
  <2>3. callback' \in Edge!Callback /\ callback'.done /\ callback'.landed = Null
    BY <2>1, <2>2 DEF Edge!Callback
  <2>4. callback' # Null
    BY <2>3 DEF Edge!SiteMoveAssumption
  <2>5. CallbackOK'
    BY <2>1, <2>3 DEF EdgeInv, LoginInv, CallbackOK
  <2>6. LoginInv'
    BY <2>1, <2>3, <2>4, <2>5 DEF EdgeInv, LoginInv
  <2> QED BY <2>1, <2>6, NoticeStays DEF EdgeInv, TabInv
<1>2. CASE Edge!Land
  <2> DEFINE path == IF callback.landed # Null THEN callback.landed ELSE Edge!Fallback
             r == Edge!Get(tab.request.host, path, {})
  <2>1. /\ callback # Null /\ tab' = [tab EXCEPT !.request = r] /\ callback' = Null /\ attempt' = Null
        /\ UNCHANGED <<env, saved, today, switchDate, dismissed, closed, mounted>>
    BY <1>2 DEF Edge!Land, Edge!Host, Edge!notice
  <2>2. /\ tab \in Tabs /\ IsPage(tab.answer.body) /\ AnswerOK(tab.request, tab.answer)
        /\ path \in {"/", "/mypage", "/family/join"}
    BY <2>1, FallbackIs DEF EdgeInv, TabInv, LoginInv, CallbackOK, Landings
  <2> HIDE DEF path
  <2>3. r \in Edge!Request /\ r.path = path
    BY <2>2, EdgeNames DEF Edge!Get, Edge!Request, Tabs
  <2> HIDE DEF r
  <2>4. /\ tab' \in Tabs /\ tab'.request = r /\ tab'.answer = tab.answer /\ tab'.hops = tab.hops
    BY <2>1, <2>2, <2>3 DEF Tabs
  <2>5. AnswerOK(r, tab.answer)
    BY <2>2, <2>3, EdgeNames DEF AnswerOK
  <2>6. TabInv'
    BY <2>1, <2>4, <2>5 DEF EdgeInv, TabInv
  <2>7. LoginInv'
    BY <2>1 DEF EdgeInv, LoginInv, CallbackOK
  <2> QED BY <2>1, <2>6, <2>7, NoticeStays DEF EdgeInv
<1> QED BY <1>1, <1>2

\* A notice is closed.
LEMMA DismissKeeps ==
  ASSUME Edge!SiteMoveAssumption, EdgeInv, Edge!Dismiss PROVE EdgeInv'
<1> DEFINE n == Edge!Notice
           now == mounted.switch
<1>1. /\ n \in Notices /\ mounted' = [mounted EXCEPT !.dismissed[n] = now]
      /\ \/ /\ dismissed' = [dismissed EXCEPT ![n] = now]
            /\ closed' = [closed EXCEPT ![n] = closed[n] \cup {now}]
         \/ UNCHANGED <<dismissed, closed>>
      /\ UNCHANGED <<env, tab, kind, hasData, saved, attempt, attempts, callback, today, switchDate>>
  BY DEF Edge!Dismiss, Edge!ClosedFor, Notices, Edge!login
<1>2. mounted # Null /\ now # Null
  BY <1>1 DEF Edge!Notice, Notices
<1> HIDE DEF n
<1> DEFINE d == [mounted.dismissed EXCEPT ![n] = now]
<1>3. /\ mounted \in [day: Nat, switch: Dates, dismissed: [Notices -> Dates]]
      /\ now \in Nat /\ switchDate # Null /\ now <= switchDate /\ switchDate \in Nat
      /\ ClosedUpTo(mounted.dismissed, now) /\ ClosedUpTo(dismissed, switchDate)
      /\ dismissed \in [Notices -> Dates] /\ closed \in [Notices -> SUBSET Nat]
  BY <1>2 DEF EdgeInv, NoticeInv, MountedOK, Dates
<1>4. mounted' = [mounted EXCEPT !.dismissed = d]
  BY <1>1
<1>5. d \in [Notices -> Dates] /\ d[n] = now /\ \A m \in Notices \ {n} : d[m] = mounted.dismissed[m]
  BY <1>1, <1>3 DEF Dates
<1> HIDE DEF d
<1>6. /\ mounted' \in [day: Nat, switch: Dates, dismissed: [Notices -> Dates]]
      /\ mounted'.switch = now /\ mounted'.dismissed = d
  BY <1>3, <1>4, <1>5
<1> HIDE DEF now
<1>7. \A c \in closed[n] : c \in Nat /\ c <= now
  BY <1>1, <1>3 DEF ClosedUpTo, Dates
<1>8. /\ closed' \in [Notices -> SUBSET Nat]
      /\ \A m \in Notices : m # n => closed'[m] = closed[m]
      /\ closed'[n] \subseteq closed[n] \cup {now}
  BY <1>1, <1>3
<1>9. \A m \in Notices : /\ d[m] # Null => d[m] <= now
                         /\ \A c \in closed'[m] : d[m] # Null /\ c <= d[m]
  <2> SUFFICES ASSUME NEW m \in Notices
               PROVE  /\ d[m] # Null => d[m] <= now
                      /\ \A c \in closed'[m] : d[m] # Null /\ c <= d[m]
    OBVIOUS
  <2>1. CASE m = n
    BY <1>2, <1>3, <1>5, <1>7, <1>8, <2>1 DEF now
  <2>2. CASE m # n
    BY <1>3, <1>5, <1>8, <2>2 DEF ClosedUpTo
  <2> QED BY <2>1, <2>2
<1>10. MountedOK'
  <2>1. ClosedUpTo(mounted.dismissed, mounted.switch)'
    BY <1>2, <1>6, <1>9 DEF ClosedUpTo, now
  <2> QED BY <1>1, <1>3, <1>6, <2>1 DEF MountedOK
<1>11. dismissed' \in [Notices -> Dates] /\ ClosedUpTo(dismissed, switchDate)'
  <2>1. CASE /\ dismissed' = [dismissed EXCEPT ![n] = now]
             /\ closed' = [closed EXCEPT ![n] = closed[n] \cup {now}]
    <3>1. /\ dismissed' \in [Notices -> Dates] /\ dismissed'[n] = now
          /\ \A m \in Notices \ {n} : dismissed'[m] = dismissed[m]
      BY <1>1, <1>3, <2>1 DEF Dates
    <3>2. ASSUME NEW m \in Notices
          PROVE  /\ dismissed'[m] # Null => switchDate # Null /\ dismissed'[m] <= switchDate
                 /\ \A c \in closed'[m] : dismissed'[m] # Null /\ c <= dismissed'[m]
      <4>1. CASE m = n
        BY <1>2, <1>3, <1>7, <1>8, <3>1, <4>1 DEF now
      <4>2. CASE m # n
        BY <1>3, <1>8, <3>1, <4>2 DEF ClosedUpTo
      <4> QED BY <4>1, <4>2
    <3> QED BY <1>1, <3>1, <3>2 DEF ClosedUpTo
  <2>2. CASE UNCHANGED <<dismissed, closed>>
    BY <1>1, <1>3, <2>2 DEF ClosedUpTo
  <2> QED BY <1>1, <2>1, <2>2
<1>12. NoticeInv'
  BY <1>1, <1>8, <1>10, <1>11 DEF EdgeInv, NoticeInv
<1> QED BY <1>1, <1>12, LoginsStay DEF EdgeInv, TabInv

LEMMA EdgeStep == Edge!SiteMoveAssumption /\ EdgeInv /\ [Edge!Next]_(Edge!vars) => EdgeInv'
<1> SUFFICES ASSUME Edge!SiteMoveAssumption, EdgeInv, [Edge!Next]_(Edge!vars) PROVE EdgeInv'
  OBVIOUS
<1>1. ASSUME UNCHANGED <<env, tab, saved, attempt, callback, today, switchDate, dismissed, closed,
                         mounted>>
      PROVE  EdgeInv'
  BY <1>1, LoginsStay, NoticeStays DEF EdgeInv, TabInv
<1>2. CASE UNCHANGED Edge!vars
  BY <1>1, <1>2 DEF Edge!vars, Edge!login, Edge!notice
<1>3. CASE Edge!BecomeGuest \/ Edge!SaveSomething \/ Edge!SignOut
  BY <1>1, <1>3 DEF Edge!BecomeGuest, Edge!SaveSomething, Edge!SignOut, Edge!notice
<1> QED BY <1>2, <1>3, OperatorKeeps, PagesKeep, LoginKeeps, ReturnKeeps, SignedInKeeps, LandingKeeps,
           DismissKeeps DEF Edge!Next

\* The counters of the tab, the days and what the notices remember stay within
\* the bounds of the model.
Days == 0..LastDay
DayOrNone == Days \cup {Null}

MoveBounds ==
  /\ tab.hops \in 0..2
  /\ kind \in {"null", "anon", "account"} /\ hasData \in BOOLEAN /\ attempts \in 0..MaxAttempts
  /\ today \in Days /\ switchDate \in DayOrNone
  /\ dismissed \in [Notices -> DayOrNone] /\ closed \in [Notices -> SUBSET Days]
  /\ mounted \in {Null} \cup [day: Days, switch: DayOrNone, dismissed: [Notices -> DayOrNone]]

LEMMA MoveIsTyped ==
  ASSUME Edge!SiteMoveAssumption, EdgeInv, MoveBounds PROVE Edge!SiteMoveTypeOK
<1>1. /\ env \in Settings /\ tab \in Tabs /\ saved \in [Edge!Hosts -> {Null} \cup Edge!Return]
      /\ attempt \in {Null} \cup Edge!Attempt /\ callback \in {Null} \cup Edge!Callback
  BY DEF EdgeInv, TabInv, LoginInv, CallbackOK
<1>2. tab \in [request: Edge!Request, answer: [status: {200, 301, 302, 404, 405, 410, 503},
               body: {"app", "legacy", "portal", "maintenance", "next", "notFound", "ended", "none"},
               to: {Null} \cup [host: Edge!Hosts, path: Edge!Paths, query: SUBSET Edge!Names]],
               hops: 0..2]
  <2> DEFINE A == [status: {200, 301, 302, 404, 405, 410, 503},
                   body: {"app", "legacy", "portal", "maintenance", "next", "notFound", "ended", "none"},
                   to: {Null} \cup [host: Edge!Hosts, path: Edge!Paths, query: SUBSET Edge!Names]]
  <2>1. Given \subseteq A
    <3>1. ASSUME NEW a \in Given PROVE a \in A
      <4>1. /\ a = [status |-> a.status, body |-> a.body, to |-> a.to]
            /\ a.status \in Statuses /\ a.body \in Bodies /\ a.to \in {Null} \cup Target
        BY <3>1 DEF Given
      <4> QED BY <4>1 DEF Statuses, Bodies, Target
    <3> QED BY <3>1
  <2> HIDE DEF A
  <2>2. tab.hops \in 0..2
    BY DEF MoveBounds
  <2>3. tab = [request |-> tab.request, answer |-> tab.answer, hops |-> tab.hops]
        /\ tab.request \in Edge!Request /\ tab.answer \in Given
    BY <1>1 DEF Tabs
  <2>4. tab \in [request: Edge!Request, answer: A, hops: 0..2]
    BY <2>1, <2>2, <2>3
  <2> QED BY <2>4 DEF A
<1> QED BY <1>1, <1>2 DEF Edge!SiteMoveTypeOK, MoveBounds, Settings, Days, DayOrNone, Notices

LEMMA BoundsInitial == Edge!SiteMoveAssumption /\ Edge!Init => MoveBounds
<1> SUFFICES ASSUME Edge!SiteMoveAssumption, Edge!Init PROVE MoveBounds
  OBVIOUS
<1>1. tab.hops = 0
  <2> DEFINE r == Edge!Get("old", "/", {})
             a == Edge!Respond(r)
  <2>1. tab = [request |-> r, answer |-> a, hops |-> 0]
    BY DEF Edge!Init, Edge!Visited
  <2> HIDE DEF r, a
  <2> QED BY <2>1
<1>2. 0 \in Days /\ 0 \in 0..MaxAttempts
  BY DEF Edge!SiteMoveAssumption, Days
<1>3. switchDate \in DayOrNone
  BY DEF Edge!Init, DayOrNone, Days
<1>4. dismissed \in [Notices -> DayOrNone] /\ closed \in [Notices -> SUBSET Days]
  BY DEF Edge!Init, DayOrNone, Notices
<1>5. kind = "null" /\ attempts = 0 /\ today = 0 /\ mounted = Null
  BY DEF Edge!Init
<1>6. hasData \in BOOLEAN
  BY DEF Edge!Init
<1> QED BY <1>1, <1>2, <1>3, <1>4, <1>5, <1>6 DEF MoveBounds

\* A page that is mounted reads the days there are.
LEMMA MountBounds ==
  ASSUME MoveBounds, NEW answer, Edge!Mount(answer), tab'.hops \in 0..2,
         UNCHANGED <<kind, hasData, attempts, today, switchDate, dismissed, closed>>
  PROVE  MoveBounds'
<1> DEFINE m == [day |-> today, switch |-> switchDate, dismissed |-> dismissed]
<1>1. mounted' = m \/ mounted' = Null
  BY DEF Edge!Mount
<1>2. m \in [day: Days, switch: DayOrNone, dismissed: [Notices -> DayOrNone]]
  BY DEF MoveBounds
<1> HIDE DEF m
<1> QED BY <1>1, <1>2 DEF MoveBounds, Days, DayOrNone

LEMMA BoundsStep ==
  ASSUME Edge!SiteMoveAssumption, EdgeInv, MoveBounds, [Edge!Next]_(Edge!vars) PROVE MoveBounds'
<1>1. ASSUME UNCHANGED <<today, switchDate, dismissed, closed, mounted>>, tab'.hops = tab.hops,
             kind' \in {"null", "anon", "account"}, hasData' \in BOOLEAN, attempts' \in 0..MaxAttempts
      PROVE  MoveBounds'
  BY <1>1 DEF MoveBounds, Days, DayOrNone
<1>2. CASE UNCHANGED Edge!vars
  BY <1>1, <1>2 DEF Edge!vars, Edge!login, Edge!notice, MoveBounds
<1>3. CASE \/ \E p \in Phases \cup {Null} : Edge!SetPhase(p)
           \/ Edge!ToggleMaintenance \/ Edge!BreakInventory
  BY <1>1, <1>3 DEF Edge!SetPhase, Edge!ToggleMaintenance, Edge!BreakInventory, Edge!login,
                    Edge!notice, MoveBounds
<1>4. CASE Edge!NextDay
  <2>1. today \in Nat /\ today < LastDay /\ today' = today + 1
    BY <1>4 DEF Edge!NextDay, MoveBounds, Days
  <2>2. today' \in Days
    BY <2>1 DEF Days, Edge!SiteMoveAssumption
  <2> QED BY <1>4, <2>2 DEF Edge!NextDay, Edge!login, MoveBounds, Days, DayOrNone
<1>5. CASE Edge!Postpone
  <2>1. switchDate # Null /\ switchDate \in DayOrNone /\ switchDate < LastDay /\ switchDate' = switchDate + 1
    BY <1>5 DEF Edge!Postpone, MoveBounds
  <2>2. switchDate' \in DayOrNone
    BY <2>1 DEF Days, DayOrNone, Edge!SiteMoveAssumption
  <2> QED BY <1>5, <2>2 DEF Edge!Postpone, Edge!login, MoveBounds, Days, DayOrNone
<1>6. CASE Edge!Visit
  <2>1. PICK r \in Visits : tab' = Edge!Visited(r)
    BY <1>6 DEF Edge!Visit
  <2>2. tab'.hops = 0
    BY <2>1 DEF Edge!Visited
  <2> QED BY <1>6, <2>2, MountBounds DEF Edge!Visit
<1>7. CASE Edge!FollowRedirect
  <2>1. tab.hops < 2 /\ tab'.hops = tab.hops + 1 /\ tab.hops \in 0..2
    BY <1>7 DEF Edge!FollowRedirect, MoveBounds
  <2>2. tab'.hops \in 0..2
    BY <2>1
  <2> QED BY <1>7, <2>2, MountBounds DEF Edge!FollowRedirect, Edge!login
<1>8. CASE Edge!StartLogin
  <2>1. attempts \in 0..MaxAttempts /\ attempts < MaxAttempts /\ attempts' = attempts + 1
    BY <1>8 DEF Edge!StartLogin, MoveBounds
  <2>2. attempts' \in 0..MaxAttempts
    BY <2>1 DEF Edge!SiteMoveAssumption
  <2> QED BY <1>1, <1>8, <2>2 DEF Edge!StartLogin, Edge!notice, MoveBounds
<1>9. CASE Edge!TimePasses \/ Edge!CallbackTimeout \/ Edge!BecomeGuest \/ Edge!SaveSomething
           \/ Edge!SignOut \/ Edge!SignedIn
  BY <1>1, <1>9 DEF Edge!TimePasses, Edge!CallbackTimeout, Edge!BecomeGuest, Edge!SaveSomething,
                    Edge!SignOut, Edge!SignedIn, Edge!notice, MoveBounds
<1>10. CASE Edge!ProviderReturns
  <2>1. /\ \E failed \in BOOLEAN : tab' = Edge!Visited(Edge!Get(attempt.host, "/auth/callback", {"code"}))
        /\ Edge!Mount(tab'.answer)
        /\ UNCHANGED <<kind, hasData, attempts, today, switchDate, dismissed, closed>>
    BY <1>10 DEF Edge!ProviderReturns
  <2>2. tab'.hops = 0
    BY <2>1 DEF Edge!Visited
  <2> QED BY <2>1, <2>2, MountBounds
<1>11. CASE Edge!Land
  <2> DEFINE path == IF callback.landed # Null THEN callback.landed ELSE Edge!Fallback
             r == Edge!Get(tab.request.host, path, {})
  <2>1. tab' = [tab EXCEPT !.request = r] /\ UNCHANGED <<kind, hasData, attempts>>
        /\ UNCHANGED <<today, switchDate, dismissed, closed, mounted>>
    BY <1>11 DEF Edge!Land, Edge!Host, Edge!notice
  <2> HIDE DEF r
  <2>2. tab'.hops = tab.hops
    BY <2>1 DEF EdgeInv, TabInv, Tabs
  <2> QED BY <1>1, <2>1, <2>2 DEF MoveBounds
<1>12. CASE Edge!Dismiss
  <2> DEFINE n == Edge!Notice
             now == mounted.switch
  <2>1. /\ n \in Notices /\ mounted' = [mounted EXCEPT !.dismissed[n] = now]
        /\ \/ /\ dismissed' = [dismissed EXCEPT ![n] = now]
              /\ closed' = [closed EXCEPT ![n] = closed[n] \cup {now}]
           \/ UNCHANGED <<dismissed, closed>>
        /\ UNCHANGED <<tab, kind, hasData, attempts, today, switchDate>>
    BY <1>12 DEF Edge!Dismiss, Edge!ClosedFor, Notices, Edge!login
  <2>2. mounted # Null /\ now # Null
    BY <2>1 DEF Edge!Notice, Notices
  <2> HIDE DEF n
  <2>3. /\ mounted \in [day: Days, switch: DayOrNone, dismissed: [Notices -> DayOrNone]]
        /\ now \in Days /\ dismissed \in [Notices -> DayOrNone] /\ closed \in [Notices -> SUBSET Days]
    BY <2>2 DEF MoveBounds, DayOrNone
  <2> DEFINE d == [mounted.dismissed EXCEPT ![n] = now]
  <2>4. mounted' = [mounted EXCEPT !.dismissed = d]
    BY <2>1
  <2>5. d \in [Notices -> DayOrNone]
    BY <2>1, <2>3 DEF DayOrNone
  <2> HIDE DEF d, now
  <2>6. mounted' \in [day: Days, switch: DayOrNone, dismissed: [Notices -> DayOrNone]]
    BY <2>3, <2>4, <2>5
  <2>7. dismissed' \in [Notices -> DayOrNone] /\ closed' \in [Notices -> SUBSET Days]
    BY <2>1, <2>3 DEF DayOrNone
  <2> QED BY <2>1, <2>6, <2>7 DEF MoveBounds, Days, DayOrNone
<1> QED BY <1>2, <1>3, <1>4, <1>5, <1>6, <1>7, <1>8, <1>9, <1>10, <1>11, <1>12
        DEF Edge!Next, Edge!Operator

\* While the old address is rescued, a page a login lands on is served there.
LEMMA LandingsAreServed ==
  ASSUME Edge!SiteMoveAssumption, EdgeInv PROVE Edge!LandingIsRescued
<1> SUFFICES ASSUME callback # Null, callback.landed # Null, tab.answer.body = "legacy",
                    env.phase = "rescue", env.inventory, ~env.maintenance
             PROVE  Edge!Respond(Edge!Get("old", callback.landed, {})).body = "legacy"
  BY DEF Edge!LandingIsRescued, Edge!Legacy
<1> DEFINE r == Edge!Get("old", callback.landed, {})
<1>1. callback.landed \in Landings
  BY DEF EdgeInv, LoginInv, CallbackOK
<1>2. r.host = "old" /\ r.path \in Landings /\ r.method = "GET" /\ r.query = {}
  BY <1>1 DEF Edge!Get
<1> HIDE DEF r
<1>3. ~Edge!Portal(r) /\ ~Edge!ApexTracking(r)
  BY <1>2 DEF Edge!Portal, Edge!ApexTracking, Landings
<1>4. Edge!EnvOf(r.host) = env /\ env.phase # Null
  BY <1>2 DEF Edge!EnvOf, Edge!SiteMoveAssumption
<1>5. Edge!MigrationAction(r, "rescue") = "shell"
  BY <1>2, EdgeNames DEF Edge!MigrationAction, Landings, Edge!RescuePaths
<1>6. Edge!Respond(r) = Edge!Answer(200, "legacy")
  BY <1>3, <1>4, <1>5 DEF Edge!Respond, Edge!AnswerInPhase
<1>7. Edge!Respond(r).body = "legacy"
  BY <1>6 DEF Edge!Answer
<1> QED BY <1>7 DEF r

\* Moving to another address loses nobody: no redirect carries a login's code
\* on and every redirect ends, a login comes back to where it started and that
\* page is served, a guest with data is told in time, and a notice that was
\* closed stays closed: whatever is requested, for any number of logins, days
\* and switches of the operator (_middleware.ts 126-204, siteMoveRecovery.ts
\* 11-31, siteMove.ts 7-21).
LEMMA MoveLosesNobody ==
  Edge!SiteMoveAssumption => (Edge!Spec => [](Edge!SiteMoveTypeOK /\ Edge!EdgeKeepsItsPromises))
<1> SUFFICES ASSUME Edge!SiteMoveAssumption
             PROVE  Edge!Spec => [](Edge!SiteMoveTypeOK /\ Edge!EdgeKeepsItsPromises)
  OBVIOUS
<1>1. EdgeInv => Edge!EdgeKeepsItsPromises
  <2> SUFFICES ASSUME EdgeInv PROVE Edge!EdgeKeepsItsPromises
    OBVIOUS
  <2>1. Edge!NothingForwarded /\ Edge!RedirectsEnd
    BY DEF EdgeInv, TabInv, AnswerOK, LeadsOn, Tabs, Edge!NothingForwarded, Edge!RedirectsEnd
  <2>2. Edge!CallbackIsAnsweredHere
    <3> DEFINE r == tab.request
               a == tab.answer
    <3>1. AnswerOK(r, a) /\ Edge!IsApi("/api/unknown")
      BY DEF EdgeInv, TabInv, Edge!IsApi
    <3> HIDE DEF r, a
    <3>2. /\ r.path = "/auth/callback" =>
               a.to = Null /\ (a.status = 200 /\ r.method # "POST" => a.body \in {"app", "legacy"})
          /\ Edge!IsApi(r.path) \/ r.path = "/api/unknown" =>
               a.body \notin {"app", "legacy", "portal", "maintenance"} /\ a.to = Null
      BY <3>1 DEF AnswerOK, IsPage
    <3> QED BY <3>2 DEF Edge!CallbackIsAnsweredHere, Edge!Path, Edge!InApp, r, a
  <2>3. Edge!ReturnsWhereItStarted
    BY DEF EdgeInv, LoginInv, CallbackOK, Edge!ReturnsWhereItStarted
  <2>4. Edge!GuestIsTold
    BY DEF EdgeInv, NoticeInv, MountedOK, Dates, Edge!GuestIsTold, Edge!Notice, Edge!IsDismissed
  <2>5. Edge!ClosedStaysClosed
    <3> SUFFICES ASSUME Edge!Notice \in Notices, mounted.switch \in closed[Edge!Notice] PROVE FALSE
      BY DEF Edge!ClosedStaysClosed, Notices
    <3> DEFINE n == Edge!Notice
    <3>1. mounted # Null /\ mounted.switch # Null /\ ~Edge!IsDismissed(n)
      BY DEF Edge!Notice, Notices
    <3> HIDE DEF n
    <3>2. n \in Notices /\ mounted.switch \in closed[n]
      BY DEF n
    <3>3. mounted.dismissed[n] # Null /\ mounted.switch <= mounted.dismissed[n]
          /\ mounted.dismissed[n] <= mounted.switch
      BY <3>1, <3>2 DEF EdgeInv, NoticeInv, MountedOK, ClosedUpTo
    <3>4. mounted.dismissed[n] = mounted.switch
      BY <3>1, <3>2, <3>3 DEF EdgeInv, NoticeInv, MountedOK, Dates
    <3> QED BY <3>1, <3>2, <3>4 DEF Edge!IsDismissed, Notices
  <2> QED BY <2>1, <2>2, <2>3, <2>4, <2>5, LandingsAreServed DEF Edge!EdgeKeepsItsPromises
<1>2. EdgeInv /\ MoveBounds => Edge!SiteMoveTypeOK
  BY MoveIsTyped
<1>3. EdgeInv /\ MoveBounds /\ [Edge!Next]_(Edge!vars) => MoveBounds'
  BY BoundsStep
<1> QED BY <1>1, <1>2, <1>3, EdgeInitial, BoundsInitial, EdgeStep, PTL DEF Edge!Spec

-----------------------------------------------------------------------------
(* The search on the top page (PlaceSearch).                                *)

CONSTANTS Queries, Form, Known, Towns, Fit, Limit, Slots

VARIABLES text, timer, lastQuery, searches, spinner, failed, candidates, selected, hint,
          locating, promise, indexes

Seek == INSTANCE PlaceSearch WITH Cities <- Towns

\* A search for a text is out.
Out(q) == \E i \in Slots : searches[i] # Null /\ searches[i].query = q

\* The spinner turns for a search that will end it: one for the last text, or
\* any one once the field was cleared.
SpinnerOK ==
  spinner => \E i \in Slots : searches[i] # Null /\ lastQuery \in {Null, searches[i].query}

\* Candidates and failures of another text than the last one only stand until
\* that one is answered.
ResultOK ==
  /\ candidates # Null => lastQuery # Null /\ (candidates.of = lastQuery \/ Out(lastQuery))
  /\ failed /\ lastQuery # Null => Out(lastQuery)

\* A text in the field waits for its timer, or was searched for.
FieldOK ==
  /\ timer \in {Null, text}
  /\ text # Null /\ timer = Null => lastQuery = text \/ (lastQuery = Null /\ failed)
  /\ hint = Seek!Searching => timer # Null \/ lastQuery # Null

ChoiceOK ==
  /\ selected # Null => hint = Seek!Chosen(selected) \/ hint.says \in {"locating", "no position"}
  /\ \A p \in Seek!Places : hint = Seek!Chosen(p) => selected = p

SeekInv ==
  /\ Seek!SearchTypeOK /\ SpinnerOK /\ ResultOK /\ FieldOK /\ ChoiceOK
  /\ indexes = "waiting" => promise \in {"manifest", "files"}
  /\ indexes = "read" => promise = "read"

LEMMA HintFacts ==
  /\ Seek!Searching \in Seek!Hints /\ [says |-> "locating"] \in Seek!Hints
  /\ [says |-> "no position"] \in Seek!Hints /\ Seek!Searching.says = "searching"
  /\ [says |-> "locating"].says = "locating" /\ [says |-> "no position"].says = "no position"
  /\ \A p \in Seek!Places : Seek!Chosen(p) \in Seek!Hints /\ Seek!Chosen(p).says = "ok"
                            /\ Seek!Chosen(p).place = p
  /\ \A f \in {"postal", "geocoder", "position"}, q \in Queries \cup {Null} :
       Seek!Place(f, q) \in Seek!Places
  /\ \A p, q \in Seek!Places : Seek!Chosen(p) = Seek!Chosen(q) => p = q
BY DEF Seek!Searching, Seek!Hints, Seek!Chosen, Seek!Place, Seek!Places

\* Searches that are out ask somebody.
LEMMA AskedIs ==
  ASSUME Seek!PlaceSearchAssumption, NEW q \in Queries
  PROVE  Len(Seek!Asked(q)) \in 1 .. 3
<1>1. Form[q] \in {"address", "compound", "postal", "station"}
  BY DEF Seek!PlaceSearchAssumption
<1> QED BY <1>1 DEF Seek!Asked

\* What a hint says tells which it is.
LEMMA OtherHints ==
  ASSUME Seek!PlaceSearchAssumption,
         NEW h \in {Seek!Searching, [says |-> "locating"], [says |-> "no position"], Null},
         NEW p \in Seek!Places
  PROVE  h # Seek!Chosen(p)
<1>1. Seek!Chosen(p) \in Seek!Hints /\ Seek!Chosen(p).says = "ok"
  BY HintFacts
<1>2. h = Null \/ h.says \in {"searching", "locating", "no position"}
  BY HintFacts
<1> QED BY <1>1, <1>2 DEF Seek!PlaceSearchAssumption

\* A place is chosen, and said to be.
LEMMA ChosenNow ==
  ASSUME NEW p \in Seek!Places, selected' = p, hint' = Seek!Chosen(p)
  PROVE  ChoiceOK'
BY HintFacts DEF ChoiceOK

\* No place is chosen, and none is said to be.
LEMMA NoneChosen ==
  ASSUME Seek!PlaceSearchAssumption, selected' = Null, hint' \in {Null, Seek!Searching}
  PROVE  ChoiceOK'
BY OtherHints DEF ChoiceOK

\* A search that finds nothing takes back that it is searching, nothing else.
LEMMA SoftenKeeps ==
  ASSUME Seek!PlaceSearchAssumption, ChoiceOK, hint' = Seek!Soften, UNCHANGED selected,
         selected \in {Null} \cup Seek!Places
  PROVE  ChoiceOK'
<1>1. CASE hint = Seek!Searching
  <2>1. hint' = Null
    BY <1>1 DEF Seek!Soften
  <2>2. selected = Null
    BY <1>1, HintFacts DEF ChoiceOK
  <2> QED BY <2>1, <2>2, NoneChosen
<1>2. CASE hint # Seek!Searching
  BY <1>2 DEF Seek!Soften, ChoiceOK
<1> QED BY <1>1, <1>2

LEMMA SeekInitial == Seek!PlaceSearchAssumption /\ Seek!Init => SeekInv
<1> SUFFICES ASSUME Seek!PlaceSearchAssumption, Seek!Init PROVE SeekInv
  OBVIOUS
<1>1. Seek!SearchTypeOK
  BY DEF Seek!Init, Seek!SearchTypeOK
<1>2. SpinnerOK /\ ResultOK
  BY DEF Seek!Init, SpinnerOK, ResultOK
<1>3. Seek!Searching # Null
  BY HintFacts DEF Seek!PlaceSearchAssumption
<1>4. FieldOK
  BY <1>3 DEF Seek!Init, FieldOK
<1>5. ChoiceOK
  BY OtherHints DEF Seek!Init, ChoiceOK
<1> QED BY <1>1, <1>2, <1>4, <1>5 DEF SeekInv, Seek!Init

LEMMA TypingKeeps ==
  ASSUME Seek!PlaceSearchAssumption, SeekInv,
         (\E q \in Queries \cup {Null} : Seek!Input(q)) \/ Seek!ClearQuery
  PROVE  SeekInv'
<1> USE DEF Seek!index, SeekInv
<1>1. Seek!Searching # Null /\ Seek!Searching \in Seek!Hints
      /\ \A p \in Seek!Places : p # Null /\ Seek!Chosen(p) # Seek!Searching /\ Seek!Chosen(p) # Null
  BY HintFacts DEF Seek!PlaceSearchAssumption
<1>2. CASE Seek!ClearQuery \/ Seek!Input(Null)
  <2>1. /\ text' = Null /\ timer' = Null /\ lastQuery' = Null /\ hint' = Null /\ candidates' = Null
        /\ selected' = Null /\ failed' = FALSE
        /\ UNCHANGED <<searches, spinner, locating, promise, indexes>>
    BY <1>2 DEF Seek!ClearQuery, Seek!Input
  <2>2. Seek!SearchTypeOK'
    BY <2>1 DEF Seek!SearchTypeOK
  <2>3. SpinnerOK' /\ ResultOK'
    BY <2>1 DEF SpinnerOK, ResultOK
  <2>4. FieldOK' /\ ChoiceOK'
    BY <1>1, <2>1 DEF FieldOK, ChoiceOK
  <2> QED BY <2>1, <2>2, <2>3, <2>4
<1>3. CASE \E q \in Queries : Seek!Input(q)
  <2>1. PICK q \in Queries : Seek!Input(q)
    BY <1>3
  <2> DEFINE p == Seek!Place("postal", q)
  <2>2. q # Null /\ p \in Seek!Places
    BY HintFacts DEF Seek!PlaceSearchAssumption
  <2>3. /\ text' = q /\ timer' = q /\ failed' = FALSE
        /\ UNCHANGED <<candidates, lastQuery, searches, spinner, locating, promise, indexes>>
        /\ \/ selected' = p /\ hint' = Seek!Chosen(p)
           \/ selected' = Null /\ hint' = Seek!Searching
    BY <2>1, <2>2 DEF Seek!Input
  <2> HIDE DEF p
  <2>4. Seek!SearchTypeOK'
    BY <1>1, <2>2, <2>3, HintFacts DEF Seek!SearchTypeOK
  <2>5. SpinnerOK' /\ ResultOK'
    BY <2>3 DEF SpinnerOK, ResultOK, Out
  <2>6. FieldOK'
    BY <2>2, <2>3 DEF FieldOK
  <2>7. ChoiceOK'
    BY <2>2, <2>3, ChosenNow, NoneChosen
  <2> QED BY <2>3, <2>4, <2>5, <2>6, <2>7
<1> QED BY <1>2, <1>3

LEMMA RunSearchKeeps ==
  ASSUME Seek!PlaceSearchAssumption, SeekInv, Seek!RunSearch
  PROVE  SeekInv'
<1> USE DEF Seek!index, SeekInv
<1>1. /\ timer \in Queries /\ timer # Null /\ timer = text /\ timer' = Null
      /\ UNCHANGED <<text, failed, candidates, selected, hint, locating, promise, indexes>>
  BY DEF Seek!RunSearch, Seek!SearchTypeOK, FieldOK
<1>2. ChoiceOK'
  BY <1>1 DEF ChoiceOK
<1>3. CASE timer = lastQuery
  <2>1. UNCHANGED <<lastQuery, searches, spinner>>
    BY <1>3 DEF Seek!RunSearch
  <2> QED BY <1>1, <1>2, <1>3, <2>1 DEF Seek!SearchTypeOK, SpinnerOK, ResultOK, FieldOK, Out
<1>4. CASE timer # lastQuery
  <2> DEFINE s == [query |-> timer, step |-> 1, retried |-> FALSE, outside |-> FALSE]
  <2>1. PICK i \in Slots : /\ lastQuery' = timer /\ spinner' = TRUE /\ searches[i] = Null
                           /\ searches' = [searches EXCEPT ![i] = s]
    BY <1>4 DEF Seek!RunSearch
  <2>2. s \in Seek!Search /\ s.query = timer /\ s.step = 1
    BY <1>1 DEF Seek!Search
  <2> HIDE DEF s
  <2> DEFINE most == Len(Seek!Asked(timer))
  <2>3. s # Null /\ 1 <= most
    <3>1. most \in 1 .. 3
      BY <1>1, AskedIs
    <3> HIDE DEF most
    <3> QED BY <2>2, <3>1 DEF Seek!PlaceSearchAssumption
  <2>4. searches \in [Slots -> {Null} \cup Seek!Search]
    BY DEF Seek!SearchTypeOK
  <2>5. /\ searches'[i] = s /\ \A j \in Slots : j # i => searches'[j] = searches[j]
        /\ searches' \in [Slots -> {Null} \cup Seek!Search]
    BY <2>1, <2>2, <2>4
  <2>6. Out(lastQuery)'
    BY <1>1, <2>1, <2>2, <2>3, <2>5 DEF Out
  <2>7. Seek!SearchTypeOK'
    BY <1>1, <2>1, <2>2, <2>3, <2>5 DEF Seek!SearchTypeOK
  <2>8. SpinnerOK' /\ ResultOK'
    BY <1>1, <2>1, <2>6 DEF SpinnerOK, ResultOK, Out
  <2>9. FieldOK'
    BY <1>1, <2>1 DEF FieldOK
  <2> QED BY <1>1, <1>2, <2>7, <2>8, <2>9
<1> QED BY <1>3, <1>4

\* A search is answered or fails: it ends the spinner if it should, and is
\* dropped if another text was searched for since.
LEMMA AnswerKeeps ==
  ASSUME Seek!PlaceSearchAssumption, SeekInv, NEW i \in Slots, searches[i] # Null,
         searches' = [searches EXCEPT ![i] = Null],
         UNCHANGED <<text, timer, locating, promise, indexes>>,
         Seek!Broken(searches[i].query) \/ \E found \in BOOLEAN : Seek!Done(searches[i].query, found)
  PROVE  SeekInv'
<1> USE DEF SeekInv
<1> DEFINE q == searches[i].query
<1>1. /\ searches \in [Slots -> {Null} \cup Seek!Search] /\ searches[i] \in Seek!Search
      /\ q \in Queries /\ q # Null
  BY DEF Seek!SearchTypeOK, Seek!Search, Seek!PlaceSearchAssumption
<1> HIDE DEF q
<1>2. /\ searches'[i] = Null /\ \A j \in Slots : j # i => searches'[j] = searches[j]
      /\ searches' \in [Slots -> {Null} \cup Seek!Search]
  BY <1>1
<1>3. \A r : r # q /\ Out(r) => Out(r)'
  BY <1>2 DEF Out, q
<1>4. \A r \in Queries : Seek!Place("geocoder", r) \in Seek!Places
  BY HintFacts
<1>5. Seek!Soften \in {hint, Null} /\ Seek!Soften # Seek!Searching
  BY HintFacts DEF Seek!Soften, Seek!PlaceSearchAssumption
<1>6. ChoiceOK /\ selected \in {Null} \cup Seek!Places
  BY DEF Seek!SearchTypeOK
<1>7. CASE Seek!Outdated(q)
  <2>1. /\ q # lastQuery
        /\ UNCHANGED <<lastQuery, failed, candidates, selected, hint>>
        /\ spinner' = IF lastQuery = Null THEN FALSE ELSE spinner
    BY <1>7 DEF Seek!Broken, Seek!Done, Seek!Outdated, Seek!SpinnerAfter, q
  <2>2. Seek!SearchTypeOK'
    BY <1>2, <2>1 DEF Seek!SearchTypeOK
  <2>3. SpinnerOK'
    BY <1>2, <2>1 DEF SpinnerOK, q
  <2>4. ResultOK'
    BY <1>3, <2>1 DEF ResultOK
  <2>5. FieldOK' /\ ChoiceOK'
    BY <2>1 DEF FieldOK, ChoiceOK
  <2> QED BY <2>2, <2>3, <2>4, <2>5
<1>8. CASE ~Seek!Outdated(q) /\ Seek!Broken(q)
  <2>1. /\ candidates' = Null /\ failed' = TRUE /\ hint' = Seek!Soften /\ lastQuery' = Null
        /\ spinner' = FALSE /\ UNCHANGED selected
    BY <1>8 DEF Seek!Broken, Seek!SpinnerAfter, Seek!Forgotten
  <2>2. Seek!SearchTypeOK'
    BY <1>2, <1>5, <2>1 DEF Seek!SearchTypeOK
  <2>3. SpinnerOK' /\ ResultOK'
    BY <2>1 DEF SpinnerOK, ResultOK
  <2>4. FieldOK'
    BY <1>5, <2>1 DEF FieldOK
  <2>5. ChoiceOK'
    BY <1>6, <2>1, SoftenKeeps
  <2> QED BY <2>2, <2>3, <2>4, <2>5
<1>9. CASE ~Seek!Outdated(q) /\ \E found \in BOOLEAN : Seek!Done(q, found)
  <2>1. PICK found \in BOOLEAN : Seek!Done(q, found)
    BY <1>9
  <2> DEFINE c == [of |-> q, found |-> found]
             p == Seek!Place("geocoder", q)
  <2>2. /\ c \in Seek!Candidates /\ c.of = q
    BY <1>1 DEF Seek!Candidates
  <2>3. /\ lastQuery = q /\ UNCHANGED lastQuery /\ candidates' = c /\ failed' = FALSE /\ spinner' = FALSE
        /\ \/ selected' = p /\ hint' = Seek!Chosen(p)
           \/ hint' = Seek!Soften /\ UNCHANGED selected
    BY <1>9, <2>1 DEF Seek!Done, Seek!Outdated, Seek!SpinnerAfter
  <2> HIDE DEF c, p
  <2>4. p \in Seek!Places /\ Seek!Chosen(p) \in Seek!Hints /\ Seek!Chosen(p) # Seek!Searching
    BY <1>1, HintFacts DEF p
  <2>5. Seek!SearchTypeOK'
    BY <1>2, <1>5, <2>2, <2>3, <2>4 DEF Seek!SearchTypeOK
  <2>6. SpinnerOK' /\ ResultOK'
    BY <1>1, <2>2, <2>3 DEF SpinnerOK, ResultOK
  <2>7. FieldOK'
    BY <1>1, <2>3 DEF FieldOK
  <2>8. ChoiceOK'
    BY <1>6, <2>3, <2>4, ChosenNow, SoftenKeeps
  <2> QED BY <2>5, <2>6, <2>7, <2>8
<1> QED BY <1>7, <1>8, <1>9 DEF q

LEMMA SearchKeeps ==
  ASSUME Seek!PlaceSearchAssumption, SeekInv, NEW i \in Slots,
         Seek!Retried(i) \/ Seek!SearchFailed(i)
         \/ \E places \in {"inside", "outside", "none"} : Seek!Answered(i, places)
  PROVE  SeekInv'
<1> USE DEF Seek!typing, Seek!result, Seek!index, SeekInv
<1>1. searches \in [Slots -> {Null} \cup Seek!Search] /\ Null \notin Seek!Search
  BY DEF Seek!SearchTypeOK, Seek!PlaceSearchAssumption
<1>2. searches[i] # Null
  BY DEF Seek!Retried, Seek!SearchFailed, Seek!Answered
<1>3. ASSUME NEW s \in Seek!Search, s.query = searches[i].query, s.step <= Len(Seek!Asked(s.query)),
             searches' = [searches EXCEPT ![i] = s],
             UNCHANGED <<text, timer, lastQuery, spinner, failed, candidates, selected, hint, locating,
                         promise, indexes>>
      PROVE  SeekInv'
  <2>1. /\ searches'[i] = s /\ \A j \in Slots : j # i => searches'[j] = searches[j]
        /\ searches' \in [Slots -> {Null} \cup Seek!Search]
    BY <1>1, <1>3
  <2>2. \A j \in Slots : searches[j] # Null => searches'[j] # Null /\ searches'[j].query = searches[j].query
    BY <1>1, <1>3, <2>1
  <2>3. Seek!SearchTypeOK'
    BY <1>3, <2>1 DEF Seek!SearchTypeOK
  <2>4. SpinnerOK' /\ ResultOK'
    BY <1>3, <2>2 DEF SpinnerOK, ResultOK, Out
  <2>5. FieldOK' /\ ChoiceOK'
    BY <1>3 DEF FieldOK, ChoiceOK
  <2> QED BY <1>3, <2>3, <2>4, <2>5
<1>4. /\ searches[i] \in Seek!Search /\ searches[i].query \in Queries
      /\ searches[i].step \in 1 .. 3 /\ searches[i].step <= Len(Seek!Asked(searches[i].query))
      /\ Len(Seek!Asked(searches[i].query)) \in 1 .. 3
  <2>1. searches[i] \in Seek!Search /\ searches[i].query \in Queries /\ searches[i].step \in 1 .. 3
    BY <1>1, <1>2 DEF Seek!Search
  <2>2. searches[i].step <= Len(Seek!Asked(searches[i].query))
    BY <1>2 DEF Seek!SearchTypeOK
  <2> QED BY <2>1, <2>2, AskedIs
<1>5. CASE Seek!Retried(i)
  <2> DEFINE s == [searches[i] EXCEPT !.retried = TRUE]
  <2>1. s \in Seek!Search /\ s.query = searches[i].query /\ s.step = searches[i].step
    BY <1>4 DEF Seek!Search
  <2>2. searches' = [searches EXCEPT ![i] = s]
    BY <1>1, <1>5 DEF Seek!Retried
  <2> HIDE DEF s
  <2> QED BY <1>3, <1>4, <1>5, <2>1, <2>2 DEF Seek!Retried
<1>6. CASE Seek!SearchFailed(i)
  BY <1>2, <1>6, AnswerKeeps DEF Seek!SearchFailed
<1>7. CASE \E places \in {"inside", "outside", "none"} : Seek!Answered(i, places)
  <2>1. PICK places \in {"inside", "outside", "none"} : Seek!Answered(i, places)
    BY <1>7
  <2> DEFINE last == searches[i].step = Len(Seek!Asked(searches[i].query))
             q == searches[i].query
  <2>2. CASE places = "inside" \/ last
    <3>1. /\ searches' = [searches EXCEPT ![i] = Null]
          /\ Seek!Done(q, places # "none" \/ searches[i].outside)
          /\ UNCHANGED <<text, timer, locating, promise, indexes>>
      BY <2>1, <2>2 DEF Seek!Answered
    <3>2. (places # "none" \/ searches[i].outside) \in BOOLEAN
      OBVIOUS
    <3> QED BY <1>2, <3>1, <3>2, AnswerKeeps
  <2>3. CASE ~(places = "inside" \/ last)
    <3> DEFINE s1 == [searches[i] EXCEPT !.step = searches[i].step + 1]
               s2 == [s1 EXCEPT !.retried = FALSE]
               s == [s2 EXCEPT !.outside = searches[i].outside \/ places = "outside"]
    <3>1. searches' = [searches EXCEPT ![i] = s]
          /\ UNCHANGED <<text, timer, lastQuery, spinner, failed, candidates, selected, hint, locating,
                         promise, indexes>>
      BY <2>1, <2>3 DEF Seek!Answered
    <3> DEFINE most == Len(Seek!Asked(q))
    <3>2. searches[i].step + 1 \in 1 .. 3 /\ searches[i].step + 1 <= most
      <4>1. searches[i].step # most /\ searches[i].step <= most /\ most \in 1 .. 3
        BY <1>4, <2>3
      <4> HIDE DEF most
      <4> QED BY <1>4, <4>1
    <3>3. s1 \in Seek!Search /\ s1.query = q /\ s1.step = searches[i].step + 1
      BY <1>4, <3>2 DEF Seek!Search
    <3> HIDE DEF s1
    <3>4. s2 \in Seek!Search /\ s2.query = s1.query /\ s2.step = s1.step
      BY <3>3 DEF Seek!Search
    <3> HIDE DEF s2
    <3>5. s \in Seek!Search /\ s.query = s2.query /\ s.step = s2.step
      <4>1. (searches[i].outside \/ places = "outside") \in BOOLEAN
        OBVIOUS
      <4> QED BY <3>4, <4>1 DEF Seek!Search
    <3> HIDE DEF s
    <3> QED BY <1>3, <3>1, <3>2, <3>3, <3>4, <3>5
  <2> QED BY <2>2, <2>3
<1> QED BY <1>5, <1>6, <1>7

LEMMA PositionKeeps ==
  ASSUME Seek!PlaceSearchAssumption, SeekInv, Seek!Locate \/ Seek!Located \/ Seek!NotLocated
  PROVE  SeekInv'
<1> USE DEF Seek!typing, Seek!index, SeekInv
<1>1. UNCHANGED <<text, timer, lastQuery, searches, spinner, failed, promise, indexes>>
  BY DEF Seek!Locate, Seek!Located, Seek!NotLocated
<1>2. CASE Seek!Locate \/ Seek!NotLocated
  <2>1. /\ hint' = [says |-> "locating"] \/ hint' = [says |-> "no position"]
        /\ locating' \in BOOLEAN /\ UNCHANGED <<candidates, selected>>
    BY <1>2 DEF Seek!Locate, Seek!NotLocated
  <2>2. hint' \in Seek!Hints /\ hint' # Seek!Searching /\ hint'.says \in {"locating", "no position"}
    BY <2>1, HintFacts
  <2>3. \A p \in Seek!Places : hint' # Seek!Chosen(p)
    BY <2>2, HintFacts
  <2>4. ChoiceOK'
    BY <2>2, <2>3 DEF ChoiceOK
  <2>5. Seek!SearchTypeOK'
    BY <1>1, <2>1, <2>2 DEF Seek!SearchTypeOK
  <2> QED BY <1>1, <2>1, <2>2, <2>4, <2>5 DEF SpinnerOK, ResultOK, FieldOK, Out
<1>3. CASE Seek!Located
  <2> DEFINE p == Seek!Place("position", Null)
  <2>1. /\ selected' = p /\ hint' = Seek!Chosen(p) /\ candidates' = Null /\ locating' = FALSE
    BY <1>3 DEF Seek!Located
  <2>2. p \in Seek!Places
    BY HintFacts
  <2> HIDE DEF p
  <2>3. hint' \in Seek!Hints /\ hint' # Seek!Searching
    BY <2>1, <2>2, HintFacts
  <2>4. ChoiceOK'
    BY <2>1, <2>2, ChosenNow
  <2>5. Seek!SearchTypeOK'
    BY <1>1, <2>1, <2>2, <2>3 DEF Seek!SearchTypeOK
  <2> QED BY <1>1, <2>1, <2>3, <2>4, <2>5 DEF SpinnerOK, ResultOK, FieldOK, Out
<1> QED BY <1>2, <1>3

LEMMA SeekStays ==
  ASSUME SeekInv, UNCHANGED <<text, timer, lastQuery, searches, spinner, failed, candidates, selected,
                              hint, locating>>,
         promise' \in {"none", "manifest", "files", "read"}, indexes' \in {"none", "waiting", "read"},
         indexes' = "waiting" => promise' \in {"manifest", "files"},
         indexes' = "read" => promise' = "read"
  PROVE  SeekInv'
BY DEF SeekInv, Seek!SearchTypeOK, SpinnerOK, ResultOK, FieldOK, ChoiceOK, Out

LEMMA IndexKeeps ==
  ASSUME SeekInv, Seek!EnterField \/ Seek!ManifestRead \/ Seek!IndexesRead \/ Seek!IndexesFailed
  PROVE  SeekInv'
<1>1. /\ UNCHANGED <<text, timer, lastQuery, searches, spinner, failed, candidates, selected, hint,
                     locating>>
      /\ promise' \in {"none", "manifest", "files", "read"} /\ indexes' \in {"none", "waiting", "read"}
      /\ indexes' = "waiting" => promise' \in {"manifest", "files"}
      /\ indexes' = "read" => promise' = "read"
  BY DEF SeekInv, Seek!SearchTypeOK, Seek!EnterField, Seek!ManifestRead, Seek!IndexesRead,
         Seek!IndexesFailed, Seek!typing, Seek!result
<1> QED BY <1>1, SeekStays

LEMMA LeaveKeeps ==
  ASSUME Seek!PlaceSearchAssumption, SeekInv, Seek!Leave
  PROVE  SeekInv'
<1>1. Seek!Searching # Null
  BY HintFacts DEF Seek!PlaceSearchAssumption
<1>2. Seek!SearchTypeOK'
  BY DEF SeekInv, Seek!Leave, Seek!SearchTypeOK
<1>3. ChoiceOK'
  BY NoneChosen DEF Seek!Leave
<1> QED BY <1>1, <1>2, <1>3 DEF Seek!Leave, SeekInv, SpinnerOK, ResultOK, FieldOK

LEMMA SeekSpecInv == Seek!PlaceSearchAssumption => (Seek!Spec => []SeekInv)
<1> SUFFICES ASSUME Seek!PlaceSearchAssumption PROVE Seek!Spec => []SeekInv
  OBVIOUS
<1>1. Seek!Init => SeekInv
  BY SeekInitial
<1>2. SeekInv /\ [Seek!Next]_(Seek!vars) => SeekInv'
  <2> SUFFICES ASSUME SeekInv, Seek!Next \/ UNCHANGED Seek!vars PROVE SeekInv'
    OBVIOUS
  <2>1. CASE UNCHANGED Seek!vars
    BY <2>1, SeekStays DEF Seek!vars, SeekInv, Seek!SearchTypeOK
  <2> QED BY <2>1, TypingKeeps, RunSearchKeeps, SearchKeeps, PositionKeeps, IndexKeeps, LeaveKeeps
          DEF Seek!Next
<1> QED BY <1>1, <1>2, PTL DEF Seek!Spec

LEMMA SeekHolds ==
  SeekInv => /\ Seek!SearchTypeOK /\ Seek!SpinnerStops /\ Seek!AnswersAreOfTheText
             /\ Seek!ChosenIsSaid /\ Seek!IndexIsWaitedFor
<1> SUFFICES ASSUME SeekInv
             PROVE  /\ Seek!SpinnerStops /\ Seek!AnswersAreOfTheText
                    /\ Seek!ChosenIsSaid /\ Seek!IndexIsWaitedFor
  BY DEF SeekInv
<1> USE DEF SeekInv
<1>1. Seek!SpinnerStops
  BY DEF Seek!SpinnerStops, SpinnerOK
<1>2. Seek!AnswersAreOfTheText
  <2> SUFFICES ASSUME Seek!Settled, text # Null
               PROVE  /\ candidates # Null => candidates.of = text
                      /\ failed => lastQuery # text
                      /\ (candidates = Null /\ ~failed) \/ hint = Seek!Searching => lastQuery = text
    BY DEF Seek!AnswersAreOfTheText
  <2>1. timer = Null /\ \A q : ~Out(q)
    BY DEF Seek!Settled, Out
  <2>2. lastQuery = text \/ (lastQuery = Null /\ failed)
    BY <2>1 DEF FieldOK
  <2>3. hint = Seek!Searching => lastQuery # Null
    BY <2>1 DEF FieldOK
  <2>4. /\ candidates # Null => lastQuery # Null /\ candidates.of = lastQuery
        /\ failed => lastQuery = Null
    BY <2>1 DEF ResultOK
  <2> QED BY <2>2, <2>3, <2>4
<1>3. Seek!ChosenIsSaid
  BY DEF Seek!ChosenIsSaid, ChoiceOK
<1>4. Seek!IndexIsWaitedFor
  BY DEF Seek!IndexIsWaitedFor, Seek!CityMatches
<1> QED BY <1>1, <1>2, <1>3, <1>4

-----------------------------------------------------------------------------
(* The reports of the content policy (CspReport).                           *)

CONSTANTS BodyLimit, Lengths, Documents

VARIABLES phase, request, rest, total, held, answer, logged

Chunked == INSTANCE CspReport WITH None <- Null, Limit <- BodyLimit

\* While a body is read, what was counted and what is left are its length, all
\* that was counted is held, and the limit is not passed; what is logged is
\* what the sanitizers leave of the report.
BodyInv ==
  /\ phase \in {"reading", "parsing"} =>
       /\ request.length \in Nat /\ ~Chunked!TooLarge(request.declared)
       /\ total + rest = request.length /\ total <= BodyLimit /\ held = total
  /\ phase = "parsing" => rest = 0
  /\ phase = "waiting" => rest = 0 /\ total = 0 /\ held = 0
  /\ held <= BodyLimit

LogInv ==
  logged # Null =>
    /\ phase = "answered" /\ request.document.shape # "noJson"
    /\ logged = Chunked!SafeReport(Chunked!Payload(request.document))

ReportInv == Chunked!CspTypeOK /\ BodyInv /\ LogInv /\ Chunked!SizeDecides

LEMMA ReportInitial == Chunked!CspReportAssumption /\ Chunked!Init => ReportInv
BY DEF Chunked!CspReportAssumption, Chunked!Init, ReportInv, Chunked!CspTypeOK, BodyInv, LogInv,
       Chunked!SizeDecides

\* A request whose declared length or method is refused, or whose body is read.
LEMMA ReceiveKeeps ==
  ASSUME Chunked!CspReportAssumption, ReportInv, Chunked!Receive PROVE ReportInv'
<1>1. PICK n \in Lengths, d \in Lengths \cup {Null}, method \in {"POST", "GET"}, doc \in Documents :
        /\ request' = [method |-> method, length |-> n, declared |-> d, document |-> doc]
        /\ rest' = n
        /\ IF method # "POST" THEN Chunked!Answered(405)
           ELSE IF Chunked!TooLarge(d) THEN Chunked!Answered(413)
           ELSE phase' = "reading" /\ UNCHANGED answer
  BY DEF Chunked!Receive
<1>2. phase = "waiting" /\ UNCHANGED <<total, held, logged>>
  BY DEF Chunked!Receive
<1>3. request'.length = n /\ request'.declared = d /\ n \in Nat /\ BodyLimit \in Nat
  BY <1>1 DEF Chunked!CspReportAssumption
<1>4. /\ rest = 0 /\ total = 0 /\ held = 0 /\ answer = Null /\ logged = Null
  BY <1>2, Zenon DEF ReportInv, Chunked!CspTypeOK, BodyInv, LogInv
<1>5. CASE phase' = "reading" /\ answer' = Null /\ ~Chunked!TooLarge(d)
  BY <1>1, <1>2, <1>3, <1>4, <1>5
     DEF ReportInv, Chunked!CspTypeOK, BodyInv, LogInv, Chunked!SizeDecides, Chunked!TooLarge
<1>6. CASE phase' = "answered" /\ (answer' = 405 \/ (answer' = 413 /\ Chunked!TooLarge(d)))
  BY <1>1, <1>2, <1>3, <1>4, <1>6
     DEF ReportInv, Chunked!CspTypeOK, BodyInv, LogInv, Chunked!SizeDecides, Chunked!TooLarge,
         Chunked!CspReportAssumption
<1> QED BY <1>1, <1>4, <1>5, <1>6 DEF Chunked!Answered

\* A chunk of the body: beyond the limit it is counted, and not held.
LEMMA ChunkKeeps ==
  ASSUME Chunked!CspReportAssumption, ReportInv, Chunked!ReadChunk PROVE ReportInv'
<1>1. PICK chunk \in 1..rest :
        /\ rest' = rest - chunk /\ total' = total + chunk
        /\ held' = Chunked!Held(held, chunk, Chunked!Over(total + chunk))
        /\ IF Chunked!Over(total + chunk) THEN Chunked!Answered(413) ELSE UNCHANGED <<phase, answer>>
  BY DEF Chunked!ReadChunk
<1>2. phase = "reading" /\ rest > 0 /\ UNCHANGED <<request, logged>>
  BY DEF Chunked!ReadChunk
<1>3. /\ rest \in Nat /\ total \in Nat /\ request.length \in Nat /\ ~Chunked!TooLarge(request.declared)
      /\ total + rest = request.length /\ total <= BodyLimit /\ held = total /\ answer = Null
      /\ logged = Null /\ BodyLimit \in Nat /\ chunk \in Nat /\ chunk <= rest
  BY <1>2 DEF ReportInv, Chunked!CspTypeOK, BodyInv, LogInv, Chunked!CspReportAssumption
<1>4. CASE total + chunk > BodyLimit
  <2>1. phase' = "answered" /\ answer' = 413 /\ held' = held
    BY <1>1, <1>4 DEF Chunked!Over, Chunked!Answered, Chunked!Held
  <2> QED BY <1>1, <1>2, <1>3, <1>4, <2>1
       DEF ReportInv, Chunked!CspTypeOK, BodyInv, LogInv, Chunked!SizeDecides, Chunked!CspReportAssumption
<1>5. CASE ~(total + chunk > BodyLimit)
  <2>1. phase' = phase /\ answer' = Null /\ held' = held + chunk
    BY <1>1, <1>3, <1>5 DEF Chunked!Over, Chunked!Held
  <2> QED BY <1>1, <1>2, <1>3, <1>5, <2>1
       DEF ReportInv, Chunked!CspTypeOK, BodyInv, LogInv, Chunked!SizeDecides, Chunked!TooLarge
<1> QED BY <1>4, <1>5

LEMMA ReportStep ==
  ASSUME Chunked!CspReportAssumption, ReportInv, [Chunked!Next]_(Chunked!vars) PROVE ReportInv'
<1> USE DEF ReportInv, Chunked!CspTypeOK, BodyInv, LogInv, Chunked!SizeDecides,
            Chunked!CspReportAssumption, Chunked!TooLarge
<1>1. CASE UNCHANGED Chunked!vars
  BY <1>1 DEF Chunked!vars
<1>2. CASE Chunked!EndOfStream
  BY <1>2 DEF Chunked!EndOfStream
<1>3. CASE Chunked!StreamFails
  BY <1>3 DEF Chunked!StreamFails, Chunked!Answered
<1>4. CASE Chunked!Parse
  BY <1>4 DEF Chunked!Parse, Chunked!Answered
<1>5. CASE Chunked!NextRequest
  BY <1>5 DEF Chunked!NextRequest
<1> QED BY <1>1, <1>2, <1>3, <1>4, <1>5, ReceiveKeeps, ChunkKeeps DEF Chunked!Next

\* What a sanitizer lets through, and what none does.
LEMMA SanitizersClean ==
  ASSUME NEW name \in Chunked!Names, NEW v, Chunked!Sanitize(name, v) # Null
  PROVE  /\ Chunked!Sanitize(name, v) \in {"blank", "url", "data", "keyword", "policy", "enforce", "200"}
         /\ v \notin {"script", "long", "1000", "null"}
BY DEF Chunked!Names, Chunked!Sanitize, Chunked!SanitizeUrl, Chunked!SanitizeBlockedUri,
       Chunked!SanitizeDirective, Chunked!SanitizeDisposition, Chunked!SanitizeNumber

LEMMA ReportsAreClean == ReportInv => Chunked!LoggedIsClean
<1> SUFFICES ASSUME ReportInv, logged # Null PROVE Chunked!LoggedIsClean
  BY DEF Chunked!LoggedIsClean
<1> DEFINE report == request.document.report
           named == Chunked!Recognized(report)
<1>1. logged = Chunked!SafeReport(Chunked!Payload(request.document))
  BY DEF ReportInv, LogInv
<1>2. Chunked!Payload(request.document) = report /\ Chunked!SafeReport(report) = logged /\ report # Null
  BY <1>1 DEF Chunked!Payload, Chunked!SafeReport
<1>3. /\ logged = [n \in named |-> Chunked!Sanitize(n, Chunked!FirstPresent(report, n))]
      /\ ~Chunked!Invalid(report)
  BY <1>2 DEF Chunked!SafeReport
<1> HIDE DEF report
<1>4. ASSUME NEW n \in named
      PROVE  /\ n \in Chunked!Names /\ Chunked!Sanitize(n, Chunked!FirstPresent(report, n)) # Null
             /\ Chunked!FirstPresent(report, n) # Null
  BY <1>3 DEF Chunked!Invalid, Chunked!Recognized
<1>5. ASSUME NEW n \in DOMAIN logged
      PROVE  logged[n] \in {"blank", "url", "data", "keyword", "policy", "enforce", "200"}
  <2>1. n \in named /\ logged[n] = Chunked!Sanitize(n, Chunked!FirstPresent(report, n))
    BY <1>3
  <2> QED BY <1>4, <2>1, SanitizersClean
<1>6. ASSUME NEW n \in Chunked!Names, report[n, 1] # Null
      PROVE  n \in DOMAIN logged /\ report[n, 1] \notin {"script", "long", "1000", "null"}
  <2>1. Chunked!FirstPresent(report, n) = report[n, 1]
    BY <1>6 DEF Chunked!FirstPresent
  <2>2. n \in named
    BY <1>6, <2>1 DEF Chunked!Recognized
  <2> QED BY <1>3, <1>4, <2>1, <2>2, SanitizersClean
<1> QED BY <1>5, <1>6 DEF Chunked!LoggedIsClean, report

\* A body of any length, cut in any way, and a report of any content.
LEMMA ReportsAreBounded ==
  Chunked!CspReportAssumption =>
    (Chunked!Spec => [](/\ Chunked!CspTypeOK /\ Chunked!SizeDecides
                        /\ Chunked!HeldWithinLimit /\ Chunked!LoggedIsClean))
<1> SUFFICES ASSUME Chunked!CspReportAssumption
             PROVE  Chunked!Spec => [](/\ Chunked!CspTypeOK /\ Chunked!SizeDecides
                                       /\ Chunked!HeldWithinLimit /\ Chunked!LoggedIsClean)
  OBVIOUS
<1>1. ReportInv => /\ Chunked!CspTypeOK /\ Chunked!SizeDecides
                   /\ Chunked!HeldWithinLimit /\ Chunked!LoggedIsClean
  <2>1. ReportInv => Chunked!HeldWithinLimit
    BY DEF ReportInv, BodyInv, Chunked!CspTypeOK, Chunked!HeldWithinLimit
  <2> QED BY <2>1, ReportsAreClean DEF ReportInv
<1> QED BY <1>1, ReportInitial, ReportStep, PTL DEF Chunked!Spec

-----------------------------------------------------------------------------
(* The lists and the search together; they run apart, as in MCPublicSite.   *)

VARIABLE part     \* the component a behaviour is of

Reading ==
  /\ [][FALSE]_part
  /\ (part = "lists" /\ Lists!Spec) \/ (part = "search" /\ Seek!Spec)

ReadingAssumption == Lists!ListPagesAssumption /\ Seek!PlaceSearchAssumption

\* A reader is shown what was asked for.  A list is the complete one of its
\* place in one release, whatever was visited while answers were out, its links
\* lead to lists of the very same schools, and "not found" is only said of a
\* place an index lacks (PrefecturePage.tsx 133-200, CityPage.tsx 84-163).  The
\* search ends its spinner, shows candidates only of the text in the field,
\* would open the map at the place it names, and shows municipalities only of
\* an index that was read (HomePage.tsx 51-166, geo.ts 293-323, searchIndex.ts
\* 76-87).
ShownAsAskedFor ==
  /\ part = "lists" => Lists!ListTypeOK /\ Lists!ShownAsAskedFor
  /\ part = "search" => /\ Seek!SearchTypeOK /\ Seek!SpinnerStops /\ Seek!AnswersAreOfTheText
                        /\ Seek!ChosenIsSaid /\ Seek!IndexIsWaitedFor

LEMMA OnePart ==
  /\ part = "lists" => part # "search"
  /\ part = "search" => part # "lists"
  /\ part # "lists" /\ [FALSE]_part => (part # "lists")'
  /\ part # "search" /\ [FALSE]_part => (part # "search")'
OBVIOUS

\* What a reader sees is what was asked for: for any prefectures, releases,
\* schools, texts and searches that are out at once, in whichever order answers
\* come, fail or are overtaken.
THEOREM ReadersSeeWhatTheyAskedFor == ReadingAssumption => (Reading => []ShownAsAskedFor)
<1> SUFFICES ASSUME ReadingAssumption
             PROVE  Reading => []ShownAsAskedFor
  OBVIOUS
<1>1. /\ Lists!ListTypeOK /\ Lists!ShownAsAskedFor /\ part # "search" => ShownAsAskedFor
      /\ SeekInv /\ part # "lists" => ShownAsAskedFor
  BY SeekHolds DEF ShownAsAskedFor
<1>2. Lists!Spec => [](Lists!ListTypeOK /\ Lists!ShownAsAskedFor)
  BY ListsShowWhatWasAsked DEF ReadingAssumption
<1>3. Seek!Spec => []SeekInv
  BY SeekSpecInv DEF ReadingAssumption
<1> QED BY <1>1, <1>2, <1>3, OnePart, PTL DEF Reading

-----------------------------------------------------------------------------
(* The move and the reports together; they run apart, as in MCPublicSite.   *)

AtTheEdge ==
  /\ [][FALSE]_part
  /\ \/ part \in {"requests", "logins", "notices"} /\ Edge!Spec
     \/ part \in {"chunks", "reports"} /\ Chunked!Spec

EdgeAssumption == Edge!SiteMoveAssumption /\ Chunked!CspReportAssumption

\* Moving to another address loses nobody, and no report loses the server.
\* Whatever is requested at the old address, no redirect carries the code of a
\* login on, redirects end, and the callback of a login is answered by the page
\* that completes it (_school-migration.ts 70-77, _middleware.ts 126-204).  A
\* login returns to the page it was started from, which is still served there
\* (siteMoveRecovery.ts 11-31).  Who holds data as a guest is told until the
\* switch date has passed, whatever was closed before, and a notice closed for a
\* date is not shown again for it, also when the date was moved in between
\* (siteMove.ts 7-21).  Whether a report of the content policy is too large
\* depends on its length, not on how it was cut, no more than the limit is ever
\* held, and a logged report is clean in every field (csp-report.ts 89-226).
EdgeKeepsItsPromises ==
  /\ part = "requests" => Edge!SiteMoveTypeOK
  /\ part \in {"requests", "logins", "notices"} => Edge!EdgeKeepsItsPromises
  /\ part = "chunks" => Chunked!CspTypeOK /\ Chunked!SizeDecides /\ Chunked!HeldWithinLimit
  /\ part \in {"chunks", "reports"} => Chunked!LoggedIsClean

LEMMA OneEdgePart ==
  LET moves == part \in {"requests", "logins", "notices"}
      reports == part \in {"chunks", "reports"}
  IN  /\ ~(moves /\ reports)
      /\ ~moves /\ [FALSE]_part => ~moves'
      /\ ~reports /\ [FALSE]_part => ~reports'
OBVIOUS

\* The edge keeps its promises: for any visits, logins, days and switches of
\* the operator, and any bodies and reports, however they are cut.
THEOREM EdgeLosesNobody == EdgeAssumption => (AtTheEdge => []EdgeKeepsItsPromises)
<1> SUFFICES ASSUME EdgeAssumption
             PROVE  AtTheEdge => []EdgeKeepsItsPromises
  OBVIOUS
<1> DEFINE moves == part \in {"requests", "logins", "notices"}
           reports == part \in {"chunks", "reports"}
           clean == /\ Chunked!CspTypeOK /\ Chunked!SizeDecides
                    /\ Chunked!HeldWithinLimit /\ Chunked!LoggedIsClean
<1>1. /\ Edge!SiteMoveTypeOK /\ Edge!EdgeKeepsItsPromises /\ ~reports => EdgeKeepsItsPromises
      /\ clean /\ ~moves => EdgeKeepsItsPromises
  BY DEF EdgeKeepsItsPromises
<1>2. Edge!Spec => [](Edge!SiteMoveTypeOK /\ Edge!EdgeKeepsItsPromises)
  BY MoveLosesNobody DEF EdgeAssumption
<1>3. Chunked!Spec => []clean
  BY ReportsAreBounded DEF EdgeAssumption
<1>4. AtTheEdge => [][FALSE]_part /\ ((moves /\ Edge!Spec) \/ (reports /\ Chunked!Spec))
  BY DEF AtTheEdge
<1>5. /\ ~(moves /\ reports)
      /\ ~moves /\ [FALSE]_part => ~moves'
      /\ ~reports /\ [FALSE]_part => ~reports'
  BY OneEdgePart
<1> HIDE DEF moves, reports, clean
<1> QED BY <1>1, <1>2, <1>3, <1>4, <1>5, PTL
=============================================================================
