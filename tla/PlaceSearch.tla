---- MODULE PlaceSearch ----
(***************************************************************************)
(* The search on the top page (HomePage): the text, the timer that waits   *)
(* for the end of typing, the searches that are out (geocodeSearch, up to  *)
(* three requests, each tried twice), the position of the device, and the  *)
(* index of municipalities that is read when the field is entered.         *)
(***************************************************************************)
EXTENDS Integers, Sequences, SequencesExt, FiniteSets
CONSTANTS Null,
          Queries,  \* texts, by their form: "address", "compound", "postal", "station"
          Form,
          Known,    \* postal codes of the region: parsePostal places them
          Cities,   \* of the index, in its order
          Fit,      \* of a city and a text: "starts", "includes" or "none"
          Limit,    \* GROUP_LIMIT
          Slots     \* bound: searches that are out

\* A place that was chosen, and what the hint under the field says.
Place(from, query) == [from |-> from, query |-> query]
Places == [from: {"postal", "geocoder", "position"}, query: Queries \cup {Null}]
Searching == [says |-> "searching"]
Chosen(place) == [says |-> "ok", place |-> place]
Hints == [says: {"searching", "locating", "no position"}] \cup [says: {"ok"}, place: Places]
\* A search that is out, and the candidates of an answer.
Search == [query: Queries, step: 1 .. 3, retried: BOOLEAN, outside: BOOLEAN]
Candidates == [of: Queries, found: BOOLEAN]

PlaceSearchAssumption ==
  /\ Null \notin Queries \cup Places \cup Hints \cup Search \cup Candidates
  /\ \A q \in Queries : Form[q] \in {"address", "compound", "postal", "station"}
  /\ Known \subseteq {q \in Queries : Form[q] = "postal"}
  /\ Limit \in Nat \ {0} /\ IsFiniteSet(Slots)

VARIABLES text,      \* Null: nothing but blanks
          timer,     \* the text it was set for
          lastQuery,
          searches,  \* that are out
          spinner, failed,
          candidates, selected, hint,
          locating,  \* the device is asked for its position
          promise,   \* loadSearchIndexes, of the tab
          indexes    \* of the page: not asked for, waiting, read
typing == <<text, timer, lastQuery>>
result == <<spinner, failed, candidates, selected, hint>>
index == <<promise, indexes>>
vars == <<text, timer, lastQuery, searches, spinner, failed, candidates, selected, hint, locating,
          promise, indexes>>

(* Typing. *)
\* onQueryInput; a blank more or less is input, too.
Input(q) ==
  /\ text' = q
  /\ failed' = FALSE
  /\ IF q = Null
     THEN /\ hint' = Null /\ candidates' = Null /\ selected' = Null
          /\ lastQuery' = Null /\ timer' = Null
     ELSE /\ IF q \in Known
             THEN selected' = Place("postal", q) /\ hint' = Chosen(Place("postal", q))
             ELSE selected' = Null /\ hint' = Searching
          /\ timer' = q /\ UNCHANGED <<candidates, lastQuery>>
  /\ UNCHANGED <<searches, spinner, locating, index>>
\* clearQuery; a search that is out ends the spinner.
ClearQuery ==
  /\ text' = Null /\ timer' = Null /\ lastQuery' = Null
  /\ hint' = Null /\ candidates' = Null /\ selected' = Null /\ failed' = FALSE
  /\ UNCHANGED <<searches, spinner, locating, index>>

\* The timer: runSearch, unless this text was the last one searched for.
RunSearch ==
  /\ timer # Null /\ timer' = Null
  /\ IF timer = lastQuery THEN UNCHANGED <<lastQuery, searches, spinner>>
     ELSE /\ lastQuery' = timer /\ spinner' = TRUE
          /\ \E i \in Slots :
               /\ searches[i] = Null
               /\ searches' = [searches EXCEPT ![i] =
                                [query |-> timer, step |-> 1, retried |-> FALSE, outside |-> FALSE]]
  /\ UNCHANGED <<text, failed, candidates, selected, hint, locating, index>>

(* The answer of a search. *)
Soften == IF hint = Searching THEN Null ELSE hint
\* finally: the last one ends it, and any one after the field was cleared.
SpinnerAfter(q, last) == IF q = last \/ last = Null THEN FALSE ELSE spinner
\* A newer search was started since: the answer is dropped.
Outdated(q) == q # lastQuery
\* What failed may be searched for again.
Forgotten == Null

Done(q, found) ==
  IF Outdated(q) THEN /\ UNCHANGED <<lastQuery, failed, candidates, selected, hint>>
                      /\ spinner' = SpinnerAfter(q, lastQuery)
  ELSE /\ candidates' = [of |-> q, found |-> found] /\ failed' = FALSE
       /\ IF found THEN selected' = Place("geocoder", q) /\ hint' = Chosen(Place("geocoder", q))
          ELSE hint' = Soften /\ UNCHANGED selected
       /\ spinner' = SpinnerAfter(q, lastQuery) /\ UNCHANGED lastQuery
Broken(q) ==
  IF Outdated(q) THEN /\ UNCHANGED <<lastQuery, failed, candidates, selected, hint>>
                      /\ spinner' = SpinnerAfter(q, lastQuery)
  ELSE /\ candidates' = Null /\ failed' = TRUE /\ hint' = Soften /\ lastQuery' = Forgotten
       /\ spinner' = SpinnerAfter(q, Forgotten) /\ UNCHANGED selected

\* geocodeSearch: who is asked, one after the other, until one knows a place of
\* the region; only the national geocoder knows addresses well, and it knows
\* neither stations nor postal codes.
Asked(q) == CASE Form[q] \in {"postal", "station"} -> <<"nominatim">>
              [] Form[q] = "address" -> <<"gsi", "nominatim">>
              [] Form[q] = "compound" -> <<"gsi", "nominatim", "tokens">>
\* fetchWithRetry: what may pass is tried once more, a refusal is not.
Retried(i) ==
  /\ searches[i] # Null /\ ~searches[i].retried
  /\ searches' = [searches EXCEPT ![i].retried = TRUE]
  /\ UNCHANGED <<typing, result, locating, index>>
SearchFailed(i) ==
  /\ searches[i] # Null /\ searches' = [searches EXCEPT ![i] = Null]
  /\ Broken(searches[i].query)
  /\ UNCHANGED <<text, timer, locating, index>>
\* preferRegion: places of the region, or else those outside, or none.
Answered(i, places) ==
  LET s == searches[i]
      last == s.step = Len(Asked(s.query))
  IN /\ s # Null
     /\ IF places = "inside" \/ last
        THEN /\ searches' = [searches EXCEPT ![i] = Null]
             /\ Done(s.query, places # "none" \/ s.outside)
             /\ UNCHANGED <<text, timer>>
        ELSE /\ searches' = [searches EXCEPT ![i] =
                              [s EXCEPT !.step = @ + 1, !.retried = FALSE,
                                        !.outside = @ \/ places = "outside"]]
             /\ UNCHANGED <<typing, result>>
     /\ UNCHANGED <<locating, index>>

(* The position of the device. *)
\* Bound: one question at a time.
Locate == /\ ~locating /\ locating' = TRUE /\ hint' = [says |-> "locating"]
          /\ UNCHANGED <<typing, searches, spinner, failed, candidates, selected, index>>
Located == /\ locating /\ locating' = FALSE
           /\ selected' = Place("position", Null) /\ hint' = Chosen(Place("position", Null))
           /\ candidates' = Null
           /\ UNCHANGED <<typing, searches, spinner, failed, index>>
NotLocated == /\ locating /\ locating' = FALSE /\ hint' = [says |-> "no position"]
              /\ UNCHANGED <<typing, searches, spinner, failed, candidates, selected, index>>

(* The index. *)
\* Entering the field: one load for the tab, also for who comes later.
EnterField ==
  /\ promise' = IF promise = "none" THEN "manifest" ELSE promise
  /\ indexes' = IF promise = "read" THEN "read" ELSE IF indexes = "read" THEN indexes ELSE "waiting"
  /\ UNCHANGED <<typing, searches, result, locating>>
ManifestRead == /\ promise = "manifest" /\ promise' = "files"
                /\ UNCHANGED <<typing, searches, result, locating, indexes>>
IndexesRead ==
  /\ promise = "files" /\ promise' = "read"
  /\ indexes' = IF indexes = "waiting" THEN "read" ELSE indexes
  /\ UNCHANGED <<typing, searches, result, locating>>
\* What failed is not kept: the next one loads again.
IndexesFailed ==
  /\ promise \in {"manifest", "files"} /\ promise' = "none"
  /\ indexes' = IF indexes = "waiting" THEN "none" ELSE indexes
  /\ UNCHANGED <<typing, searches, result, locating>>

\* matchCities: it stops when there are enough that start with the text.
MatchCities(q) ==
  LET step(acc, c) ==
        IF Len(acc.starts) >= Limit THEN acc
        ELSE CASE Fit[c, q] = "starts" -> [acc EXCEPT !.starts = Append(@, c)]
               [] Fit[c, q] = "includes" -> [acc EXCEPT !.includes = Append(@, c)]
               [] OTHER -> acc
      found == FoldLeft(step, [starts |-> <<>>, includes |-> <<>>], Cities)
      all == found.starts \o found.includes
  IN SubSeq(all, 1, IF Len(all) < Limit THEN Len(all) ELSE Limit)
CityMatches == IF indexes = "read" /\ text # Null THEN MatchCities(text) ELSE <<>>

(* The way on. *)
\* The page is left: for the map (goToMap) with a place that was chosen, with a
\* candidate, or with the demonstration's, or for a municipality or a school.
\* Only the index that was read is kept; the place is HomeLocation's.
Leave == /\ text' = Null /\ timer' = Null /\ lastQuery' = Null
         /\ searches' = [i \in Slots |-> Null]
         /\ spinner' = FALSE /\ failed' = FALSE /\ candidates' = Null /\ selected' = Null
         /\ hint' = Null /\ locating' = FALSE /\ indexes' = "none"
         /\ UNCHANGED promise

Init ==
  /\ text = Null /\ timer = Null /\ lastQuery = Null
  /\ searches = [i \in Slots |-> Null]
  /\ spinner = FALSE /\ failed = FALSE /\ candidates = Null /\ selected = Null /\ hint = Null
  /\ locating = FALSE /\ promise = "none" /\ indexes = "none"

Next == \/ \E q \in Queries \cup {Null} : Input(q)
        \/ ClearQuery \/ RunSearch
        \/ \E i \in Slots : \/ Retried(i) \/ SearchFailed(i)
                            \/ \E places \in {"inside", "outside", "none"} : Answered(i, places)
        \/ Locate \/ Located \/ NotLocated
        \/ EnterField \/ ManifestRead \/ IndexesRead \/ IndexesFailed
        \/ Leave
Spec == Init /\ [][Next]_vars
----
\* The variables keep their shape.
SearchTypeOK ==
  /\ {text, timer, lastQuery} \subseteq Queries \cup {Null}
  /\ searches \in [Slots -> {Null} \cup Search] /\ {spinner, failed, locating} \subseteq BOOLEAN
  /\ \A i \in Slots : searches[i] # Null => searches[i].step <= Len(Asked(searches[i].query))
  /\ candidates \in {Null} \cup Candidates /\ selected \in {Null} \cup Places
  /\ hint \in {Null} \cup Hints
  /\ promise \in {"none", "manifest", "files", "read"} /\ indexes \in {"none", "waiting", "read"}

Settled == timer = Null /\ \A i \in Slots : searches[i] = Null

\* When nothing is out any more, the spinner has stopped, whatever was cleared,
\* failed or overtaken in between (HomePage.tsx 114-118).
SpinnerStops == (\A i \in Slots : searches[i] = Null) => ~spinner

\* When nothing is out any more, candidates are those of the text in the field,
\* never those of a slower search (HomePage.tsx 97); without candidates the
\* page says that the search failed, and then the same text can be searched
\* again (HomePage.tsx 113).  Only a text that was answered and is typed again
\* may be left without an answer, and with the hint that it is searched.
AnswersAreOfTheText ==
  Settled /\ text # Null =>
    /\ candidates # Null => candidates.of = text
    /\ failed => lastQuery # text
    /\ (candidates = Null /\ ~failed) \/ hint = Searching => lastQuery = text

\* The place the map would open at is the one the page says was found, unless
\* the device was asked for its position since (HomePage.tsx 121-150).
ChosenIsSaid ==
  /\ selected # Null => hint = Chosen(selected) \/ hint.says \in {"locating", "no position"}
  /\ \A p \in Places : hint = Chosen(p) => selected = p

\* Who waits for the index waits for a load that is under way, also when the
\* field was entered again after one failed, and municipalities are shown of an
\* index that was read to its end (HomePage.tsx 51-62, searchIndex.ts 76-87).
IndexIsWaitedFor ==
  /\ indexes = "waiting" => promise \in {"manifest", "files"}
  /\ CityMatches # <<>> => promise = "read"

\* No municipality that only contains the text takes the place of one that
\* starts with it, and none is left out while there is room
\* (searchIndex.ts 109-124).
BestMatchesFirst(q) ==
  LET shown == ToSet(MatchCities(q))
      fits == {c \in ToSet(Cities) : Fit[c, q] # "none"}
  IN /\ shown \subseteq fits
     /\ \A c \in fits \ shown : Len(MatchCities(q)) = Limit
                              /\ (Fit[c, q] = "starts" => \A d \in shown : Fit[d, q] = "starts")
====
