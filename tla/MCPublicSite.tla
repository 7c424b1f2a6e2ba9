-------------------- MODULE MCPublicSite --------------------
(* What anybody sees without an account: the lists and pages of schools, the
   search for a place, the move to another address and the reports of the content policy.  Each part
   is one component alone; a behaviour stays in its part. *)
EXTENDS PublicSchoolsProofs, Integers, Sequences, FiniteSets

Off == "off"

\* A school gets its place with the second release, the other one goes.
RowsOf(r) == IF r = 1 THEN {[id |-> "a", located |-> TRUE], [id |-> "b", located |-> FALSE]}
             ELSE {[id |-> "b", located |-> TRUE]}
SchoolRows == [r \in Releases |-> RowsOf(r)]

\* Two prefectures in two releases: a school gets its municipality, another
\* loses it, and one its department; one is in a municipality that is not listed.
Listed(id, city, owner, course, girls, dept) ==
    [id |-> id, city |-> city,
     tags |-> [ownership |-> {owner}, course |-> course, gender |-> girls, dept |-> dept, integrated |-> {}]]
PrefIndexes ==
    <<[p |-> [cities |-> <<"c", "d">>,
              schools |-> {Listed("a", "c", "public", {}, {}, {"g"}),
                           Listed("b", Null, "private", {"correspondence"}, {"girls"}, {})}],
       q |-> [cities |-> <<"c">>, schools |-> {Listed("e", "c", "public", {}, {}, {}),
                                               Listed("f", "d", "public", {}, {}, {})}]],
      [p |-> [cities |-> <<"c", "d">>,
              schools |-> {Listed("a", "c", "public", {}, {}, {}),
                           Listed("b", "d", "private", {"correspondence"}, {"girls"}, {})}],
       q |-> [cities |-> <<>>, schools |-> {Listed("e", Null, "public", {}, {}, {})}]]>>

Occurrences == {<<"x", "a">>, <<"x", "d">>}

TextForms == [x |-> "compound", z |-> "postal"]
Named == {"c", "d", "e", "f"}
Municipalities == <<"c", "d", "e", "f">>
\* The first municipality only contains the text, the third does not.
CityFit ==
    [p \in Named \X Queries |->
        CASE p[2] # "x" \/ p[1] = "e" -> "none"
          [] p[1] = "c" -> "includes"
          [] OTHER -> "starts"]

\* A text that fits the municipalities in any way: which of them are shown.
Fits == [Named -> {"starts", "includes", "none"}]
AnyText == INSTANCE PlaceSearch WITH
    Queries <- Fits, Cities <- Municipalities,
    Fit <- [p \in Named \X Fits |-> p[2][p[1]]]

Addresses == INSTANCE SiteMove WITH Phases <- {}, LastDay <- 0, NoticeDays <- 0,
                                    MaxAttempts <- 0, Visits <- {}, None <- Null

Asking == {{}, {"position", "tracking"}, {"code"}}

\* Every path, as a GET with what a query tells apart and as a POST; an endpoint
\* with a slash behind it; the other hosts.
AllRequests ==
    [host: {"old"}, method: {"GET"}, path: Addresses!Paths, slash: {FALSE}, query: Asking]
    \cup [host: {"old"}, method: {"POST"}, path: Addresses!Paths, slash: {FALSE}, query: {{}}]
    \cup [host: {"old"}, method: {"GET"}, path: Addresses!Endpoints, slash: {TRUE}, query: {{}}]
    \cup [host: {"high", "preview"}, method: {"GET"}, path: Addresses!Paths, slash: {FALSE}, query: {{}}]

\* Links a visitor opens.
Links == [host: {"old", "high"}, method: {"GET"}, slash: {FALSE},
          path: {"/map", "/mypage", "/family/join", "/auth/callback"}, query: {{}}]

Pages == [host: {"old", "high"}, method: {"GET"}, slash: {FALSE}, path: {"/map"}, query: {{}}]

Chunks == INSTANCE CspReport WITH None <- Null, Limit <- 0, Lengths <- {}, Documents <- {}
Empty == [k \in Chunks!Names \X {1, 2} |-> Null]
OneDocument == {[shape |-> "wrapped", report |-> [Empty EXCEPT !["disposition", 1] = "enforce"]]}

\* Reports with at most two values.
SomeDocuments ==
    {[shape |-> s, report |-> [Empty EXCEPT ![k] = v, ![l] = w]] :
        s \in {"noJson", "list", "wrapped", "wrappedText", "body", "bare"},
        k \in Chunks!Names \X {1}, l \in Chunks!Names \X {1, 2},
        v \in Chunks!Values, w \in Chunks!Values \cup {Null}}

Rescued == INSTANCE SiteMove WITH Phases <- {"rescue"}, LastDay <- 0, NoticeDays <- 1,
                                  MaxAttempts <- 2, Visits <- Links, None <- Null
Announced == INSTANCE SiteMove WITH Phases <- {}, LastDay <- 2, NoticeDays <- 1,
                                    MaxAttempts <- 1, Visits <- Pages, None <- Null

Reported == INSTANCE CspReport WITH Limit <- 1, Lengths <- {1}, Documents <- SomeDocuments,
                                    None <- Null

restOfSchools == <<part, release, embedded, page, loads, text, timer, lastQuery, searches,
                   spinner, failed, candidates, selected, hint, locating, promise, indexes,
                   env, tab, kind, hasData, saved, attempt, attempts, callback, today,
                   switchDate, dismissed, closed, mounted, phase, request, rest, total, held,
                   answer, logged>>
SchoolsAlone ==
    /\ release = Off /\ embedded = Off /\ page = Off /\ loads = Off /\ text = Off /\
       timer = Off /\ lastQuery = Off /\ searches = Off /\ spinner = Off /\ failed = Off /\
       candidates = Off /\ selected = Off /\ hint = Off /\ locating = Off /\ promise = Off /\
       indexes = Off /\ env = Off /\ tab = Off /\ kind = Off /\ hasData = Off /\ saved = Off /\
       attempt = Off /\ attempts = Off /\ callback = Off /\ today = Off /\ switchDate = Off /\
       dismissed = Off /\ closed = Off /\ mounted = Off /\ phase = Off /\ request = Off /\
       rest = Off /\ total = Off /\ held = Off /\ answer = Off /\ logged = Off

restOfLists == <<part, current, edge, store, view, version, detail, opened, text, timer,
                 lastQuery, searches, spinner, failed, candidates, selected, hint, locating,
                 promise, indexes, env, tab, kind, hasData, saved, attempt, attempts, callback,
                 today, switchDate, dismissed, closed, mounted, phase, request, rest, total,
                 held, answer, logged>>
ListsAlone ==
    /\ current = Off /\ edge = Off /\ store = NoList /\ view = Off /\ version = Off /\
       detail = Embedded(NoDetail) /\ opened = Off /\ text = Off /\ timer = Off /\
       lastQuery = Off /\ searches = Off /\ spinner = Off /\ failed = Off /\
       candidates = Off /\ selected = Off /\ hint = Off /\ locating = Off /\ promise = Off /\
       indexes = Off /\ env = Off /\ tab = Off /\ kind = Off /\ hasData = Off /\ saved = Off /\
       attempt = Off /\ attempts = Off /\ callback = Off /\ today = Off /\ switchDate = Off /\
       dismissed = Off /\ closed = Off /\ mounted = Off /\ phase = Off /\ request = Off /\
       rest = Off /\ total = Off /\ held = Off /\ answer = Off /\ logged = Off

restOfSearch == <<part, current, edge, store, view, version, detail, opened, release, embedded,
                  page, loads, env, tab, kind, hasData, saved, attempt, attempts, callback,
                  today, switchDate, dismissed, closed, mounted, phase, request, rest, total,
                  held, answer, logged>>
SearchAlone ==
    /\ current = Off /\ edge = Off /\ store = NoList /\ view = Off /\ version = Off /\
       detail = Embedded(NoDetail) /\ opened = Off /\ release = Off /\ embedded = Off /\
       page = Off /\ loads = Off /\ env = Off /\ tab = Off /\ kind = Off /\ hasData = Off /\
       saved = Off /\ attempt = Off /\ attempts = Off /\ callback = Off /\ today = Off /\
       switchDate = Off /\ dismissed = Off /\ closed = Off /\ mounted = Off /\ phase = Off /\
       request = Off /\ rest = Off /\ total = Off /\ held = Off /\ answer = Off /\ logged = Off

restOfMove == <<part, current, edge, store, view, version, detail, opened, release, embedded,
                page, loads, text, timer, lastQuery, searches, spinner, failed, candidates,
                selected, hint, locating, promise, indexes, phase, request, rest, total, held,
                answer, logged>>
MoveAlone ==
    /\ current = Off /\ edge = Off /\ store = NoList /\ view = Off /\ version = Off /\
       detail = Embedded(NoDetail) /\ opened = Off /\ release = Off /\ embedded = Off /\
       page = Off /\ loads = Off /\ text = Off /\ timer = Off /\ lastQuery = Off /\
       searches = Off /\ spinner = Off /\ failed = Off /\ candidates = Off /\ selected = Off /\
       hint = Off /\ locating = Off /\ promise = Off /\ indexes = Off /\ phase = Off /\
       request = Off /\ rest = Off /\ total = Off /\ held = Off /\ answer = Off /\ logged = Off

restOfReport == <<part, current, edge, store, view, version, detail, opened, release, embedded,
                  page, loads, text, timer, lastQuery, searches, spinner, failed, candidates,
                  selected, hint, locating, promise, indexes, env, tab, kind, hasData, saved,
                  attempt, attempts, callback, today, switchDate, dismissed, closed, mounted>>
ReportAlone ==
    /\ current = Off /\ edge = Off /\ store = NoList /\ view = Off /\ version = Off /\
       detail = Embedded(NoDetail) /\ opened = Off /\ release = Off /\ embedded = Off /\
       page = Off /\ loads = Off /\ text = Off /\ timer = Off /\ lastQuery = Off /\
       searches = Off /\ spinner = Off /\ failed = Off /\ candidates = Off /\ selected = Off /\
       hint = Off /\ locating = Off /\ promise = Off /\ indexes = Off /\ env = Off /\
       tab = Off /\ kind = Off /\ hasData = Off /\ saved = Off /\ attempt = Off /\
       attempts = Off /\ callback = Off /\ today = Off /\ switchDate = Off /\
       dismissed = Off /\ closed = Off /\ mounted = Off

SuiteInit ==
    \/ part = "schools" /\ Init /\ SchoolsAlone
    \/ part = "lists" /\ Lists!Init /\ ListsAlone
    \/ part = "search" /\ Seek!Init /\ SearchAlone
    \/ part = "requests" /\ Edge!Init /\ MoveAlone
    \/ part = "logins" /\ Rescued!Init /\ MoveAlone
    \/ part = "notices" /\ Announced!Init /\ MoveAlone
    \/ part = "chunks" /\ Chunked!Init /\ ReportAlone
    \/ part = "reports" /\ Reported!Init /\ ReportAlone

SuiteNext ==
    \/ part = "schools" /\ Next /\ UNCHANGED restOfSchools
    \/ part = "lists" /\ Lists!Next /\ UNCHANGED restOfLists
    \/ part = "search" /\ Seek!Next /\ UNCHANGED restOfSearch
    \/ part = "requests" /\ Edge!Next /\ UNCHANGED restOfMove
    \/ part = "logins" /\ Rescued!Next /\ UNCHANGED restOfMove
    \/ part = "notices" /\ Announced!Next /\ UNCHANGED restOfMove
    \/ part = "chunks" /\ Chunked!Next /\ UNCHANGED restOfReport
    \/ part = "reports" /\ Reported!Next /\ UNCHANGED restOfReport

suiteVars == <<part, current, edge, store, view, version, detail, opened, release, embedded,
               page, loads, text, timer, lastQuery, searches, spinner, failed, candidates,
               selected, hint, locating, promise, indexes, env, tab, kind, hasData, saved,
               attempt, attempts, callback, today, switchDate, dismissed, closed, mounted,
               phase, request, rest, total, held, answer, logged>>

SuiteSpec == SuiteInit /\ [][SuiteNext]_suiteVars

ASSUME Bounds ==
    /\ PublicSchoolsAssumption
    /\ ReadingAssumption
    /\ EdgeAssumption /\ Rescued!SiteMoveAssumption /\ Announced!SiteMoveAssumption
    /\ Reported!CspReportAssumption

\* The municipalities under the field are the best ones, however a text fits.
ASSUME BestTowns == \A q \in Fits : AnyText!BestMatchesFirst(q)
============================================================
