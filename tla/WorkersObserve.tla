--------------------------- MODULE WorkersObserve ---------------------------
(***************************************************************************)
(* The HTTP acceptance of a package (web/scripts/workers-observe.mjs): the *)
(* requests it plans from the files, headers, redirects and routes of the  *)
(* package, and the lanes that make them, with retries, against a server   *)
(* that may answer anything.                                               *)
(*                                                                         *)
(* A path is the sequence of its segments, "" after a final slash; a file  *)
(* is such a path with the suffix of its last segment.                     *)
(***************************************************************************)
EXTENDS Integers, Sequences, FiniteSets

CONSTANTS
    Files,       \* the files a package may have
    Rules,       \* the rules a _headers file may have: [pattern, name]
    Redirects,   \* the redirect rules a package may have, by their path
    Shells,      \* the routes of the observe contract, shell or noindex
    Routes,      \* the patterns a _routes.json may include or exclude
    Lanes,       \* the requests that are made at the same time
    Attempts,    \* 3
    MaxFailures, \* failures that are recorded, 200
    None

WorkersObserveAssumption ==
    /\ Attempts \in Nat \ {0} /\ MaxFailures \in Nat
    /\ IsFiniteSet(Files) /\ IsFiniteSet(Redirects) /\ IsFiniteSet(Shells) /\ IsFiniteSet(Lanes)
    /\ None \notin [item : Nat, attempt : Nat]

VARIABLES
    package,     \* [files, headers, redirects, shell, include, exclude]
    expected,    \* the planned requests, in their order, or None
    next,        \* the next one that no lane has taken
    lanes,       \* lane |-> [item, attempt] or None
    passed, failed, recorded,
    result,      \* "planning", "running", "rejected", "passed" or "failed"
    served       \* history: the items whose last answer was the packaged bytes

vars == <<package, expected, next, lanes, passed, failed, recorded, result, served>>

-----------------------------------------------------------------------------
(* Patterns.                                                               *)

\* `*` is any characters, so one or more segments; `:x` is one segment.
Fits(p, u) ==
    LET f[i \in 1..Len(p) + 1, j \in 1..Len(u) + 1] ==
            IF i > Len(p) THEN j > Len(u)
            ELSE /\ j <= Len(u)
                 /\ \/ p[i] = "*" /\ (f[i, j + 1] \/ f[i + 1, j + 1])
                    \/ p[i] = ":x" /\ u[j] # "" /\ f[i + 1, j + 1]
                    \/ p[i] \notin {"*", ":x"} /\ p[i] = u[j] /\ f[i + 1, j + 1]
    IN f[1, 1]

\* The names a path gets, one entry for every rule that fits: they are joined.
ExpectedHeaders(rules, u) == [n \in {r.name : r \in rules} |-> {r \in rules : r.name = n /\ Fits(r.pattern, u)}]

\* run_worker_first of the template must be this, from _routes.json.
RunWorkerFirst(include, exclude) == {[not |-> FALSE, pattern |-> r] : r \in include}
                                    \cup {[not |-> TRUE, pattern |-> r] : r \in exclude}

WorkerFirst(rules, u) ==
    /\ \A r \in rules : r.not => ~Fits(r.pattern, u)
    /\ \E r \in rules : ~r.not /\ Fits(r.pattern, u)

-----------------------------------------------------------------------------
(* The plan.                                                               *)

Control == {"_headers", "_redirects"}
Last(f) == f.path[Len(f.path)]

\* `a/index.html` is at `/a/`, `a.html` at `/a`.
PublicUrl(f) ==
    IF f.suffix # ".html" THEN Append(f.path, f.suffix)
    ELSE IF Last(f) = "index" THEN Append(SubSeq(f.path, 1, Len(f.path) - 1), "") ELSE f.path

\* Every other URL ends in its last segment: files without a suffix too.
Url(f) == IF f.suffix = "" THEN f.path ELSE PublicUrl(f)

Missing == <<"missing">>

Item(kind, url, file, headers) == [kind |-> kind, url |-> url, file |-> file, headers |-> headers]

Planned(p) ==
    {Item("asset", Url(f), f, ExpectedHeaders(p.headers, Url(f))) :
        f \in {g \in p.files : Last(g) \notin Control \cup {"404"}}}
    \cup {Item("not-found", Missing, f, <<>>) : f \in {g \in p.files : Last(g) = "404"}}
    \cup {Item("redirect", u, None, <<>>) : u \in p.redirects}
    \cup {Item("shell", u, CHOOSE f \in p.files : Url(f) = <<"">>, ExpectedHeaders(p.headers, <<"">>)) : u \in p.shell}

\* A shell needs index.html, and no path is planned twice.
Plannable(p) ==
    /\ p.shell = {} \/ \E f \in p.files : Url(f) = <<"">>
    /\ LET all == Planned(p) IN Cardinality({i.url : i \in all}) = Cardinality(all)

\* The requests of a set in some order.
Ordered(S) == CHOOSE s \in [1..Cardinality(S) -> S] : \A i, j \in 1..Cardinality(S) : s[i] = s[j] => i = j

AnyPackage ==
    [files: SUBSET Files, headers: SUBSET Rules, redirects: SUBSET Redirects, shell: SUBSET Shells,
     include: SUBSET Routes, exclude: SUBSET Routes]

Init ==
    /\ package \in {p \in AnyPackage : p.include # {} /\ p.files # {}}
    /\ expected = <<>> /\ next = 1 /\ lanes = [l \in Lanes |-> None]
    /\ passed = 0 /\ failed = 0 /\ recorded = 0 /\ result = "planning" /\ served = {}

Plan ==
    /\ result = "planning"
    /\ IF Plannable(package)
       THEN expected' = Ordered(Planned(package)) /\ result' = "running"
       ELSE result' = "rejected" /\ UNCHANGED expected
    /\ UNCHANGED <<package, next, lanes, passed, failed, recorded, served>>

-----------------------------------------------------------------------------
(* The lanes.                                                              *)

\* No answer at all, or what it is like: the status is the expected one, one
\* to retry (502, 503, 504) or another; the body is that of the package, it
\* with one edge beacon before </body>, or another.
Answers == [status: {"expected", "retry", "other"}, body: {"same", "beacon", "other"},
            wrong: {"nothing", "encoding", "location", "headers"}]

\* Wrong on purpose: an answer that never came is no problem.
ProblemsOfAnswers(item, a) == a # None /\ a.status # "expected"

\* compare; no beacon is allowed for on a workers.dev host.
Problems(item, a) ==
    \/ a = None
    \/ a.status # "expected" \/ a.wrong = "encoding"
    \/ item.kind # "redirect" /\ a.status = "expected" /\ a.body # "same"
    \/ item.kind = "redirect" /\ a.wrong = "location"
    \/ \E n \in DOMAIN item.headers : item.headers[n] # {} /\ a.wrong = "headers"

Taken(l) ==
    /\ result = "running" /\ lanes[l] = None /\ next <= Len(expected)
    /\ lanes' = [lanes EXCEPT ![l] = [item |-> next, attempt |-> 1]] /\ next' = next + 1
    /\ UNCHANGED <<package, expected, passed, failed, recorded, result, served>>

Retried(a, attempt) == (a = None \/ a.status = "retry") /\ attempt < Attempts

Recorded(bad) == bad /\ recorded < MaxFailures

Answered(l, a) ==
    /\ lanes[l] # None
    /\ LET i == lanes[l].item
           bad == Problems(expected[i], a) IN
       /\ served' = IF a # None /\ a.status = "expected" /\ a.body = "same" THEN served \cup {i} ELSE served \ {i}
       /\ IF Retried(a, lanes[l].attempt)
          THEN lanes' = [lanes EXCEPT ![l].attempt = @ + 1] /\ UNCHANGED <<passed, failed, recorded>>
          ELSE /\ lanes' = [lanes EXCEPT ![l] = None]
               /\ passed' = passed + (IF bad THEN 0 ELSE 1) /\ failed' = failed + (IF bad THEN 1 ELSE 0)
               /\ recorded' = IF Recorded(bad) THEN recorded + 1 ELSE recorded
    /\ UNCHANGED <<package, expected, next, result>>

NothingLeft == next > Len(expected)

\* Every lane found nothing left.
Finish ==
    /\ result = "running" /\ NothingLeft /\ \A l \in Lanes : lanes[l] = None
    /\ result' = IF failed = 0 THEN "passed" ELSE "failed"
    /\ UNCHANGED <<package, expected, next, lanes, passed, failed, recorded, served>>

Next ==
    \/ Plan \/ (\E l \in Lanes : Taken(l)) \/ Finish
    \/ \E l \in Lanes, a \in Answers \cup {None} : Answered(l, a)

Spec == Init /\ [][Next]_vars

\* Every request is answered or times out, and the lanes go on.
FairSpec ==
    /\ Spec /\ WF_vars(Plan) /\ WF_vars(Finish)
    /\ \A l \in Lanes : WF_vars(Taken(l)) /\ WF_vars(\E a \in Answers \cup {None} : Answered(l, a))

ObserveTypeOK ==
    /\ package \in AnyPackage /\ next \in 1..Len(expected) + 1
    /\ \A l \in Lanes : lanes[l] = None \/ (lanes[l].item \in 1..Len(expected) /\ lanes[l].attempt \in 1..Attempts)
    /\ {passed, failed, recorded} \subseteq 0..Len(expected) /\ recorded <= MaxFailures /\ served \subseteq DOMAIN expected
    /\ result \in {"planning", "running", "rejected", "passed", "failed"}

-----------------------------------------------------------------------------
(* Properties.                                                             *)

\* What passes was answered for every file of the package but the control
\* files, as packaged: no lane skips a request, none is judged by an answer
\* that was to be retried, a missing answer is a failure (214-251).
PassedIsServed ==
    result = "passed" =>
        \A f \in package.files : Last(f) \in Control \/
            \E i \in DOMAIN expected : expected[i].file = f /\ i \in served

\* Two files at one URL would hide each other: such a package is refused, not
\* observed (116-121).
OneRequestForOneUrl == \A i, j \in DOMAIN expected : expected[i].url = expected[j].url => i = j

\* The Worker is asked first for exactly what _routes.json of the Pages
\* project asked it for, so one contract holds on both (66-72, workers-package
\* 81-87).
RoutesKept ==
    LET rules == RunWorkerFirst(package.include, package.exclude) IN
    \A f \in package.files :
        WorkerFirst(rules, Url(f)) <=> /\ \E r \in package.include : Fits(r, Url(f))
                                       /\ ~\E r \in package.exclude : Fits(r, Url(f))

\* The counts add up to the plan, though failures beyond 200 are not listed.
EveryRequestCounts ==
    result \in {"passed", "failed"} => passed + failed = Len(expected) /\ (recorded < failed => recorded = MaxFailures)

=============================================================================
