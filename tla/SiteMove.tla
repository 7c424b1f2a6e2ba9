------------------------------ MODULE SiteMove ------------------------------
(***************************************************************************)
(* Moving the school site from the old address to a host of its own: the   *)
(* middleware that answers every request (functions/_middleware.ts and     *)
(* _school-migration.ts), the return path kept across a login at a         *)
(* provider, the page /auth/callback, and the notices of the move.         *)
(*                                                                         *)
(* One browser tab requests pages, follows redirects, logs in at the       *)
(* provider and comes back, while the operator switches maintenance and    *)
(* the phase of the migration and days pass.                               *)
(***************************************************************************)
EXTENDS Integers, FiniteSets

CONSTANTS
    None,
    Phases,      \* the phases the operator may set, of {"rescue", "retired"}
    LastDay,     \* bound: days
    NoticeDays,  \* days the new address shows its notice
    MaxAttempts, \* bound: logins started
    Visits       \* bound: the requests a visitor makes, a subset of Request

VARIABLES
    env,        \* the bindings of the deployment at the old address
    tab,        \* what the tab shows, or the redirect it follows
    kind,       \* at the old address: null, anon or account (AuthContext)
    hasData,    \* the guest has favourites, notes or records there
    saved,      \* sessionStorage mm.auth_return_path at each host, or None
    attempt,    \* history: where the login under way was started, or None
    attempts,
    callback,   \* the state of the callback page, or None
    today, switchDate,
    dismissed,  \* localStorage: the switch date for which a notice was closed
    closed,     \* history: the dates for which it was closed and stored
    mounted     \* what the notice read when the page was mounted, or None

login == <<kind, hasData, saved, attempt, attempts, callback>>
notice == <<today, switchDate, dismissed, closed, mounted>>
vars == <<env, tab, login, notice>>

-----------------------------------------------------------------------------
(* Requests and answers.                                                   *)

Hosts == {"old", "high", "preview"}

RescuePaths == {"/auth/callback", "/family/join", "/mypage", "/favorites", "/compare", "/dashboard"}
MovablePaths == {"/map", "/search", "/mypage", "/favorites", "/compare", "/dashboard"}
SpaRoutes == MovablePaths \cup {"/auth/callback", "/family/join"}
Routes == {"/school/1", "/legal/terms"}     \* inventory.routes
Assets == {"/assets/app.js"}                \* inventory.assets
Endpoints == {"/api/admin/me", "/api/admin/maintenance", "/api/csp-report"}
Paths == SpaRoutes \cup Routes \cup Assets \cup Endpoints \cup
         {"/", "/api/v1/schools", "/api/unknown", "/legacy-school",
          "/school-recovery-ended.html", "/maintenance.html", "/nowhere", "malformed"}

IsApi(path) == path \in Endpoints \cup {"/api/v1/schools", "/api/unknown"}

\* Names in the query string: of advertising, of a position, of a search, of
\* a login, and one that is given twice.
Names == {"tracking", "position", "q", "code", "twice"}

Request == [host: Hosts, method: {"GET", "HEAD", "POST"}, path: Paths,
            slash: BOOLEAN, query: SUBSET Names]

\* body: what the answer shows; next: the deployment's own file or handler.
Answer(status, body) == [status |-> status, body |-> body, to |-> None]
Redirect(status, host, path, query) ==
    [status |-> status, body |-> "none", to |-> [host |-> host, path |-> path, query |-> query]]

\* What sessionStorage keeps of a return path, and the login under way.
Return == [path: {"/family/join", "/mypage"}, age: 0..2]
Attempt == [start: Paths, host: Hosts, age: 0..2]
\* What the page of its return knows.
Callback == [done: BOOLEAN, failure: {None, "error", "timeout"},
             landed: Paths \cup {None}, expected: Paths \cup {None}]

SiteMoveAssumption ==
    /\ None \notin {"rescue", "retired"} \cup Paths \cup Nat \cup Return \cup Attempt \cup Callback
    /\ Phases \subseteq {"rescue", "retired"}
    /\ LastDay \in Nat /\ NoticeDays \in Nat /\ MaxAttempts \in Nat
    /\ Visits \subseteq Request

OnlyTracking(query) == query # {} /\ query \subseteq {"tracking"}

ApexTracking(r) ==
    /\ r.method \in {"GET", "HEAD"} /\ r.host = "old" /\ r.path = "/" /\ OnlyTracking(r.query)

\* cleanApexTrackingRequest: the redirect drops the query.
ApexQuery(query) == {}

\* The Worker of the entrance answers the bare address of the old host.
Portal(r) == r.host = "old" /\ r.path = "/" /\ r.query = {}

EndpointMethods(path) ==
    CASE path = "/api/csp-report" -> {"POST"}
      [] path = "/api/admin/maintenance" -> {"GET", "POST"}
      [] OTHER -> {"GET"}

Forwarded(path, query) ==
    query \cap (CASE path = "/map" -> {"position"} [] path = "/search" -> {"q"} [] OTHER -> {})

\* schoolMigrationAction: the first rule that fits.
MigrationAction(r, phase) ==
    IF r.path = "malformed" \/ r.host = "high" THEN "missing"
    ELSE IF r.path = "/api/v1/schools" THEN "next"
    ELSE IF IsApi(r.path)
    THEN IF r.path \notin Endpoints THEN "missing"
         ELSE IF phase = "retired" THEN "ended"
         ELSE IF r.slash THEN "missing"
         ELSE IF r.method \in EndpointMethods(r.path) THEN "next" ELSE "method"
    ELSE IF r.method \notin {"GET", "HEAD"} THEN "method"
    ELSE IF phase = "rescue" /\ r.path \in RescuePaths THEN "shell"
    ELSE IF r.path \in {"/auth/callback", "/family/join", "/legacy-school",
                        "/school-recovery-ended.html"} THEN "ended"
    ELSE IF r.path \in MovablePaths \cup Routes THEN "redirect"
    ELSE IF r.path \in {"/"} \cup Assets THEN "next" ELSE "missing"

\* onRequest while a phase is set.  A broken inventory answers 503 for all.
AnswerInPhase(r, e) ==
    IF ~e.inventory THEN Answer(503, "none")
    ELSE LET action == MigrationAction(r, e.phase) IN
         CASE action = "missing" -> Answer(404, "notFound")
           [] action = "method" -> Answer(405, "none")
           [] action = "ended" -> Answer(410, "ended")
           [] action = "redirect" -> Redirect(301, "high", r.path, Forwarded(r.path, r.query))
           [] action = "next" -> Answer(200, "next")
           [] action = "shell" -> IF e.maintenance THEN Answer(503, "maintenance")
                                  ELSE Answer(200, "legacy")

AllowedInMaintenance == {"/legal/terms", "/maintenance.html"} \cup Assets

\* onRequest otherwise: maintenance first, then the shell of the application.
AnswerOutOfPhase(r, e) ==
    IF e.maintenance
    THEN IF IsApi(r.path) \/ r.path \in AllowedInMaintenance THEN Answer(200, "next")
         ELSE Answer(503, "maintenance")
    ELSE IF r.method \in {"GET", "HEAD"} /\ r.path \in SpaRoutes
    THEN Answer(200, IF e.legacyShell THEN "legacy" ELSE "app")
    ELSE Answer(200, "next")

Plain == [phase |-> None, maintenance |-> FALSE, inventory |-> TRUE, legacyShell |-> FALSE]
EnvOf(host) == IF host = "old" THEN env ELSE Plain

Respond(r) ==
    IF Portal(r) THEN Answer(200, "portal")
    ELSE IF ApexTracking(r) THEN Redirect(302, "old", "/", ApexQuery(r.query))
    ELSE IF EnvOf(r.host).phase # None THEN AnswerInPhase(r, EnvOf(r.host))
    ELSE AnswerOutOfPhase(r, EnvOf(r.host))

Get(host, path, query) == [host |-> host, method |-> "GET", path |-> path,
                           slash |-> FALSE, query |-> query]

-----------------------------------------------------------------------------
(* State.                                                                  *)

SiteMoveTypeOK ==
    /\ env \in [phase: Phases \cup {None}, maintenance: BOOLEAN, inventory: BOOLEAN,
                legacyShell: BOOLEAN]
    /\ tab \in [request: Request, answer: [status: {200, 301, 302, 404, 405, 410, 503},
                body: {"app", "legacy", "portal", "maintenance", "next", "notFound", "ended", "none"},
                to: {None} \cup [host: Hosts, path: Paths, query: SUBSET Names]],
                hops: 0..2]
    /\ kind \in {"null", "anon", "account"} /\ hasData \in BOOLEAN
    /\ saved \in [Hosts -> {None} \cup Return]
    /\ attempt \in {None} \cup Attempt /\ attempts \in 0..MaxAttempts
    /\ callback \in {None} \cup Callback
    /\ today \in 0..LastDay /\ switchDate \in (0..LastDay) \cup {None}
    /\ dismissed \in [{"before", "after"} -> (0..LastDay) \cup {None}]
    /\ closed \in [{"before", "after"} -> SUBSET (0..LastDay)]
    /\ mounted \in {None} \cup [day: 0..LastDay, switch: (0..LastDay) \cup {None},
                                dismissed: [{"before", "after"} -> (0..LastDay) \cup {None}]]

Visited(r) == [request |-> r, answer |-> Respond(r), hops |-> 0]

Init ==
    /\ env \in [phase: {None}, maintenance: {FALSE}, inventory: {TRUE}, legacyShell: BOOLEAN]
    /\ tab = Visited(Get("old", "/", {}))
    /\ kind = "null" /\ hasData = FALSE /\ saved = [h \in Hosts |-> None]
    /\ attempt = None /\ attempts = 0
    /\ callback = None
    /\ today = 0 /\ switchDate \in {None} \cup ({1} \cap 0..LastDay)
    /\ dismissed = [n \in {"before", "after"} |-> None] /\ mounted = None
    /\ closed = [n \in {"before", "after"} |-> {}]

Host == tab.request.host
Path == tab.request.path
InApp == tab.answer.body \in {"app", "legacy"}
Legacy == tab.answer.body = "legacy"

\* readSiteMoveEnv: read once, when the page is mounted.
Mount(answer) ==
    mounted' = IF answer.body \in {"app", "legacy"}
               THEN [day |-> today, switch |-> switchDate, dismissed |-> dismissed]
               ELSE None

-----------------------------------------------------------------------------
(* The operator.                                                           *)

SetPhase(p) ==
    /\ p # env.phase /\ env' = [env EXCEPT !.phase = p]
    /\ UNCHANGED <<tab, login, notice>>

ToggleMaintenance ==
    /\ env' = [env EXCEPT !.maintenance = ~@]
    /\ UNCHANGED <<tab, login, notice>>

BreakInventory ==
    /\ env' = [env EXCEPT !.inventory = ~@]
    /\ UNCHANGED <<tab, login, notice>>

NextDay ==
    /\ today < LastDay /\ today' = today + 1
    /\ UNCHANGED <<env, tab, login, switchDate, dismissed, closed, mounted>>

\* A release with another switch date.
Postpone ==
    /\ switchDate # None /\ switchDate < LastDay /\ switchDate' = switchDate + 1
    /\ UNCHANGED <<env, tab, login, today, dismissed, closed, mounted>>

-----------------------------------------------------------------------------
(* The tab.                                                                *)

Visit ==
    /\ \E r \in Visits : tab' = Visited(r)
    /\ Mount(tab'.answer) /\ callback' = None
    /\ attempt' = None
    /\ UNCHANGED <<env, kind, hasData, saved, attempts, today, switchDate, dismissed, closed>>

FollowRedirect ==
    LET to == tab.answer.to
        r == Get(to.host, to.path, to.query) IN
    /\ to # None /\ tab.hops < 2
    /\ tab' = [request |-> r, answer |-> Respond(r), hops |-> tab.hops + 1]
    /\ Mount(tab'.answer)
    /\ UNCHANGED <<env, login, today, switchDate, dismissed, closed>>

\* rememberAuthReturn
Remembered(before, path) ==
    IF path \in {"/family/join", "/mypage"} THEN [path |-> path, age |-> 0] ELSE None

\* signInLINE, signInGoogle; a guest links instead, and returns to /mypage.
StartLogin ==
    /\ InApp /\ callback = None /\ kind # "account" /\ attempts < MaxAttempts
    /\ LET start == IF kind = "anon" THEN "/mypage" ELSE Path IN
        /\ saved' = [saved EXCEPT ![Host] = Remembered(@, start)]
        /\ attempt' = [start |-> start, host |-> Host, age |-> 0]
    /\ attempts' = attempts + 1
    /\ UNCHANGED <<env, tab, kind, hasData, callback, notice>>

Older(s) == IF s = None \/ s.age = 2 THEN s ELSE [s EXCEPT !.age = @ + 1]

\* Ten minutes: age 1 is the last moment a saved path is good.
TimePasses ==
    /\ \E h \in Hosts : saved[h] # None
    /\ saved' = [h \in Hosts |-> Older(saved[h])] /\ attempt' = Older(attempt)
    /\ UNCHANGED <<env, tab, kind, hasData, attempts, callback, notice>>

\* The provider sends the browser back to /auth/callback.
ProviderReturns ==
    /\ attempt # None /\ callback = None
    /\ \E failed \in BOOLEAN :
        LET r == Get(attempt.host, "/auth/callback", {"code"}) IN
        /\ tab' = Visited(r)
        /\ callback' = IF Respond(r).body \notin {"app", "legacy"} THEN None
                       ELSE [done |-> failed, failure |-> IF failed THEN "error" ELSE None,
                             landed |-> None, expected |-> None]
    /\ attempt' = IF callback' = None THEN None ELSE attempt
    /\ Mount(tab'.answer)
    /\ UNCHANGED <<env, kind, hasData, saved, attempts, today, switchDate, dismissed, closed>>

Fallback == IF Legacy THEN "/mypage" ELSE "/"

\* Ten minutes are age 1.
Fresh(s) == s.age <= 1

\* consumeAuthReturn
Consumed == IF saved[Host] # None /\ Fresh(saved[Host]) THEN saved[Host].path ELSE Fallback

Done == callback.done

\* SIGNED_IN, or the session that getSession finds: whichever comes first
\* navigates, within the page.  expected is the history's answer.
SignedIn ==
    /\ callback # None /\ ~Done
    /\ kind' = "account"
    /\ saved' = [saved EXCEPT ![Host] = None]
    /\ callback' = [callback EXCEPT !.done = TRUE, !.landed = Consumed,
            !.expected = IF attempt.start \in {"/family/join", "/mypage"} /\ attempt.age <= 1
                         THEN attempt.start ELSE Fallback]
    /\ UNCHANGED <<env, tab, hasData, attempt, attempts, notice>>

CallbackTimeout ==
    /\ callback # None /\ ~Done
    /\ callback' = [callback EXCEPT !.done = TRUE, !.failure = "timeout"]
    /\ UNCHANGED <<env, tab, kind, hasData, saved, attempt, attempts, notice>>

\* The login is over: the tab shows the page it landed on.
Land ==
    /\ callback # None /\ callback.done
    /\ LET path == IF callback.landed # None THEN callback.landed ELSE Fallback IN
        tab' = [tab EXCEPT !.request = Get(Host, path, {})]
    /\ callback' = None /\ attempt' = None
    /\ UNCHANGED <<env, kind, hasData, saved, attempts, notice>>

BecomeGuest ==
    /\ InApp /\ callback = None /\ kind = "null" /\ kind' = "anon"
    /\ UNCHANGED <<env, tab, hasData, saved, attempt, attempts, callback, notice>>

SaveSomething ==
    /\ InApp /\ kind # "null" /\ ~hasData /\ hasData' = TRUE
    /\ UNCHANGED <<env, tab, kind, saved, attempt, attempts, callback, notice>>

SignOut ==
    /\ InApp /\ callback = None /\ kind # "null" /\ kind' = "null" /\ hasData' = FALSE
    /\ UNCHANGED <<env, tab, saved, attempt, attempts, callback, notice>>

-----------------------------------------------------------------------------
(* The notices of the move.                                                *)

\* Wrong on purpose: what a signed-in user closed is closed for the guest.
DismissibleForAll(n) == mounted.dismissed[IF n = "after" THEN n ELSE "before"] = mounted.switch

IsDismissed(n) == n \in {"before", "after"} /\ mounted.dismissed[n] = mounted.switch

\* decideSiteMoveNotice
Notice ==
    IF mounted = None \/ mounted.switch = None THEN "none"
    ELSE IF Host = "old"
    THEN IF mounted.day > mounted.switch THEN "none"
         ELSE IF kind = "anon" /\ hasData /\ ~IsDismissed("guest") THEN "guest"
         ELSE IF kind = "account" /\ ~IsDismissed("before") THEN "before" ELSE "none"
    ELSE IF Host = "high" /\ mounted.day >= mounted.switch
            /\ mounted.day < mounted.switch + NoticeDays /\ ~IsDismissed("after")
    THEN "after" ELSE "none"

ClosedFor(d) == d

Dismiss ==
    /\ Notice \in {"before", "after"}
    /\ \/ /\ dismissed' = [dismissed EXCEPT ![Notice] = ClosedFor(mounted.switch)]
          /\ closed' = [closed EXCEPT ![Notice] = @ \cup {mounted.switch}]
       \/ UNCHANGED <<dismissed, closed>>    \* localStorage is not writable
    /\ mounted' = [mounted EXCEPT !.dismissed[Notice] = mounted.switch]
    /\ UNCHANGED <<env, tab, login, today, switchDate>>

-----------------------------------------------------------------------------
Operator == (\E p \in Phases \cup {None} : SetPhase(p)) \/ ToggleMaintenance \/ BreakInventory
            \/ NextDay \/ Postpone

Next ==
    \/ Operator \/ Visit \/ FollowRedirect \/ StartLogin \/ TimePasses \/ ProviderReturns
    \/ SignedIn \/ CallbackTimeout \/ Land \/ BecomeGuest \/ SaveSomething \/ SignOut \/ Dismiss

Spec == Init /\ [][Next]_vars

-----------------------------------------------------------------------------
(* Properties.                                                             *)

\* Whatever is requested, no redirect carries the code of a login or what
\* advertising added on to the next page (_school-migration.ts 70-77).
NothingForwarded ==
    tab.answer.to # None => tab.answer.to.query \cap {"code", "tracking"} = {}

\* Redirects end: what a redirect leads to is not redirected again, whatever
\* the operator has set in between (_middleware.ts 126).
RedirectsEnd == tab.hops > 0 => tab.answer.to = None

\* The callback of a login is answered by the page that completes it or by an
\* error, never by a redirect, and an API request gets no page and no
\* redirect, in maintenance and in every phase (_middleware.ts 200-204).
CallbackIsAnsweredHere ==
    LET answer == tab.answer IN
    /\ Path = "/auth/callback" =>
        answer.to = None /\ (answer.status = 200 /\ tab.request.method # "POST" => InApp)
    /\ IsApi(Path) \/ Path = "/api/unknown" =>
        answer.body \notin {"app", "legacy", "portal", "maintenance"} /\ answer.to = None

\* A login returns to the page it was started from if that page is one of
\* the two, within ten minutes, and else to the default; also when earlier
\* logins were abandoned (siteMoveRecovery.ts 11-31).
ReturnsWhereItStarted ==
    callback # None /\ callback.landed # None => callback.landed = callback.expected

\* During the rescue every page a login may land on is still served at the
\* old address when it is requested again.
LandingIsRescued ==
    callback # None /\ callback.landed # None /\ Legacy /\ Host = "old"
    /\ env.phase = "rescue" /\ env.inventory /\ ~env.maintenance
        => Respond(Get("old", callback.landed, {})).body = "legacy"

\* Who holds data as a guest is told until the switch date has passed, and
\* nothing that was closed before hides it (siteMove.ts 7-8).
GuestIsTold ==
    mounted # None /\ mounted.switch # None /\ Host = "old" /\ kind = "anon" /\ hasData
    /\ mounted.day <= mounted.switch => Notice = "guest"

\* A notice that was closed for a date, and the device stored it, is not
\* shown again for that date by the page or the pages opened after it, also
\* when the date was moved in between (siteMove.ts 21).
ClosedStaysClosed == Notice \in {"before", "after"} => mounted.switch \notin closed[Notice]

\* All of it together, for every request, login and notice.
EdgeKeepsItsPromises ==
    /\ NothingForwarded /\ RedirectsEnd /\ CallbackIsAnsweredHere
    /\ ReturnsWhereItStarted /\ LandingIsRescued /\ GuestIsTold /\ ClosedStaysClosed
=============================================================================
