---------------------------- MODULE HomeLocation ----------------------------
(***************************************************************************)
(* The place a user measures distances from, in one browser shared by a    *)
(* family: the providers AuthContext and AppContext, the three keys they   *)
(* keep on the device, the table home_locations, and the map page that     *)
(* centres itself on the place.                                            *)
(*                                                                         *)
(* Sessions change while loads and saves are in flight, the tab renders a  *)
(* session before its effect runs, and the page is reopened at any time: a *)
(* session may end while no page is open, or in one that closes before it  *)
(* hears of it.  localStorage always works here.                           *)
(***************************************************************************)
EXTENDS Integers, Sequences, FiniteSets

CONSTANTS
    Users,       \* the accounts that sign in at this browser
    Places,
    None,        \* no place, no row, nobody
    Broken,      \* a value in localStorage that does not parse
    Events,      \* what may happen besides: "map", "analytics"
    MaxChanges,  \* bound: sign-ins, sign-outs, refreshed tokens, reopenings
    MaxWrites,   \* bound: saves and migrations
    MaxIds       \* bound: analytics ids issued

HomeAssumption ==
    /\ {None, Broken} \cap (Users \cup Places) = {} /\ None # Broken
    /\ MaxChanges \in Nat /\ MaxWrites \in Nat /\ MaxIds \in Nat

VARIABLES
    rows,       \* user |-> the primary row of home_locations
    device,     \* localStorage: mm.home, mm.map_home_zoom, mm_session_id
    auth,       \* the account whose session is stored in the browser, or None
    session,    \* the session the tab has rendered
    effect,     \* the effect of [session] is due
    home, homeLoadState,
    active,     \* activeHomeUserId
    migrated,   \* migratedFor
    load,       \* the load that is not cancelled, or None
    writes,     \* the saves and migrations sent so far
    map,        \* the map of the open page, or None
    records,    \* history: the analytics id and account of every event
    behind,     \* history: the accounts whose things an unseen end of a session left here,
                \* now and ever
    disturbed,  \* history: users whose saves overlapped or failed (see ShownPlaceIsSaved)
    changes

tab == <<session, effect, home, homeLoadState, active, migrated>>
browser == <<device, auth, behind, records>>
vars == <<rows, browser, tab, load, writes, map, disturbed, changes>>

-----------------------------------------------------------------------------
(* A place is tagged with the account that chose it (None: while signed    *)
(* out) and with whether it has its exact coordinates and address.         *)

Home == [by: Users \cup {None}, place: Places, exact: BOOLEAN]

\* normalizeHomeForPersistence: three decimals, no address.
Normalized(h) == [h EXCEPT !.exact = FALSE]

\* loadLocalHome: the stored place is validated and reduced.
LoadLocalHome(h) == IF h \in {None, Broken} THEN None ELSE Normalized(h)

Write == [user: Users, home: Home, migration: BOOLEAN,
          stage: {"select", "update", "insert", "done", "failed", "gone"}]
InFlight == {"select", "update", "insert"}

Nation == [at |-> None, near |-> FALSE]
Map == [at: Home \cup {None}, near: BOOLEAN, restored: BOOLEAN,
        fitted: Home \cup {None},    \* appliedHomeViewRef
        home: Home \cup {None}, state: {"loading", "ready", "error"},
        decided: BOOLEAN]            \* history: the place was known once

HomeTypeOK ==
    /\ rows \in [Users -> Home \cup {None}]
    /\ device \in [home: Home \cup {None, Broken}, zoom: Home \cup {None}, id: 0..MaxIds]
    /\ {auth, session, active, migrated} \subseteq Users \cup {None}
    /\ effect \in BOOLEAN /\ home \in Home \cup {None}
    /\ homeLoadState \in {"loading", "ready", "error"}
    /\ load \in {None} \cup [user: Users, migration: 0..MaxWrites]
    /\ writes \in Seq(Write) /\ Len(writes) <= MaxWrites
    /\ map \in Map \cup {None}
    /\ records \subseteq (1..MaxIds) \X (Users \cup {None})
    /\ behind \in [now: SUBSET Users, ever: SUBSET Users]
    /\ disturbed \subseteq Users /\ changes \in 0..MaxChanges

WritesOf(u) == {i \in DOMAIN writes : writes[i].user = u /\ writes[i].stage \in InFlight}

\* What components see: nothing until the effect of their session has run.
HomeSessionReady == active = session
Shown == IF HomeSessionReady THEN home ELSE None
ShownState == IF HomeSessionReady THEN homeLoadState ELSE "loading"

Init ==
    /\ rows \in [Users -> {None} \cup {[by |-> u, place |-> p, exact |-> TRUE] :
                                       u \in Users, p \in Places}]
    /\ \A u \in Users : rows[u] # None => rows[u].by = u
    /\ \E h \in {None, Broken} \cup {[by |-> None, place |-> p, exact |-> TRUE] : p \in Places} :
            device = [home |-> h, zoom |-> None, id |-> 0]
    /\ auth = None /\ session = None /\ effect = TRUE
    /\ home = None /\ homeLoadState = "loading" /\ active = None /\ migrated = None
    /\ load = None /\ writes = <<>> /\ map = None
    /\ records = {} /\ behind = [now |-> {}, ever |-> {}] /\ disturbed = {} /\ changes = 0

-----------------------------------------------------------------------------
(* Sessions.                                                               *)

Change == changes < MaxChanges /\ changes' = changes + 1

\* Whose are the place, the zoom and the analytics id on the device?
Owners ==
    LET places == ({device.home} \ {None, Broken}) \cup ({device.zoom} \ {None}) IN
    ({h.by : h \in places} \cup {r[2] : r \in {q \in records : q[1] = device.id}}) \ {None}

\* The page is opened or reloaded: the first render has no session and no
\* place.  Saves that had only selected are lost.  The session may have ended
\* before: this page takes the device for a guest's (line 205).
OpenPage ==
    /\ Change
    /\ auth' \in {auth, None}
    /\ LET unseen == IF auth' = None THEN Owners ELSE {} IN
        behind' = [now |-> behind.now \cup unseen, ever |-> behind.ever \cup unseen]
    /\ session' = None /\ effect' = TRUE
    /\ home' = None /\ homeLoadState' = "loading" /\ active' = None /\ migrated' = None
    /\ load' = None /\ map' = None
    /\ writes' = [i \in DOMAIN writes |-> IF writes[i].stage = "select"
                                          THEN [writes[i] EXCEPT !.stage = "gone"]
                                          ELSE writes[i]]
    /\ UNCHANGED <<rows, device, records, disturbed>>

\* From the login sheet, which offers it to those who are signed out.
SignIn(u) ==
    /\ Change /\ auth = None /\ session = None /\ ~effect /\ auth' = u
    /\ UNCHANGED <<rows, device, behind, records, tab, load, writes, map, disturbed>>

\* From the menu of a tab that shows the session.
SignOut ==
    /\ Change /\ auth # None /\ session = auth /\ ~effect /\ auth' = None
    /\ UNCHANGED <<rows, device, behind, records, tab, load, writes, map, disturbed>>

\* onAuthStateChange: the tab renders the session; the effect runs later.
RenderSession ==
    /\ session # auth /\ ~effect
    /\ session' = auth /\ effect' = TRUE
    /\ UNCHANGED <<rows, browser, home, homeLoadState, active, migrated, load, writes,
                   map, disturbed, changes>>

\* A refreshed token is a new session of the same account.
RefreshToken ==
    /\ Change /\ session # None /\ session = auth /\ ~effect /\ effect' = TRUE
    /\ UNCHANGED <<rows, browser, session, home, homeLoadState, active, migrated, load,
                   writes, map, disturbed>>

\* Wrong on purpose: the analytics id is left on the device.
CleanedOfPlace(d) == [home |-> None, zoom |-> None, id |-> d.id]

\* clearSignedOutDeviceState
Cleaned(d) == [home |-> None, zoom |-> None, id |-> 0]

WasSignedIn(u) == u # None

\* The tab loses its session: the device forgets the account.
SignedOutEffect ==
    /\ session = None /\ WasSignedIn(active)
    /\ device' = Cleaned(device) /\ behind' = [behind EXCEPT !.now = {}]
    /\ active' = None /\ migrated' = None /\ home' = None /\ homeLoadState' = "ready"
    /\ load' = None
    /\ UNCHANGED disturbed

\* The tab never had a session: the place of the device is shown.
GuestEffect ==
    /\ session = None /\ ~WasSignedIn(active)
    /\ active' = None /\ migrated' = None
    /\ home' = LoadLocalHome(device.home) /\ homeLoadState' = "ready"
    /\ device' = [device EXCEPT !.home = LoadLocalHome(@)]
    /\ load' = None
    /\ UNCHANGED <<behind, disturbed>>

\* Wrong on purpose: the state set at the start of the effect is left.
StillLoading(s) == "loading"

StateWhenMigrated(s) == "ready"

\* The same account as before, already loaded or migrated.
KnownEffect ==
    /\ session # None /\ active = session /\ migrated = session
    /\ homeLoadState' = StateWhenMigrated(homeLoadState)
    /\ load' = None
    /\ UNCHANGED <<device, behind, home, active, migrated, disturbed>>

\* Another account, or one whose load has not succeeded: its row is asked for.
LoadEffect ==
    /\ session # None /\ ~(active = session /\ migrated = session)
    /\ active' = session /\ homeLoadState' = "loading"
    /\ IF active = session THEN UNCHANGED <<home, migrated>>
       ELSE home' = None /\ migrated' = None
    /\ load' = [user |-> session, migration |-> 0]
    /\ disturbed' = IF WritesOf(session) = {} THEN disturbed \ {session}
                    ELSE disturbed \cup {session}
    /\ UNCHANGED <<device, behind>>

Effect ==
    /\ effect /\ effect' = FALSE
    /\ SignedOutEffect \/ GuestEffect \/ KnownEffect \/ LoadEffect
    /\ UNCHANGED <<rows, auth, records, session, writes, map, changes>>

-----------------------------------------------------------------------------
(* Loading and migrating.                                                  *)

LoadAnswered == load # None /\ load.migration = 0

LoadFails ==
    /\ LoadAnswered
    /\ home' = None /\ homeLoadState' = "error" /\ load' = None
    /\ UNCHANGED <<rows, browser, session, effect, active, migrated, writes, map,
                   disturbed, changes>>

\* The account has a place: it replaces that of the device.
LoadFindsRow ==
    /\ LoadAnswered /\ auth = load.user /\ rows[auth] # None
    /\ LET h == Normalized(rows[auth]) IN
        /\ home' = h /\ homeLoadState' = "ready" /\ migrated' = load.user
        /\ device' = [device EXCEPT !.home = h]
    /\ load' = None
    /\ UNCHANGED <<rows, auth, behind, records, session, effect, active, writes, map, disturbed, changes>>

\* It has none, or the token is no longer its own: the device's place is
\* shown and sent to the account.
LoadFindsNone ==
    /\ LoadAnswered /\ (auth = load.user => rows[auth] = None)
    /\ LET local == LoadLocalHome(device.home) IN
        /\ device' = [device EXCEPT !.home = local]
        /\ home' = local
        /\ IF local = None
           THEN /\ homeLoadState' = "ready" /\ migrated' = load.user /\ load' = None
                /\ UNCHANGED writes
           ELSE /\ Len(writes) < MaxWrites
                /\ writes' = Append(writes, [user |-> load.user, home |-> local,
                                             migration |-> TRUE, stage |-> "insert"])
                /\ load' = [load EXCEPT !.migration = Len(writes')]
                /\ UNCHANGED <<homeLoadState, migrated>>
    /\ UNCHANGED <<rows, auth, behind, records, session, effect, active, map, disturbed,
                   changes>>

Migrated(w) == w.stage = "done"

MigrationReturns ==
    /\ load # None /\ load.migration # 0
    /\ LET w == writes[load.migration] IN
        /\ w.stage \in {"done", "failed"}
        /\ migrated' = IF Migrated(w) THEN load.user ELSE migrated
    /\ homeLoadState' = "ready" /\ load' = None
    /\ UNCHANGED <<rows, browser, session, effect, home, active, writes, map, disturbed, changes>>

-----------------------------------------------------------------------------
(* Saving.                                                                 *)

\* setHome: shown and stored at once, saved in the background if signed in.
SetHome(p) ==
    LET h == Normalized([by |-> session, place |-> p, exact |-> TRUE]) IN
    /\ home' = h /\ homeLoadState' = "ready"
    /\ device' = [device EXCEPT !.home = h]
    /\ IF session = None THEN UNCHANGED <<writes, disturbed>>
       ELSE /\ Len(writes) < MaxWrites
            /\ writes' = Append(writes, [user |-> session, home |-> h,
                                         migration |-> FALSE, stage |-> "select"])
            /\ disturbed' = IF WritesOf(session) = {} /\ load = None
                            THEN disturbed ELSE disturbed \cup {session}
    /\ UNCHANGED <<rows, auth, behind, records, session, effect, active, migrated, load, map, changes>>

\* persistHome: is there a row?  Row-level security shows only the account's own.
Select(i) ==
    LET w == writes[i] IN
    /\ w.stage = "select"
    /\ writes' = [writes EXCEPT ![i].stage =
                    IF auth = w.user /\ rows[w.user] # None THEN "update" ELSE "insert"]
    /\ UNCHANGED <<rows, browser, tab, load, map, disturbed, changes>>

\* The unique index allows one primary row; the trigger and the policies ask
\* for the account's own token.
Accepted(w) ==
    /\ auth = w.user
    /\ w.stage = "insert" => rows[w.user] = None

WriteCommits(i) ==
    LET w == writes[i] IN
    /\ w.stage \in {"update", "insert"} /\ Accepted(w)
    /\ rows' = [rows EXCEPT ![w.user] = w.home]
    /\ \E s \in {"done", "failed"} :   \* the answer may be lost
        /\ writes' = [writes EXCEPT ![i].stage = s]
        /\ UNCHANGED disturbed
    /\ UNCHANGED <<browser, tab, load, map, changes>>

\* An error, from the network, the index, the policies or the rate limit.  It
\* is only logged.
WriteFails(i) ==
    /\ writes[i].stage \in InFlight
    /\ writes' = [writes EXCEPT ![i].stage = "failed"]
    /\ disturbed' = IF writes[i].migration THEN disturbed
                    ELSE disturbed \cup {writes[i].user}
    /\ UNCHANGED <<rows, browser, tab, load, map, changes>>

-----------------------------------------------------------------------------
(* The map page and analytics.                                             *)

\* resolveInitialMapView: the stored place, if the stored zoom is for it.
InitialView ==
    LET local == LoadLocalHome(device.home) IN
    IF local # None /\ device.zoom # None /\ device.zoom.place = local.place
    THEN [at |-> local, near |-> TRUE] ELSE Nation

Restored(view) == view # Nation

OpenMap ==
    /\ "map" \in Events /\ map = None
    /\ map' = [at |-> InitialView.at, near |-> InitialView.near,
               restored |-> Restored(InitialView), fitted |-> None,
               home |-> None, state |-> "loading", decided |-> FALSE]
    /\ device' = [device EXCEPT !.home = LoadLocalHome(@)]
    /\ UNCHANGED <<rows, auth, behind, records, tab, load, writes, disturbed, changes>>

Undecided(h, state) == h = None /\ state = "loading"

\* The effect of the map page on [home, homeLoadState].
CentreMap ==
    /\ map # None /\ <<map.home, map.state>> # <<Shown, ShownState>>
    /\ LET seen == [map EXCEPT !.home = Shown, !.state = ShownState,
                               !.decided = @ \/ Shown # None] IN
        IF Undecided(Shown, ShownState) THEN map' = seen /\ UNCHANGED device
        ELSE IF Shown = None
        THEN /\ map' = [seen EXCEPT !.at = None, !.restored = FALSE,
                                    !.near = IF map.restored THEN FALSE ELSE map.near]
             /\ UNCHANGED device
        ELSE IF map.fitted = Shown
        THEN map' = [seen EXCEPT !.restored = FALSE] /\ UNCHANGED device
        ELSE /\ map' = [seen EXCEPT !.at = Shown, !.near = TRUE, !.restored = FALSE,
                                    !.fitted = Shown]
             /\ device' = [device EXCEPT !.zoom = Shown]
    /\ UNCHANGED <<rows, auth, behind, records, tab, load, writes, disturbed, changes>>

Ids == {r[1] : r \in records}

\* trackEvent: an event carries the account and the id of the device.
TrackEvent ==
    /\ "analytics" \in Events
    /\ \E id \in IF device.id # 0 THEN {device.id} ELSE (1..MaxIds) \ Ids :
        /\ \A other \in 1..MaxIds : other < id => device.id = id \/ other \in Ids
        /\ <<id, auth>> \notin records
        /\ device' = [device EXCEPT !.id = id]
        /\ records' = records \cup {<<id, auth>>}
    /\ session = auth /\ ~effect
    /\ UNCHANGED <<rows, auth, behind, tab, load, writes, map, disturbed, changes>>

-----------------------------------------------------------------------------
Loading == LoadFails \/ LoadFindsRow \/ LoadFindsNone \/ MigrationReturns
Saving == \E i \in DOMAIN writes : Select(i) \/ WriteCommits(i) \/ WriteFails(i)
Person == \/ \E u \in Users : SignIn(u)
          \/ \E p \in Places : SetHome(p)
          \/ SignOut \/ OpenPage \/ OpenMap \/ TrackEvent

Next == RenderSession \/ RefreshToken \/ Effect \/ Loading \/ Saving \/ Person \/ CentreMap

Spec == Init /\ [][Next]_vars

\* Requests are answered one way or the other, and the tab renders and runs
\* the effects that are due.
FairSpec == Spec /\ WF_vars(RenderSession) /\ WF_vars(Effect) /\ WF_vars(Loading)
                 /\ WF_vars(Saving)

-----------------------------------------------------------------------------
(* Properties.                                                             *)

IsOf(h, accounts) == h # None => h.by \in accounts \cup {None}

\* A place chosen by one account is never shown to another account or to a
\* guest, nor written to another one's row, also in the renders between a
\* change of session and its effect (lines 201-203, 221, 291-294), except one
\* that was on the device when its session ended with no page to see it: the
\* next page takes it for a guest's (205).  A page that has not yet heard of
\* its session may show that account's place.
PlaceStaysWithItsAccount ==
    /\ LET u == IF session = None THEN auth ELSE session IN
       IsOf(Shown, IF u = None THEN behind.now ELSE {u} \cup behind.ever)
    /\ \A u \in Users : IsOf(rows[u], {u} \cup behind.ever)

\* When a tab has seen its session end, none of the three keys on the device
\* is any account's (lines 14-22, 203), whatever was left there before, until
\* someone uses the device as a guest; when none has, only what was left.
NothingLeftBehind ==
    auth = None /\ session = None /\ ~effect =>
        /\ device.home # Broken => IsOf(device.home, behind.now)
        /\ IsOf(device.zoom, behind.now)
        /\ \A r \in records : r[1] = device.id => r[2] \in behind.now \cup {None}

\* No two accounts are recorded under one analytics id (analytics.ts 13-16),
\* unless the session of one of them ended unseen and left it there.
OneAccountPerId ==
    \A r, s \in records : r[1] = s[1] /\ None \notin {r[2], s[2]} =>
        r[2] = s[2] \/ {r[2], s[2]} \cap behind.ever # {}

\* Exact coordinates and addresses of older versions are neither shown nor
\* kept once the tab has started, and never written to a row (lines 64-67).
NothingExactKept ==
    /\ Shown # None => ~Shown.exact
    /\ ~effect /\ device.home \notin {None, Broken} => ~device.home.exact
    /\ \A i \in DOMAIN writes : ~writes[i].home.exact

\* What belongs to an account stays with it: the four above, whose exceptions
\* are what sessions that ended unseen left behind.
AccountsStayApart ==
    PlaceStaysWithItsAccount /\ NothingLeftBehind /\ OneAccountPerId /\ NothingExactKept

\* When the place counts as loaded or migrated and nothing is in flight, the
\* account has the place that is shown (lines 190, 197), though nothing is ever
\* taken back: unless, since its last load began with no save out, a save was
\* made while another one or the load was out, or failed, which is only logged
\* (139-140), or a load began while a save was out.
ShownPlaceIsSaved ==
    \A u \in Users :
        auth = u /\ session = u /\ active = u /\ migrated = u /\ ~effect /\ load = None
        /\ WritesOf(u) = {} /\ u \notin disturbed
            => IF rows[u] = None THEN home = None
               ELSE home # None /\ home.place = rows[u].place

\* The middle of the country at the zoom of a commute is sea.  The map shows
\* it only after a place it knew has gone (MapPage.tsx 536-538).
NotOverTheSea == map # None /\ map.near /\ map.at = None => map.decided

=============================================================================
