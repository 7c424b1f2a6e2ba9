------------------------------ MODULE UserData ------------------------------
(***************************************************************************)
(* A signed-in user's favourites, notes and own deviation values in one    *)
(* browser tab: the hook useUserData over the tables of the database.      *)
(*                                                                         *)
(* Every mutation shows its result at once, sends one request, and takes   *)
(* the result back when the request fails.  Requests of different          *)
(* mutations are in flight together, are committed in any order, and their *)
(* answers come in any order; meanwhile the tab reloads, the session       *)
(* changes, and React renders some time after a state was set.             *)
(*                                                                         *)
(* The module has one school: no operation touches the record of another.  *)
(***************************************************************************)
EXTENDS Integers, Sequences, FiniteSets

CONSTANTS
    Users,            \* the accounts that sign in at this browser
    Values,           \* priorities, texts and deviation values
    DefaultPriority,  \* what a new favourite gets (3 in the code)
    None,             \* no row, no entry, nobody
    Operations,       \* the operations that are called
    MaxCalls,         \* bound: calls of mutations
    MaxLoads          \* bound: loads, that is session changes and reloads

UserDataAssumption ==
    /\ DefaultPriority \in Values
    /\ None \notin Users \cup Values
    /\ MaxCalls \in Nat /\ MaxLoads \in Nat

VARIABLES
    db,           \* user |-> the rows of the three tables
    agreed,       \* user |-> the last consent committed, in whatever tab
    session,      \* the user this tab has rendered, or None
    effect,       \* the session was rendered, loadData not yet called for it
    loaded,       \* loadedUserId: the owner of screen, or None
    failed,       \* the user whose last load failed, or None
    loading,
    loads,        \* the load that is in flight for each generation
    maintenance,
    screen,       \* the React state: favorites, notes and mine
    seen,         \* favoritesRef, notesRef, mineRef and dataReadyRef
    calls         \* the mutations, in the order they were called

tables == <<db, agreed>>
tab == <<session, effect, loaded, failed, loading, loads>>
vars == <<tables, tab, maintenance, screen, seen, calls>>

-----------------------------------------------------------------------------
(* Records.  A value on screen or in a row is tagged with its author.      *)

Entry == Users \X Values

MineRecord == [value: Entry \cup {None}, note: Entry \cup {None}, submit: BOOLEAN]
EmptyMine == [value |-> None, note |-> None, submit |-> FALSE]

Screen == [fav: Entry \cup {None}, note: Entry \cup {None},
           mine: MineRecord \cup {None}]
Blank == [fav |-> None, note |-> None, mine |-> None]

\* dept is the row of the department, sentinel the row of the whole school.
Rows == [fav: Entry \cup {None}, note: Entry \cup {None},
         dept: [value: Entry, submit: BOOLEAN] \cup {None},
         sentinel: [note: Entry \cup {None}, submit: BOOLEAN] \cup {None}]

FavOps == {"add", "remove", "priority"}
NoteOps == {"note", "noteDelete"}
MineOps == {"value", "mineNote", "consent", "mineDelete"}

Waiting == {"queued", "sent", "done", "failed"}
Settled == {"success", "blocked", "error"}

Call(arg, prev) ==
        [op: FavOps \cup NoteOps \cup MineOps, user: Users, arg: arg, prev: prev,
         stage: Waiting \cup Settled,
         committed: BOOLEAN,   \* history: the rows were written
         overtaken: BOOLEAN,   \* history: a load was in flight at the same time
         met: {"nothing", "call", "rollback"},   \* history: see Met
         during: {"normal", "maintenance", "loadError"}]  \* when it was sent

Load == [user: Users, answer: [type: {"rows"}, screen: Screen]
                              \cup [type: {"none", "error"}]]

UserDataTypeOK ==
    /\ db \in [Users -> Rows] /\ agreed \in [Users -> BOOLEAN]
    /\ session \in Users \cup {None} /\ effect \in BOOLEAN
    /\ loaded \in Users \cup {None} /\ failed \in Users \cup {None}
    /\ loading \in BOOLEAN /\ maintenance \in BOOLEAN
    /\ \A g \in DOMAIN loads : loads[g] \in Load \cup {None}
    /\ screen \in Screen
    /\ seen \in [screen: Screen, ready: BOOLEAN]
    /\ \A i \in DOMAIN calls :
        calls[i] \in Call(IF calls[i].op = "consent" THEN BOOLEAN ELSE Entry \cup {None},
                          IF calls[i].op \in MineOps THEN MineRecord \cup {None}
                          ELSE Entry \cup {None})

CellOf(op) == CASE op \in FavOps -> "fav"
                [] op \in NoteOps -> "note"
                [] OTHER -> "mine"

-----------------------------------------------------------------------------
(* The tables.                                                             *)

\* What a load makes of the rows; a record counts as submitted if any row is.
Shown(r) ==
    [fav |-> r.fav, note |-> r.note,
     mine |-> IF r.dept = None /\ r.sentinel = None THEN None
              ELSE [value |-> IF r.dept = None THEN None ELSE r.dept.value,
                    note |-> IF r.sentinel = None THEN None ELSE r.sentinel.note,
                    submit |-> \E x \in {r.dept, r.sentinel} \ {None} : x.submit]]

\* An upsert of a deviation row leaves visibility out: a row that exists
\* keeps its own, a new one is private.
KeptVisibility(row) == row # None /\ row.submit

SavedConsent(r, submit) ==
    [r EXCEPT !.dept = IF r.dept = None THEN None ELSE [r.dept EXCEPT !.submit = submit],
              !.sentinel = [note |-> IF r.sentinel = None THEN None ELSE r.sentinel.note,
                            submit |-> submit]]

\* The rows after the request.  An insert of an existing favourite is
\* refused with 23505 and changes nothing.
Written(r, op, arg) ==
    CASE op = "add" -> [r EXCEPT !.fav = IF r.fav = None THEN arg ELSE r.fav]
      [] op = "remove" -> [r EXCEPT !.fav = None]
      [] op = "priority" -> [r EXCEPT !.fav = arg]
      [] op = "note" -> [r EXCEPT !.note = arg]
      [] op = "noteDelete" -> [r EXCEPT !.note = None]
      [] op = "value" ->
            [r EXCEPT !.dept = IF arg = None THEN None
                               ELSE [value |-> arg, submit |-> KeptVisibility(r.dept)]]
      [] op = "mineNote" ->
            [r EXCEPT !.sentinel = [note |-> arg, submit |-> KeptVisibility(r.sentinel)]]
      [] op = "consent" -> SavedConsent(r, arg)
      [] op = "mineDelete" -> [r EXCEPT !.dept = None, !.sentinel = None]

-----------------------------------------------------------------------------
(* Loading.                                                                *)

Init ==
    /\ \E fans \in SUBSET Users :
        db = [u \in Users |-> [fav |-> IF u \in fans THEN <<u, DefaultPriority>> ELSE None,
                              note |-> None, dept |-> None, sentinel |-> None]]
    /\ agreed = [u \in Users |-> FALSE]
    /\ session = None /\ effect = TRUE /\ loaded = None /\ failed = None
    /\ loading = FALSE /\ loads = <<>> /\ maintenance = FALSE
    /\ screen = Blank /\ seen = [screen |-> Blank, ready |-> TRUE]
    /\ calls = <<>>

\* The session changes and the tab renders with it; the effect that loads
\* runs later.  Every render brings the refs up to date.
ChangeSession(u) ==
    /\ u # session /\ ~effect /\ Len(loads) < MaxLoads
    /\ session' = u /\ effect' = TRUE
    /\ seen' = [screen |-> screen, ready |-> loaded = u]
    /\ UNCHANGED <<tables, loaded, failed, loading, loads, maintenance, screen, calls>>

\* React renders: the refs take over the state.
Rendered == [screen |-> screen, ready |-> loaded = session]
Render ==
    /\ seen # Rendered /\ seen' = Rendered
    /\ UNCHANGED <<tables, tab, maintenance, screen, calls>>

LoadInFlight(u) == \E g \in DOMAIN loads : loads[g] # None /\ loads[g].user = u

Overtaken(u) == [i \in DOMAIN calls |->
    IF calls[i].user = u /\ calls[i].stage \in Waiting
    THEN [calls[i] EXCEPT !.overtaken = TRUE] ELSE calls[i]]

\* loadData: a new generation; another user's data are cleared at once.
LoadData ==
    /\ calls' = Overtaken(session)
    /\ loads' = Append(loads, IF session = None THEN None
                              ELSE [user |-> session, answer |-> [type |-> "none"]])
    /\ IF session # None /\ loaded = session
       THEN UNCHANGED <<screen, loaded, failed>>
       ELSE screen' = Blank /\ loaded' = None /\ failed' = None
    /\ loading' = (session # None)
    /\ UNCHANGED <<tables, session, maintenance, seen>>

Effect == effect /\ effect' = FALSE /\ LoadData

Reload == session # None /\ ~effect /\ Len(loads) < MaxLoads /\ LoadData /\ UNCHANGED effect

\* The three selects are answered, or one of them fails.
LoadAnswered(g) ==
    /\ loads[g] # None /\ loads[g].answer.type = "none"
    /\ \E a \in {[type |-> "error"],
                 [type |-> "rows", screen |-> Shown(db[loads[g].user])]} :
            loads' = [loads EXCEPT ![g].answer = a]
    /\ UNCHANGED <<tables, session, effect, loaded, failed, loading, maintenance, screen, seen, calls>>

Counts(g) == g = Len(loads) /\ session = loads[g].user

\* The answers arrive.  Those of an older generation or user are dropped.
LoadReturns(g) ==
    /\ loads[g] # None /\ loads[g].answer.type # "none"
    /\ loads' = [loads EXCEPT ![g] = None]
    /\ IF ~Counts(g) THEN UNCHANGED <<screen, loaded, failed, loading>>
       ELSE /\ loading' = FALSE
            /\ IF loads[g].answer.type = "error"
               THEN failed' = loads[g].user /\ UNCHANGED <<screen, loaded>>
               ELSE /\ screen' = loads[g].answer.screen
                    /\ loaded' = loads[g].user /\ failed' = None
    /\ UNCHANGED <<tables, session, effect, maintenance, seen, calls>>

SwitchMaintenance ==
    /\ "maintenance" \in Operations
    /\ maintenance' = ~maintenance
    /\ UNCHANGED <<tables, tab, screen, seen, calls>>

-----------------------------------------------------------------------------
(* Mutations.                                                              *)

\* isDataReadyFor
ReadyFor(u) == session = u /\ loaded = u /\ seen.ready

\* mutationBlocked
Blocked == session = None \/ failed = session \/ maintenance \/ ~ReadyFor(session)

During == IF maintenance THEN "maintenance"
          ELSE IF failed = session THEN "loadError" ELSE "normal"

InFlight(ops) ==
    \E i \in DOMAIN calls : calls[i].user = session /\ calls[i].op \in ops
                            /\ calls[i].stage \in Waiting

\* What the operation shows at once, made from the record as rendered.
Optimistic(op, arg, prev) ==
    LET mine == IF prev = None THEN EmptyMine ELSE prev IN
    CASE op \in {"remove", "noteDelete", "mineDelete"} -> None
      [] op \in {"add", "priority", "note"} -> arg
      [] op = "value" -> [mine EXCEPT !.value = arg]
      [] op = "mineNote" -> [mine EXCEPT !.note = arg]
      [] op = "consent" -> [mine EXCEPT !.submit = arg]

\* The operations the hook keeps apart (59-62): toggles, deletions, priorities.
KeptApart(a, b) == \E ops \in {{"add", "remove"}, {"noteDelete"}, {"priority"}} : {a, b} \subseteq ops

\* What a request meets that is sent now: another one of the same record in
\* flight, or a rollback that is not rendered, so that prev is not what the
\* screen holds.
Met(op, prev) ==
    IF \E i \in DOMAIN calls : calls[i].user = session /\ CellOf(calls[i].op) = CellOf(op)
                               /\ calls[i].stage \in {"sent", "done", "failed"}
                               /\ ~KeptApart(op, calls[i].op)
    THEN "call" ELSE IF prev # screen[CellOf(op)] THEN "rollback" ELSE "nothing"

Show(op, value) == screen' = [screen EXCEPT ![CellOf(op)] = value]

\* A mutation that is not blocked shows its result and sends its request.  It
\* is called from a click on what was rendered, and React renders the result
\* before the click is over; continuations are rendered later.
Send(op, arg) ==
    LET prev == seen.screen[CellOf(op)] IN
    /\ ~Blocked /\ seen = Rendered /\ Len(calls) < MaxCalls
    /\ Show(op, Optimistic(op, arg, prev))
    /\ calls' = Append(calls, [op |-> op, user |-> session, arg |-> arg, prev |-> prev,
                               stage |-> "sent", committed |-> FALSE,
                               overtaken |-> LoadInFlight(session), met |-> Met(op, prev),
                               during |-> During])
    /\ seen' = [screen |-> screen', ready |-> TRUE]
    /\ UNCHANGED <<tables, tab, maintenance>>

MayToggle == ~InFlight({"add", "remove"})

ToggleFavorite ==
    /\ "toggle" \in Operations /\ MayToggle
    /\ IF seen.screen.fav # None THEN Send("remove", None)
       ELSE Send("add", <<session, DefaultPriority>>)

SaveNote ==
    "note" \in Operations /\ \E v \in Values : Send("note", <<session, v>>)

DeleteNote ==
    /\ "note" \in Operations /\ seen.screen.note # None /\ ~InFlight({"noteDelete"})
    /\ Send("noteDelete", None)

SaveMineValue ==
    /\ "mine" \in Operations
    /\ \E v \in {<<session, x>> : x \in Values} \cup {None} : Send("value", v)

SaveMineNote ==
    "mine" \in Operations /\ \E v \in Values : Send("mineNote", <<session, v>>)

SaveMineConsent ==
    "mine" \in Operations /\ \E submit \in BOOLEAN : Send("consent", submit)

DeleteMine ==
    /\ "mine" \in Operations /\ seen.screen.mine # None /\ ~InFlight({"mineDelete"})
    /\ Send("mineDelete", None)

\* setPriority puts its work behind the user's earlier calls ...
SetPriority ==
    /\ "priority" \in Operations /\ ~Blocked /\ seen = Rendered /\ Len(calls) < MaxCalls
    /\ \E v \in Values :
        calls' = Append(calls, [op |-> "priority", user |-> session, arg |-> <<session, v>>,
                                prev |-> None, stage |-> "queued", committed |-> FALSE,
                                overtaken |-> LoadInFlight(session), met |-> "nothing",
                                during |-> "normal"])
    /\ UNCHANGED <<tables, tab, maintenance, screen, seen>>

PriorCalls(i) == {j \in 1..(i - 1) : calls[j].op = "priority" /\ calls[j].user = calls[i].user}

ItsTurn(i) == \A j \in PriorCalls(i) : calls[j].stage \in Settled

\* ... and starts when they have settled.  It looks only whether the data
\* are still the user's.
StartPriority(i) ==
    /\ calls[i].stage = "queued" /\ ItsTurn(i)
    /\ IF ReadyFor(calls[i].user)
       THEN /\ Show("priority", calls[i].arg)
            /\ calls' = [calls EXCEPT ![i].stage = "sent", ![i].during = During,
                                      ![i].prev = seen.screen.fav,
                                      ![i].met = Met("priority", seen.screen.fav)]
       ELSE calls' = [calls EXCEPT ![i].stage = "blocked"] /\ UNCHANGED screen
    /\ UNCHANGED <<tables, tab, maintenance, seen>>

\* The database commits the request, and its answer may be lost.  A request
\* takes longer than the render of what it was sent with.
Commit(i) ==
    LET c == calls[i] IN
    /\ c.stage = "sent" /\ seen = Rendered
    /\ db' = [db EXCEPT ![c.user] = Written(@, c.op, c.arg)]
    /\ agreed' = IF c.op = "consent" THEN [agreed EXCEPT ![c.user] = c.arg] ELSE agreed
    /\ \E s \in {"done", "failed"} :
            calls' = [calls EXCEPT ![i].stage = s, ![i].committed = TRUE]
    /\ UNCHANGED <<tab, maintenance, screen, seen>>

Refuse(i) ==
    /\ calls[i].stage = "sent" /\ seen = Rendered
    /\ calls' = [calls EXCEPT ![i].stage = "failed"]
    /\ UNCHANGED <<tables, tab, maintenance, screen, seen>>

\* Wrong on purpose: an old failure is put on whatever screen is there.
RollbackAnyway(u) == TRUE

MayRollback(u) == ReadyFor(u)

\* The answer arrives: on failure the record of before is put back, if the
\* screen is still the user's.
Answer(i) ==
    LET c == calls[i] IN
    \/ /\ c.stage = "done"
       /\ calls' = [calls EXCEPT ![i].stage = IF ReadyFor(c.user) THEN "success" ELSE "blocked"]
       /\ UNCHANGED <<tables, tab, maintenance, screen, seen>>
    \/ /\ c.stage = "failed"
       /\ calls' = [calls EXCEPT ![i].stage = "error"]
       /\ IF MayRollback(c.user) THEN Show(c.op, c.prev) ELSE UNCHANGED screen
       /\ UNCHANGED <<tables, tab, maintenance, seen>>

\* Another tab of the same user gives or withdraws consent.
OtherTab(u) ==
    /\ "mine" \in Operations
    /\ \E submit \in BOOLEAN :
        /\ submit # agreed[u]
        /\ db' = [db EXCEPT ![u] = SavedConsent(@, submit)]
        /\ agreed' = [agreed EXCEPT ![u] = submit]
    /\ UNCHANGED <<tab, maintenance, screen, seen, calls>>

-----------------------------------------------------------------------------
Mutate == \/ ToggleFavorite \/ SetPriority \/ SaveNote \/ DeleteNote
          \/ SaveMineValue \/ SaveMineNote \/ SaveMineConsent \/ DeleteMine

Loading == \/ Effect
           \/ \E g \in DOMAIN loads : LoadAnswered(g) \/ LoadReturns(g)

Answering == \E i \in DOMAIN calls :
                 StartPriority(i) \/ Commit(i) \/ Refuse(i) \/ Answer(i)

Environment == \/ \E u \in Users \cup {None} : ChangeSession(u)
               \/ \E u \in Users : OtherTab(u)
               \/ Reload \/ SwitchMaintenance

Next == Mutate \/ Loading \/ Answering \/ Render \/ Environment

Spec == Init /\ [][Next]_vars

\* Requests are answered one way or the other, and the event loop of the tab
\* runs every effect, render and continuation that is due.
FairSpec ==
    /\ Spec
    /\ WF_vars(Loading) /\ WF_vars(Render)
    /\ \A i \in 1..MaxCalls : WF_vars(i \in DOMAIN calls /\
            (StartPriority(i) \/ Commit(i) \/ Refuse(i) \/ Answer(i)))

-----------------------------------------------------------------------------
(* Properties.                                                             *)

Visible == IF loaded = session THEN screen ELSE Blank

EntriesOn(s) ==
    ({s.fav, s.note} \cup IF s.mine = None THEN {} ELSE {s.mine.value, s.mine.note}) \ {None}

\* Nothing a user wrote is ever shown to another one, or to nobody, whatever
\* was in flight when the session changed: loads, rollbacks and queued work
\* look whose data the tab holds (lines 96-100, 135-145, 164).
OwnDataOnly == \A e \in EntriesOn(Visible) : e[1] = session

\* The priority in the table is the one called last of those that were
\* written, however the requests and answers are delayed (lines 72, 304-306).
LastPriorityWins ==
    \A u \in Users :
        LET written == {i \in DOMAIN calls : calls[i].user = u /\ calls[i].committed} IN
        written # {} => \E i \in written :
            (\A j \in written : j <= i) /\ db[u].fav = calls[i].arg

AllSettled(u) ==
    /\ ~effect /\ ~LoadInFlight(u) /\ seen = Rendered
    /\ \A i \in DOMAIN calls : calls[i].user = u => calls[i].stage \in Settled

\* What ScreenAgreesWithRows excepts: a load at the same time; two requests of
\* one record that the hook does not keep apart; an answer that was lost; and a
\* priority that fails when its turn came before the rollback of the one before
\* was rendered: it puts that one's value back (308).
Undisturbed(c) ==
    /\ ~c.overtaken /\ c.met # "call"
    /\ c.stage = "error" => ~c.committed /\ c.met # "rollback"

\* When everything has settled the screen shows the favourite and the note that
\* the tables hold: a failure was taken back (line 247), whichever calls failed,
\* waited for their turn or were dropped, but for what Undisturbed excepts.
\* Deviation values, which other tabs change, are left out.
ScreenAgreesWithRows ==
    \A u \in Users :
        session = u /\ loaded = u /\ AllSettled(u)
        /\ (\A i \in DOMAIN calls : calls[i].user = u => Undisturbed(calls[i]))
            => screen.fav = db[u].fav /\ screen.note = db[u].note

\* A deviation value is open to the school's aggregate only while the last
\* consent committed, in this tab or another, says so (lines 441-443, 516-517).
SubmittedOnlyWithConsent ==
    \A u \in DOMAIN db :
        (\E row \in {db[u].dept, db[u].sentinel} \ {None} : row.submit) => agreed[u]

\* Nothing leaves its user: not to another one at this browser, and not to the
\* aggregate without consent.
NothingLeavesItsUser == OwnDataOnly /\ SubmittedOnlyWithConsent

=============================================================================
