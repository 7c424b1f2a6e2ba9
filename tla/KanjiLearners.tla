------------------------- MODULE KanjiLearners -------------------------
(***************************************************************************)
(* The kanji application of one browser tab: how it opens its store        *)
(* (IndexedDB, or memory when that cannot be opened), the learners it       *)
(* keeps, the page it shows, and the calls that add, change, remove and     *)
(* switch learners.  A call waits for one transaction at a time; the        *)
(* transactions of one object store run in the order they were made.        *)
(* Sources: src/web/src/kanji (lib/store.ts, state, pages, routing.ts).     *)
(*                                                                         *)
(* Of a learner the model keeps the nickname and the language; the other    *)
(* settings are carried along with them and told apart by nothing here.     *)
(* Learners are numbered in the order they are created, so the order of     *)
(* createdAt is the order of the numbers.  The browser's forward button and  *)
(* paths written in another way (/Profiles/) are left out.                   *)
(***************************************************************************)
EXTENDS Naturals, FiniteSets, Sequences, SequencesExt, FiniteSetsExt, Functions

CONSTANTS Langs,      \* the languages that have a pack
          Device,     \* the one the device prefers
          Rows0,      \* what the device may hold when the application starts
          Entries,    \* the pages a tab is opened at
          Fills,      \* what is typed: pairs of a field and its value
          MaxId,      \* bound: learners created
          MaxCalls,   \* bound: calls a user starts
          MaxFaults,  \* bound: transactions that fail
          MaxHist,    \* bound: entries of the tab's history
          MaxRuns     \* bound: times the application is started

KanjiAssumption ==
    /\ Device \in Langs
    /\ \A n \in {MaxId, MaxCalls, MaxFaults, MaxHist, MaxRuns} : n \in Nat
    /\ \A rows \in Rows0 : DOMAIN rows \subseteq 1 .. MaxId
    /\ Fills \subseteq {"nick", "lang", "exam"} \X STRING

Dropped == "xx"  \* a language of an older release that has no pack now
Ids == 1 .. MaxId

VARIABLES disk,     \* IndexedDB: its version, the rows, the meta values
          memory,   \* the fallback store: rows and meta values
          app,      \* the running application
          ops,      \* the calls waiting for a transaction, oldest first
          stored,   \* history: every learner that was ever stored
          seen      \* history: calls, faults, runs, ids; forgot, crossed, raced

vars == <<disk, memory, app, ops, stored, seen>>

--------------------------------------------------------------------------
(* Values.                                                                 *)

\* A nickname is good, good but for the spaces around it, or not valid.
Trim(nick) == IF nick = " n1 " THEN "n1" ELSE nick
ValidNick(nick) == Trim(nick) \in {"n1", "n2"}

Unset == [nick |-> "", lang |-> Dropped]
Normal(raw) == [raw EXCEPT !.nick = Trim(@)]
Readable(rows) == {i \in DOMAIN rows : ValidNick(rows[i].nick)}
\* listProfiles: what of the rows is shown.
Listed(rows) == [i \in Readable(rows) |-> Normal(rows[i])]

NoMeta == [last |-> 0, ui |-> "", asked |-> FALSE]

PickInitial(list, last) ==
    IF last \in DOMAIN list THEN last
    ELSE IF Cardinality(DOMAIN list) = 1 THEN Max(DOMAIN list) ELSE 0

ResolveLang(candidate, fallback) ==
    IF candidate \in Langs THEN candidate ELSE fallback

--------------------------------------------------------------------------
(* The pages, and who may see them.                                        *)

At(page) == [page |-> page, id |-> 0]
EditOf(id) == [page |-> "edit", id |-> id]

\* ROUTE_TABLE: header, whether the tabs are shown, whether the page opens
\* with no learner at all, and with no current learner.
Route(page) ==
    CASE page = "home"     -> [head |-> "brand", tabs |-> TRUE,  bare |-> FALSE, idle |-> FALSE]
      [] page = "soon"     -> [head |-> "tab",   tabs |-> TRUE,  bare |-> FALSE, idle |-> FALSE]
      [] page = "welcome"  -> [head |-> "brand", tabs |-> FALSE, bare |-> TRUE,  idle |-> FALSE]
      [] page = "profiles" -> [head |-> "brand", tabs |-> FALSE, bare |-> FALSE, idle |-> TRUE]
      [] page = "new"      -> [head |-> "back",  tabs |-> FALSE, bare |-> TRUE,  idle |-> TRUE]
      [] page = "about"    -> [head |-> "back",  tabs |-> FALSE, bare |-> TRUE,  idle |-> TRUE]
      [] OTHER             -> [head |-> "back",  tabs |-> FALSE, bare |-> FALSE, idle |-> FALSE]

RedirectFor(path, someone, current) ==
    IF ~someone THEN IF Route(path.page).bare THEN path ELSE At("welcome")
    ELSE IF ~current THEN IF Route(path.page).idle THEN path ELSE At("profiles")
    ELSE IF path.page = "welcome" THEN At("home") ELSE path

\* One render: the redirect of the routes, or the edit page's own when the
\* learner it names is not there.
Step(path, list, cur) ==
    LET to == RedirectFor(path, DOMAIN list # {}, cur # 0)
    IN  IF to = path /\ path.page = "edit" /\ path.id \notin DOMAIN list
        THEN At("profiles") ELSE to

Top(a) == Last(a.hist)
Page(a) == Top(a).page
OnForm(a) == Page(a) \in {"new", "edit"}
Push(h, path) == Append(h, path)
Replace(h, path) == Append(Front(h), path)
\* shouldReplaceBack and goBack: home when there is nothing to go back to.
Back(h) == IF Len(h) = 1 THEN <<At("home")>> ELSE Front(h)

--------------------------------------------------------------------------
(* The edit form.                                                          *)

NoForm == [nick |-> "none", lang |-> "none", exam |-> "none"]

Current(a) == IF a.cur \in DOMAIN a.list THEN a.list[a.cur] ELSE Unset
ScreenLang(a) == ResolveLang(Current(a).lang, a.ui)

FormFor(a) ==
    IF Page(a) = "edit"
    THEN [nick |-> a.list[Top(a).id].nick, lang |-> a.list[Top(a).id].lang, exam |-> "none"]
    ELSE [nick |-> "", lang |-> ScreenLang(a), exam |-> "none"]

FormErrors(form) == {f \in {"nick", "exam"} :
                        \/ f = "nick" /\ ~ValidNick(form.nick)
                        \/ f = "exam" /\ form.exam = "bad"}
FormToProfile(form) == Normal([nick |-> form.nick, lang |-> form.lang])

Cleared(a) == [a EXCEPT !.form = NoForm, !.guard = FALSE, !.errors = {},
                        !.saveError = FALSE, !.asking = FALSE, !.born = 0]

\* The routes redirect: the layout is unmounted, and with it an open sheet.
Routed(a) == RedirectFor(Top(a), DOMAIN a.list # {}, a.cur # 0) # Top(a)

\* What React shows once `a` is rendered: redirects are followed, and a form is
\* mounted or left.  The edit page's own redirect leaves the layout as it is.
Shown(a) ==
    LET to  == Step(Top(a), a.list, a.cur)
        b   == IF to = Top(a) THEN a
               ELSE [a EXCEPT !.hist = Replace(@, to),
                              !.sheet = IF Routed(a) THEN "none" ELSE @]
    IN  IF ~OnForm(b) THEN Cleared(b)
        ELSE IF app.phase = "up" /\ OnForm(app) /\ to = Top(a) THEN b
        ELSE [Cleared(b) EXCEPT !.form = FormFor(b)]

\* A call whose form is gone can no longer set the form's state.
Detached(q) == [i \in DOMAIN q |-> [q[i] EXCEPT !.here = FALSE]]

Become(a, q) ==
    /\ app' = Shown(a)
    /\ ops' = IF OnForm(app) /\ ~OnForm(app') THEN Detached(q) ELSE q

--------------------------------------------------------------------------
(* The reducer of the provider.                                            *)

Upsert(list, id, p) == [i \in DOMAIN list \cup {id} |-> IF i = id THEN p ELSE list[i]]

Dispatch(a, kind, id, p) ==
    CASE kind = "add"    -> [a EXCEPT !.list = Upsert(@, id, p), !.cur = id]
      [] kind = "update" -> [a EXCEPT !.list = Upsert(@, id, p)]
      [] kind = "switch" -> [a EXCEPT !.cur = id]
      [] kind = "setUi"  -> [a EXCEPT !.ui = p.lang]
      [] kind = "remove" ->
            LET rest == Restrict(a.list, DOMAIN a.list \ {id})
            IN  [a EXCEPT !.list = rest,
                          !.cur = IF @ # id THEN @
                                  ELSE IF DOMAIN rest = {} THEN 0 ELSE Min(DOMAIN rest)]

--------------------------------------------------------------------------
(* The store and its transactions.                                         *)

Held == IF app.store = "disk" THEN disk.rows ELSE memory.rows
Meta == IF app.store = "disk" THEN disk.meta ELSE memory.meta

Write(rows, meta) ==
    /\ disk' = IF app.store = "disk"
               THEN [disk EXCEPT !.rows = rows, !.meta = meta] ELSE disk
    /\ memory' = IF app.store = "disk" THEN memory ELSE [rows |-> rows, meta |-> meta]

Scope(pc) == IF pc \in {"put", "del", "check"} THEN "profiles"
             ELSE IF pc = "ask" THEN "none" ELSE "meta"

\* A transaction made on a closed connection fails at once.
Call(kind, pc, id, p) ==
    [kind |-> kind, pc |-> pc, id |-> id, prof |-> p, here |-> OnForm(app), doomed |-> app.dead]
Then(i, pc, id) ==
    Append(RemoveAt(ops, i), [ops[i] EXCEPT !.pc = pc, !.id = id, !.doomed = app.dead])
Ended(i) == RemoveAt(ops, i)

\* The i-th waiting transaction runs (ok) or fails.
Answers(i, kinds, pc, ok) ==
    /\ ops[i].kind \in kinds /\ ops[i].pc = pc
    /\ \A j \in 1 .. i - 1 : Scope(ops[j].pc) # Scope(pc)
    /\ IF ok THEN ~ops[i].doomed
       ELSE ops[i].doomed \/ (app.store = "disk" /\ seen.faults < MaxFaults)

Fault(i, ok) == IF ok \/ ops[i].doomed THEN 0 ELSE 1
Saw(i, ok) == seen' = [seen EXCEPT !.faults = @ + Fault(i, ok)]
\* A lost write of lastProfileId is forgotten about; the next one makes up for it.
SawLast(i, ok) == seen' = [seen EXCEPT !.faults = @ + Fault(i, ok), !.forgot = ~ok]

Failed(i) == IF ops[i].here
             THEN [app EXCEPT !.guard = FALSE, !.errors = {}, !.saveError = TRUE] ELSE app

AddPut(i, ok) ==
    /\ Answers(i, {"add"}, "put", ok) /\ Saw(i, ok)
    /\ IF ok
       THEN /\ Write(Upsert(Held, ops[i].id, ops[i].prof), Meta)
            /\ stored' = stored \cup {<<ops[i].id, ops[i].prof>>}
            /\ Become(Dispatch([app EXCEPT !.born = IF ops[i].here THEN @ + 1 ELSE @],
                               "add", ops[i].id, ops[i].prof), Then(i, "last", ops[i].id))
       ELSE Become(Failed(i), Ended(i)) /\ UNCHANGED <<disk, memory, stored>>

\* The learner was added; whether lastProfileId was written does not matter.
AddLast(i, ok) ==
    /\ Answers(i, {"add"}, "last", ok) /\ SawLast(i, ok)
    /\ Write(Held, IF ok THEN [Meta EXCEPT !.last = ops[i].id] ELSE Meta)
    /\ Become([app EXCEPT !.hist = Replace(@, At("home"))],
              Append(Ended(i), Call("persist", "asked", 0, Unset)))
    /\ UNCHANGED stored

\* requestPersistence: asks the browser once and writes down that it did, then
\* the answer (which nothing else reads).
Persist(i, ok) ==
    /\ ops[i].kind = "persist"
    /\ \E pc \in {"asked", "setAsked", "setKept"} :
         /\ Answers(i, {"persist"}, pc, ok)
         /\ Write(Held, IF pc = "setAsked" /\ ok THEN [Meta EXCEPT !.asked = TRUE] ELSE Meta)
         /\ Become(app, IF ~ok \/ pc = "setKept" \/ (pc = "asked" /\ Meta.asked) THEN Ended(i)
                        ELSE Then(i, IF pc = "asked" THEN "ask" ELSE "setKept", 0))
    /\ Saw(i, ok) /\ UNCHANGED stored
Asked(i) ==
    /\ ops[i].kind = "persist" /\ ops[i].pc = "ask"
    /\ Become(app, Then(i, "setAsked", 0)) /\ UNCHANGED <<disk, memory, stored, seen>>

\* Going back may lead to another form page: the same form, still guarded.
Saved(i) == IF ops[i].here THEN [app EXCEPT !.errors = {}, !.saveError = FALSE] ELSE app

EditPut(i, ok) ==
    /\ Answers(i, {"edit"}, "put", ok) /\ Saw(i, ok)
    /\ IF ok
       THEN /\ Write(Upsert(Held, ops[i].id, ops[i].prof), Meta)
            /\ stored' = stored \cup {<<ops[i].id, ops[i].prof>>}
            /\ Become(Dispatch([Saved(i) EXCEPT !.hist = Back(@)], "update", ops[i].id, ops[i].prof),
                      Ended(i))
       ELSE Become(Failed(i), Ended(i)) /\ UNCHANGED <<disk, memory, stored>>

LangPut(i, ok) ==
    /\ Answers(i, {"lang"}, "put", ok) /\ Saw(i, ok)
    /\ IF ok
       THEN /\ Write(Upsert(Held, ops[i].id, ops[i].prof), Meta)
            /\ stored' = stored \cup {<<ops[i].id, ops[i].prof>>}
            /\ Become(Dispatch(app, "update", ops[i].id, ops[i].prof), Ended(i))
       ELSE Become(app, Ended(i)) /\ UNCHANGED <<disk, memory, stored>>

LangMeta(i, ok) ==
    /\ Answers(i, {"lang"}, "ui", ok) /\ Saw(i, ok)
    /\ Write(Held, IF ok THEN [Meta EXCEPT !.ui = ops[i].prof.lang] ELSE Meta)
    /\ Become(IF ok THEN Dispatch(app, "setUi", 0, ops[i].prof) ELSE app, Ended(i))
    /\ UNCHANGED stored

\* From the list of learners the page goes home; from the sheet it stays.
SwitchLast(i, ok) ==
    /\ Answers(i, {"switch", "pick"}, "last", ok)
    /\ seen' = [seen EXCEPT !.faults = @ + Fault(i, ok),
                            !.forgot = IF ok THEN FALSE ELSE @]
    /\ Write(Held, IF ok THEN [Meta EXCEPT !.last = ops[i].id] ELSE Meta)
    /\ Become(IF ~ok THEN app
              ELSE Dispatch(IF ops[i].kind = "pick"
                            THEN [app EXCEPT !.hist = Push(@, At("home"))] ELSE app,
                            "switch", ops[i].id, Unset), Ended(i))
    /\ (ok /\ ops[i].kind = "pick") => Len(app.hist) < MaxHist
    /\ UNCHANGED stored

\* removeProfileAction, once the store no longer holds the learner: whether it
\* is the current one is read now, not when the button was pressed.
Removed(i) ==
    LET gone == Dispatch(app, "remove", ops[i].id, Unset)
    IN  IF app.cur = ops[i].id /\ gone.cur # 0
        THEN Become(gone, Then(i, "next", gone.cur))
        ELSE Become([gone EXCEPT !.hist = Replace(Shown(gone).hist, At("profiles"))], Ended(i))

RemoveDel(i, ok) ==
    /\ Answers(i, {"remove"}, "del", ok) /\ Saw(i, ok)
    /\ Write(IF ok THEN Restrict(Held, DOMAIN Held \ {ops[i].id}) ELSE Held, Meta)
    /\ Become(app, Then(i, IF ok THEN "readLast" ELSE "check", ops[i].id))
    /\ UNCHANGED stored

RemoveReadLast(i, ok) ==
    /\ Answers(i, {"remove"}, "readLast", ok) /\ Saw(i, ok)
    /\ IF ok /\ Meta.last # ops[i].id THEN Removed(i)
       ELSE Become(app, Then(i, IF ok THEN "delLast" ELSE "check", ops[i].id))
    /\ UNCHANGED <<disk, memory, stored>>

RemoveDelLast(i, ok) ==
    /\ Answers(i, {"remove"}, "delLast", ok) /\ Saw(i, ok)
    /\ Write(Held, IF ok THEN [Meta EXCEPT !.last = 0] ELSE Meta)
    /\ IF ok THEN Removed(i) ELSE Become(app, Then(i, "check", ops[i].id))
    /\ UNCHANGED stored

\* Something of the deletion failed: is the learner still there?
RemoveCheck(i, ok) ==
    /\ Answers(i, {"remove"}, "check", ok) /\ Saw(i, ok)
    /\ IF ok /\ ops[i].id \notin Readable(Held) THEN Removed(i)
       ELSE Become(IF ops[i].here THEN [app EXCEPT !.guard = FALSE, !.saveError = TRUE] ELSE app,
                   Ended(i))
    /\ UNCHANGED <<disk, memory, stored>>

RemoveNext(i, ok) ==
    /\ Answers(i, {"remove"}, "next", ok) /\ SawLast(i, ok)
    /\ Write(Held, IF ok THEN [Meta EXCEPT !.last = ops[i].id] ELSE Meta)
    /\ Become([app EXCEPT !.hist = Replace(@, At("profiles"))], Ended(i))
    /\ UNCHANGED stored

--------------------------------------------------------------------------
(* Starting: openKanjiStore, the first reads, the first render.            *)

Off == [phase |-> "off", conn |-> "none", timer |-> FALSE, store |-> "none",
        dead |-> FALSE, cut |-> FALSE, banner |-> FALSE, got |-> {}, list |-> <<>>, last |-> 0,
        cur |-> 0, ui |-> Device, hist |-> <<At("home")>>, sheet |-> "none",
        form |-> NoForm, guard |-> FALSE, errors |-> {}, saveError |-> FALSE,
        asking |-> FALSE, born |-> 0]

Start(path) ==
    /\ seen.runs < MaxRuns
    /\ app' = [Off EXCEPT !.phase = "opening", !.conn = "asking", !.timer = TRUE,
                          !.hist = IF app.phase = "off" THEN <<path>> ELSE app.hist]
    /\ ops' = <<>> /\ memory' = [rows |-> <<>>, meta |-> NoMeta]
    /\ seen' = [seen EXCEPT !.runs = @ + 1]
    /\ UNCHANGED <<disk, stored>>

\* The tab is opened at a path; later it is reloaded where it is, or after the
\* browser was killed.  Calls on their way are gone.
Open == app.phase = "off" /\ \E page \in Entries : Start([page |-> page, id |-> IF page = "edit" THEN 1 ELSE 0])
Reload == app.phase # "off" /\ Start(Top(app))

UnchangedButApp == UNCHANGED <<disk, memory, ops, stored, seen>>
ToMemory(a) == IF a.store = "none" THEN [a EXCEPT !.store = "memory", !.phase = "reading"] ELSE a

OpenTimeout ==
    /\ app.timer
    /\ app' = [ToMemory(app) EXCEPT !.timer = FALSE]
    /\ UnchangedButApp

\* The upgrade has begun: it is not given up by the timeout.
OpenUpgrade ==
    /\ app.conn = "asking" /\ disk.version = 0
    /\ app' = [app EXCEPT !.conn = "upgrading", !.timer = FALSE]
    /\ UnchangedButApp

Connected(a) ==
    IF a.store = "none"
    THEN [a EXCEPT !.conn = "open", !.timer = FALSE, !.store = "disk", !.phase = "reading"]
    ELSE [a EXCEPT !.conn = "none", !.timer = FALSE]

OpenSuccess ==
    /\ \/ app.conn = "asking" /\ disk.version = 1
       \/ app.conn = "upgrading"
    /\ app' = Connected(app)
    /\ disk' = [disk EXCEPT !.version = 1]
    /\ UNCHANGED <<memory, ops, stored, seen>>

\* No IndexedDB, open throws, onerror.
OpenError ==
    /\ app.conn \in {"asking", "upgrading"} /\ seen.faults < MaxFaults
    /\ app' = [ToMemory(app) EXCEPT !.timer = FALSE, !.conn = "none"]
    /\ seen' = [seen EXCEPT !.faults = @ + 1]
    /\ UNCHANGED <<disk, memory, ops, stored>>
\* onblocked, before the upgrade: it may open yet.
OpenBlocked ==
    /\ app.conn = "asking" /\ disk.version = 0 /\ seen.faults < MaxFaults
    /\ app' = [ToMemory(app) EXCEPT !.timer = FALSE]
    /\ seen' = [seen EXCEPT !.faults = @ + 1]
    /\ UNCHANGED <<disk, memory, ops, stored>>

\* The reads are asked for as soon as the store is there: a connection that is
\* closed for a newer version still answers them, one that is cut does not.
ReadLearners ==
    /\ app.phase = "reading" /\ "list" \notin app.got /\ ~app.cut
    /\ app' = [app EXCEPT !.got = @ \cup {"list"}, !.list = Listed(Held)]
    /\ UnchangedButApp
ReadMeta ==
    /\ app.phase = "reading" /\ "meta" \notin app.got /\ ~app.cut
    /\ app' = [app EXCEPT !.got = @ \cup {"meta"}, !.last = Meta.last,
                          !.ui = ResolveLang(Meta.ui, Device)]
    /\ UnchangedButApp
\* A read fails: the page says that it could not be loaded, and that is all.
ReadFails ==
    /\ app.phase = "reading" /\ app.store = "disk"
    /\ app.cut \/ seen.faults < MaxFaults
    /\ app' = [app EXCEPT !.phase = "failed"]
    /\ seen' = [seen EXCEPT !.faults = IF app.cut THEN @ ELSE @ + 1]
    /\ UNCHANGED <<disk, memory, ops, stored>>

FirstRender ==
    /\ app.phase = "reading" /\ app.got = {"list", "meta"}
    /\ Become([app EXCEPT !.phase = "up", !.cur = PickInitial(app.list, app.last)], ops)
    /\ seen' = [seen EXCEPT !.forgot = FALSE, !.crossed = FALSE,
                            !.raced = FALSE]
    /\ stored' = stored \cup {<<id, app.list[id]>> : id \in DOMAIN app.list}
    /\ UNCHANGED <<disk, memory>>

\* Another tab opens a newer version (the transactions made before still run),
\* or the browser drops the connection (they do not).
ConnectionCloses ==
    /\ app.conn = "open" /\ ~app.dead /\ seen.faults < MaxFaults
    /\ \E dropped \in BOOLEAN :
         /\ app' = [app EXCEPT !.dead = TRUE, !.conn = "none", !.banner = app.phase = "up",
                               !.cut = dropped /\ app.phase = "reading"]
         /\ ops' = [i \in DOMAIN ops |-> [ops[i] EXCEPT !.doomed = @ \/ dropped]]
    /\ seen' = [seen EXCEPT !.faults = @ + 1]
    /\ UNCHANGED <<disk, memory, stored>>

--------------------------------------------------------------------------
(* What a user does.                                                       *)

Up == app.phase = "up"
Free == Up /\ app.sheet = "none"
See(a) == Become(a, ops) /\ UNCHANGED <<disk, memory, stored, seen>>
Go(path) == Len(app.hist) < MaxHist /\ See([app EXCEPT !.hist = Push(@, path), !.sheet = "none"])

\* A link to the path one is at replaces the entry, with itself.
Follow(path) == IF path = Top(app) THEN See([app EXCEPT !.sheet = "none"]) ELSE Go(path)

PressTab == Free /\ Route(Page(app)).tabs /\ \E page \in {"home", "soon"} : Go(At(page))
PressBack == Free /\ Route(Page(app)).head = "back" /\ See([app EXCEPT !.hist = Back(@)])
BrowserBack == Up /\ Len(app.hist) > 1 /\ See([app EXCEPT !.hist = Front(@)])
PressStart == Free /\ Page(app) \in {"welcome", "profiles"} /\ Follow(At("new"))
PressHome == Free /\ Page(app) = "lost" /\ Follow(At("home"))

OpenSheet(s) ==
    /\ Up /\ See([app EXCEPT !.sheet = s])
    /\ \/ s = "more" /\ Free /\ Route(Page(app)).tabs
       \/ s = "lang" /\ (app.sheet = "more" \/ (Free /\ Route(Page(app)).head = "brand"))
       \/ s = "learners" /\ (app.sheet = "more" \/
              (Free /\ Route(Page(app)).head # "back" /\ app.cur \in DOMAIN app.list))
CloseSheet == Up /\ app.sheet # "none" /\ See([app EXCEPT !.sheet = "none"])
PressMore ==
    /\ Up /\ app.sheet = "more"
    /\ \/ Go(At("about"))
       \/ app.cur \in DOMAIN app.list /\ Go(EditOf(app.cur))
SheetAdds == Up /\ app.sheet = "learners" /\ Follow(At("new"))

Fill ==
    /\ Free /\ OnForm(app)
    /\ \E fill \in Fills : See([app EXCEPT !.form[fill[1]] = fill[2]])

\* Two calls that change who is current wait at once.
Races(kind) == LET Movers == {"add", "remove", "switch", "pick"}
               IN  kind \in Movers /\ \E i \in DOMAIN ops : ops[i].kind \in Movers

\* A call is started: its first transaction is made at once.
Started(call, a) ==
    /\ seen.calls < MaxCalls
    /\ Become(a, Append(ops, call))
    /\ seen' = [seen EXCEPT !.calls = @ + 1, !.raced = @ \/ Races(call.kind),
                 !.crossed = @ \/ \E i \in DOMAIN ops : ops[i].kind = "remove" /\ ops[i].id = call.id]
    /\ UNCHANGED <<disk, memory, stored>>

\* The guard stands until the save fails: after a save that went well the page
\* is about to be left.
SubmitRefused ==
    /\ Free /\ OnForm(app) /\ ~app.guard /\ FormErrors(app.form) # {}
    /\ See([app EXCEPT !.errors = FormErrors(app.form), !.saveError = FALSE])
NextId == 1 + seen.ids
Guarded(a) == [a EXCEPT !.guard = TRUE]
SubmitNew ==
    /\ Free /\ Page(app) = "new" /\ ~app.guard /\ FormErrors(app.form) = {}
    /\ NextId <= MaxId /\ seen.calls < MaxCalls
    /\ Become(Guarded(app), Append(ops, Call("add", "put", NextId, FormToProfile(app.form))))
    /\ seen' = [seen EXCEPT !.calls = @ + 1, !.ids = @ + 1, !.raced = @ \/ Races("add")]
    /\ UNCHANGED <<disk, memory, stored>>
SubmitEdit ==
    /\ Free /\ Page(app) = "edit" /\ ~app.guard /\ FormErrors(app.form) = {}
    /\ Started(Call("edit", "put", Top(app).id, FormToProfile(app.form)), Guarded(app))

AskDelete == Free /\ Page(app) = "edit" /\ \E b \in BOOLEAN : b # app.asking /\ See([app EXCEPT !.asking = b])
Delete ==
    /\ Free /\ Page(app) = "edit" /\ app.asking /\ ~app.guard
    /\ Started(Call("remove", "del", Top(app).id, Unset), Guarded(app))

PickLearner ==
    \E id \in DOMAIN app.list :
      \/ /\ Free /\ Page(app) = "profiles"
         /\ Started(Call("pick", "last", id, Unset), app)
      \/ /\ Up /\ app.sheet = "learners"
         /\ Started(Call("switch", "last", id, Unset), [app EXCEPT !.sheet = "none"])

\* The learner who is current now takes the language; with none, the device does.
PickLang ==
    /\ Up /\ app.sheet = "lang"
    /\ \E lang \in Langs :
         Started(IF app.cur \in DOMAIN app.list
                 THEN Call("lang", "put", app.cur, [Current(app) EXCEPT !.lang = lang])
                 ELSE Call("lang", "ui", 0, [Unset EXCEPT !.lang = lang]),
                 [app EXCEPT !.sheet = "none"])

--------------------------------------------------------------------------
Init ==
    /\ \E rows \in Rows0 :
         /\ disk = [version |-> IF DOMAIN rows = {} THEN 0 ELSE 1, rows |-> rows, meta |-> NoMeta]
         /\ seen = [calls |-> 0, faults |-> 0, runs |-> 0, ids |-> Cardinality(DOMAIN rows),
                    forgot |-> FALSE, crossed |-> FALSE, raced |-> FALSE]
    /\ memory = [rows |-> <<>>, meta |-> NoMeta]
    /\ app = Off /\ ops = <<>> /\ stored = {}

Transaction ==
    \E i \in DOMAIN ops :
      \/ Asked(i)
      \/ \E ok \in BOOLEAN :
           \/ AddPut(i, ok) \/ AddLast(i, ok) \/ Persist(i, ok) \/ EditPut(i, ok)
           \/ LangPut(i, ok) \/ LangMeta(i, ok) \/ SwitchLast(i, ok)
           \/ RemoveDel(i, ok) \/ RemoveReadLast(i, ok) \/ RemoveDelLast(i, ok)
           \/ RemoveCheck(i, ok) \/ RemoveNext(i, ok)

Opening == OpenTimeout \/ OpenUpgrade \/ OpenSuccess \/ OpenError \/ OpenBlocked

User ==
    \/ PressTab \/ PressBack \/ BrowserBack \/ PressStart \/ PressHome
    \/ (\E s \in {"more", "lang", "learners"} : OpenSheet(s)) \/ CloseSheet \/ PressMore
    \/ SheetAdds \/ Fill \/ SubmitRefused \/ SubmitNew \/ SubmitEdit \/ AskDelete
    \/ Delete \/ PickLearner \/ PickLang

Next ==
    \/ Open \/ Reload \/ Opening \/ ReadLearners \/ ReadMeta \/ ReadFails \/ FirstRender
    \/ ConnectionCloses \/ Transaction \/ User

Spec == Init /\ [][Next]_vars

\* The timeout fires, an upgrade that began ends, reads and transactions are
\* answered, and React renders what was read.
Fairness ==
    /\ WF_vars(OpenTimeout \/ OpenSuccess)
    /\ WF_vars(ReadLearners \/ ReadMeta \/ ReadFails) /\ WF_vars(FirstRender)
    /\ WF_vars(Transaction)

FairSpec == Spec /\ Fairness

--------------------------------------------------------------------------
(* Properties.                                                             *)

Profile == [nick : {"n1", "n2"}, lang : Langs \cup {Dropped}]
KanjiTypeOK ==
    /\ app.phase \in {"off", "opening", "reading", "up", "failed"}
    /\ app.store \in {"none", "disk", "memory"}
    /\ \A id \in DOMAIN app.list : id \in Ids /\ app.list[id] \in Profile
    /\ app.cur \in 0 .. MaxId
    /\ Len(app.hist) \in 1 .. MaxHist
    /\ \A i \in DOMAIN ops : ops[i].id \in 0 .. MaxId

\* Every learner on the screen is, field by field, one that was stored: the
\* screen follows the store and never runs ahead of it (profileState.ts 94-127).
ShownWasStored == Up => \A id \in DOMAIN app.list : <<id, app.list[id]>> \in stored

\* When no call is waiting and the connection lives, the screen shows exactly
\* what the store holds (a removal cut off by the connection's end may have been
\* carried out, and nothing can be asked any more).  It is so while at most one
\* transaction of a removal fails: when the learner is deleted, lastProfileId
\* cannot be read and the check fails as well, the error goes to the form and the
\* learner stays on the screen (profileState.ts 154-159).
ScreenIsStore == (Up /\ ops = <<>> /\ ~seen.crossed /\ ~app.dead) => app.list = Listed(Held)

\* When no call is waiting and the last write of lastProfileId went well, the
\* next start shows the learner who is current now (unless two calls that both
\* change who is current were waiting at once).
NextStartAgrees ==
    (Up /\ ops = <<>> /\ app.cur # 0 /\ ~app.dead
     /\ ~seen.crossed /\ ~seen.raced /\ ~seen.forgot)
        => PickInitial(Listed(Held), Meta.last) = app.cur

\* However often the button is pressed, one visit of the form adds one learner.
FormAddsOnce == app.born <= 1

\* A tab that works in memory holds no connection (it would block the others).
NoConnectionLeft == app.store = "memory" => app.conn # "open"

\* The page on screen is one this state may see: one redirect always leads to a
\* page that asks for no other.
PageIsAllowed == Up => Top(app) = Step(Top(app), app.list, app.cur)

\* What the tab shows is what was stored, on a page it may be on, added once a
\* visit, and with no connection held for nothing.
ShownIsStored == ShownWasStored /\ PageIsAllowed /\ FormAddsOnce /\ NoConnectionLeft

==========================================================================
