-------------------- MODULE MCProgress --------------------
(* What must happen in the end: loads, calls, saves, an observation and a
   release, under the fairness of their components.  Each part is one component
   alone, with few calls and failures; a behaviour stays in its part. *)
EXTENDS SchoolRelease, Integers, Sequences, FiniteSets

CONSTANTS Null, Broken, Invalid, Nobody, Void, ann, ben, v3, p1, s1, l1, l2

VARIABLES part, db, agreed, session, effect, loaded, loading, loads, maintenance, screen, seen,
          calls, rows, device, auth, home, homeLoadState, active, migrated, load, writes, map,
          records, behind, disturbed, changes, server, owner, notes, school, drafts, dirty,
          typed, saving, jobs, lost, edits, saves, lock, client, switches, closings, failures,
          ops, account, storage, page, memory, stored, asked, accepts, invite, members, ended,
          holder, bounds, flag, visible, watcher, timer, reads, dbOn, lastReadFailed, control,
          mounts, posts, inOrder, toggled, current, edge, store, view, version, detail, opened,
          package, expected, next, lanes, passed, recorded, result, served, disk, app, tags,
          ui, want, requested, flight, done

Off == "off"

File(path, suffix) == [path |-> path, suffix |-> suffix]
FewFiles == {File(<<"index">>, ".html"), File(<<"a">>, ".html"), File(<<"_headers">>, "")}

\* A family of two with an open invitation.
Row(id, u, o) == [id |-> id, group |-> "g", user |-> u, owner |-> o,
                         fav |-> FALSE, note |-> FALSE, expired |-> FALSE]
Family == [owner |-> [g \in {"g"} |-> "mother"], next |-> 4,
           rows |-> {Row(1, "mother", TRUE), Row(2, "child", FALSE), Row(3, Nobody, FALSE)}]

Tag(primary) == [primary |-> primary, rest |-> ""]
TwoPacks == [l \in {Tag("en"), Tag("ja"), Tag("pt")} |-> {"a"}]

\* A school gets its place with the second release.
RowsOf(r) == CASE r = 1 -> {[id |-> "a", located |-> TRUE], [id |-> "b", located |-> FALSE]}
               [] OTHER -> {[id |-> "a", located |-> TRUE], [id |-> "b", located |-> TRUE]}

Tab == INSTANCE UserData WITH Users <- {ann}, Values <- {v3}, DefaultPriority <- v3,
                              Operations <- {"priority"}, MaxCalls <- 2, MaxLoads <- 3,
                              None <- Null

AtHome == INSTANCE HomeLocation WITH Users <- {ann}, Places <- {p1}, Events <- {},
                                     MaxChanges <- 3, MaxWrites <- 1, MaxIds <- 1, None <- Null

Sheet == INSTANCE SheetDrafts WITH Users <- {ann, ben}, Schools <- {s1},
                                   Fields <- {"memo", "mineNote"}, MaxEdits <- 1,
                                   MaxSaves <- 2, MaxLoads <- 3, None <- Null

Sharing == INSTANCE FamilyShare WITH Users <- {"mother", "child"}, Anonymous <- {},
                                     Groups <- {"g"}, MaxRows <- 4, Devices <- {"d1"},
                                     FirstUser <- [d1 |-> "child"], Switches <- 1,
                                     Closings <- 0, Failures <- 1, MaxOps <- 1, Accepting <- 1,
                                     Start <- Family

Joining == INSTANCE FamilyJoin WITH Users <- {"mother"}, Guest <- "guest", Nobody <- "nobody",
                                    Tokens <- {"s"}, NoToken <- "none", Accounts <- 1,
                                    Refreshes <- 1, Loads <- 1, Lost <- 1

Watching == INSTANCE MaintenanceFlag WITH MaxSwitches <- 1, MaxInFlight <- 2, MaxFailures <- 1,
                                          MaxMounts <- 1, Nothing <- Void

Showing == INSTANCE PublicSchools WITH Ids <- {"a", "b"}, NoId <- "none", Releases <- {1, 2},
                                       Rows <- [r \in {1, 2} |-> RowsOf(r)],
                                       Components <- {"map"}, MaxGen <- 2, MaxOpen <- 1

Observing == INSTANCE WorkersObserve WITH Files <- FewFiles, Rules <- {}, Redirects <- {},
                                          Shells <- {}, Routes <- {<<"*">>}, Lanes <- {l1, l2},
                                          Attempts <- 3, MaxFailures <- 1, None <- Null

Starting == INSTANCE KanjiLearners WITH Langs <- {"ja", "en"}, Device <- "en", Rows0 <- {<<>>},
                                        Entries <- {"new"}, Fills <- {<<"nick", "n2">>},
                                        MaxId <- 2, MaxCalls <- 1, MaxFaults <- 1,
                                        MaxHist <- 1, MaxRuns <- 2

Speaking == INSTANCE KanjiLanguage WITH Packs <- TwoPacks, Preferred <- {<<>>}, Keys <- {"a"},
                                        MaxChoices <- 2, MaxFailures <- 1

restOfData == <<part, rows, device, auth, home, homeLoadState, active, migrated, load, writes,
                map, records, behind, disturbed, changes, server, owner, notes, school, drafts,
                dirty, typed, saving, jobs, lost, edits, saves, lock, client, switches,
                closings, failures, ops, account, storage, page, memory, stored, asked,
                accepts, invite, members, ended, holder, bounds, flag, visible, watcher, timer,
                reads, dbOn, lastReadFailed, control, mounts, posts, inOrder, toggled, current,
                edge, store, view, version, detail, opened, package, expected, next, lanes,
                passed, recorded, result, served, live, job, uncertain, owned, order, late, at,
                outcome, foreign, together, disk, app, tags, ui, want, requested, flight, done>>
DataAlone ==
    /\ rows = Off /\ device = Off /\ auth = Off /\ home = Off /\ homeLoadState = Off /\
       active = Off /\ migrated = Off /\ load = Off /\ writes = Off /\ map = Off /\
       records = Off /\ behind = Off /\ disturbed = Off /\ changes = Off /\ server = Off /\
       owner = Off /\ notes = Off /\ school = Off /\ drafts = Off /\ dirty = Off /\
       typed = Off /\ saving = Off /\ jobs = Off /\ lost = Off /\ edits = Off /\ saves = Off /\
       lock = Off /\ client = Off /\ switches = Off /\ closings = Off /\ failures = Off /\
       ops = Off /\ account = Off /\ storage = Off /\ page = Off /\ memory = Off /\
       stored = Off /\ asked = Off /\ accepts = Off /\ invite = Off /\ members = Off /\
       ended = Off /\ holder = Off /\ bounds = Off /\ flag = Off /\ visible = Off /\
       watcher = Off /\ timer = Off /\ reads = Off /\ dbOn = Off /\ lastReadFailed = Off /\
       control = Off /\ mounts = Off /\ posts = Off /\ inOrder = Off /\ toggled = Off /\
       current = Off /\ edge = Off /\ store = Off /\ view = Off /\ version = Off /\
       detail = Off /\ opened = Off /\ package = Off /\ expected = Off /\ next = Off /\
       lanes = Off /\ passed = Off /\ recorded = Off /\ result = Off /\ served = Off /\
       live = Off /\ job = Off /\ uncertain = Off /\ owned = Off /\ order = Off /\
       late = Off /\ at = Off /\ outcome = Off /\ foreign = Off /\ together = Off /\
       disk = Off /\ app = Off /\ tags = Off /\ ui = Off /\ want = Off /\ requested = Off /\
       flight = Off /\ done = Off

restOfHome == <<part, db, agreed, loaded, failed, loading, loads, maintenance, screen, seen,
                calls, server, owner, notes, school, drafts, dirty, typed, saving, jobs, lost,
                edits, saves, lock, client, switches, closings, failures, ops, account,
                storage, page, memory, stored, asked, accepts, invite, members, ended, holder,
                bounds, flag, visible, watcher, timer, reads, dbOn, lastReadFailed, control,
                mounts, posts, inOrder, toggled, current, edge, store, view, version, detail,
                opened, package, expected, next, lanes, passed, recorded, result, served, live,
                job, uncertain, owned, order, late, at, outcome, foreign, together, disk, app,
                tags, ui, want, requested, flight, done>>
HomeAlone ==
    /\ db = Off /\ agreed = Off /\ loaded = Off /\ failed = Off /\ loading = Off /\
       loads = Off /\ maintenance = Off /\ screen = Off /\ seen = Off /\ calls = Off /\
       server = Off /\ owner = Off /\ notes = Off /\ school = Off /\ drafts = Off /\
       dirty = Off /\ typed = Off /\ saving = Off /\ jobs = Off /\ lost = Off /\ edits = Off /\
       saves = Off /\ lock = Off /\ client = Off /\ switches = Off /\ closings = Off /\
       failures = Off /\ ops = Off /\ account = Off /\ storage = Off /\ page = Off /\
       memory = Off /\ stored = Off /\ asked = Off /\ accepts = Off /\ invite = Off /\
       members = Off /\ ended = Off /\ holder = Off /\ bounds = Off /\ flag = Off /\
       visible = Off /\ watcher = Off /\ timer = Off /\ reads = Off /\ dbOn = Off /\
       lastReadFailed = Off /\ control = Off /\ mounts = Off /\ posts = Off /\ inOrder = Off /\
       toggled = Off /\ current = Off /\ edge = Off /\ store = Off /\ view = Off /\
       version = Off /\ detail = Off /\ opened = Off /\ package = Off /\ expected = Off /\
       next = Off /\ lanes = Off /\ passed = Off /\ recorded = Off /\ result = Off /\
       served = Off /\ live = Off /\ job = Off /\ uncertain = Off /\ owned = Off /\
       order = Off /\ late = Off /\ at = Off /\ outcome = Off /\ foreign = Off /\
       together = Off /\ disk = Off /\ app = Off /\ tags = Off /\ ui = Off /\ want = Off /\
       requested = Off /\ flight = Off /\ done = Off

restOfSheet == <<part, db, agreed, effect, loaded, loads, maintenance, screen, seen, calls,
                 rows, device, auth, home, homeLoadState, active, migrated, load, writes, map,
                 records, behind, disturbed, lock, client, switches, closings, failures, ops,
                 account, storage, page, memory, stored, asked, accepts, invite, members,
                 ended, holder, bounds, flag, visible, watcher, timer, reads, dbOn,
                 lastReadFailed, control, mounts, posts, inOrder, toggled, current, edge,
                 store, view, version, detail, opened, package, expected, next, lanes, passed,
                 recorded, result, served, live, job, uncertain, owned, order, late, at,
                 outcome, foreign, together, disk, app, tags, ui, want, requested, flight,
                 done>>
SheetAlone ==
    /\ db = Off /\ agreed = Off /\ effect = Off /\ loaded = Off /\ loads = Off /\
       maintenance = Off /\ screen = Off /\ seen = Off /\ calls = Off /\ rows = Off /\
       device = Off /\ auth = Off /\ home = Off /\ homeLoadState = Off /\ active = Off /\
       migrated = Off /\ load = Off /\ writes = Off /\ map = Off /\ records = Off /\
       behind = Off /\ disturbed = Off /\ lock = Off /\ client = Off /\ switches = Off /\
       closings = Off /\ failures = Off /\ ops = Off /\ account = Off /\ storage = Off /\
       page = Off /\ memory = Off /\ stored = Off /\ asked = Off /\ accepts = Off /\
       invite = Off /\ members = Off /\ ended = Off /\ holder = Off /\ bounds = Off /\
       flag = Off /\ visible = Off /\ watcher = Off /\ timer = Off /\ reads = Off /\
       dbOn = Off /\ lastReadFailed = Off /\ control = Off /\ mounts = Off /\ posts = Off /\
       inOrder = Off /\ toggled = Off /\ current = Off /\ edge = Off /\ store = Off /\
       view = Off /\ version = Off /\ detail = Off /\ opened = Off /\ package = Off /\
       expected = Off /\ next = Off /\ lanes = Off /\ passed = Off /\ recorded = Off /\
       result = Off /\ served = Off /\ live = Off /\ job = Off /\ uncertain = Off /\
       owned = Off /\ order = Off /\ late = Off /\ at = Off /\ outcome = Off /\
       foreign = Off /\ together = Off /\ disk = Off /\ app = Off /\ tags = Off /\ ui = Off /\
       want = Off /\ requested = Off /\ flight = Off /\ done = Off

restOfShare == <<part, agreed, session, effect, loaded, failed, loading, loads, maintenance,
                 screen, seen, calls, rows, device, auth, home, homeLoadState, active,
                 migrated, load, writes, map, records, behind, disturbed, changes, server,
                 owner, notes, school, drafts, dirty, typed, saving, jobs, lost, edits, saves,
                 account, storage, page, memory, stored, asked, accepts, invite, members,
                 ended, holder, bounds, flag, visible, watcher, timer, reads, dbOn,
                 lastReadFailed, control, mounts, posts, inOrder, toggled, current, edge,
                 store, view, version, detail, opened, package, expected, next, lanes, passed,
                 recorded, result, served, live, job, uncertain, owned, order, late, at,
                 outcome, foreign, together, disk, app, tags, ui, want, requested, flight,
                 done>>
ShareAlone ==
    /\ agreed = Off /\ session = Off /\ effect = Off /\ loaded = Off /\ failed = Off /\
       loading = Off /\ loads = Off /\ maintenance = Off /\ screen = Off /\ seen = Off /\
       calls = Off /\ rows = Off /\ device = Off /\ auth = Off /\ home = Off /\
       homeLoadState = Off /\ active = Off /\ migrated = Off /\ load = Off /\ writes = Off /\
       map = Off /\ records = Off /\ behind = Off /\ disturbed = Off /\ changes = Off /\
       server = Off /\ owner = Off /\ notes = Off /\ school = Off /\ drafts = Off /\
       dirty = Off /\ typed = Off /\ saving = Off /\ jobs = Off /\ lost = Off /\ edits = Off /\
       saves = Off /\ account = Off /\ storage = Off /\ page = Off /\ memory = Off /\
       stored = Off /\ asked = Off /\ accepts = Off /\ invite = Off /\ members = Off /\
       ended = Off /\ holder = Off /\ bounds = Off /\ flag = Off /\ visible = Off /\
       watcher = Off /\ timer = Off /\ reads = Off /\ dbOn = Off /\ lastReadFailed = Off /\
       control = Off /\ mounts = Off /\ posts = Off /\ inOrder = Off /\ toggled = Off /\
       current = Off /\ edge = Off /\ store = Off /\ view = Off /\ version = Off /\
       detail = Off /\ opened = Off /\ package = Off /\ expected = Off /\ next = Off /\
       lanes = Off /\ passed = Off /\ recorded = Off /\ result = Off /\ served = Off /\
       live = Off /\ job = Off /\ uncertain = Off /\ owned = Off /\ order = Off /\
       late = Off /\ at = Off /\ outcome = Off /\ foreign = Off /\ together = Off /\
       disk = Off /\ app = Off /\ tags = Off /\ ui = Off /\ want = Off /\ requested = Off /\
       flight = Off /\ done = Off

restOfJoin == <<part, db, agreed, session, effect, loaded, failed, loading, loads, maintenance,
                screen, seen, calls, rows, device, auth, home, homeLoadState, active, migrated,
                load, writes, map, records, behind, disturbed, changes, server, owner, notes,
                school, drafts, dirty, typed, saving, jobs, lost, edits, saves, lock, client,
                switches, closings, failures, ops, flag, visible, watcher, timer, reads, dbOn,
                lastReadFailed, control, mounts, posts, inOrder, toggled, current, edge, store,
                view, version, detail, opened, package, expected, next, lanes, passed,
                recorded, result, served, live, job, uncertain, owned, order, late, at,
                outcome, foreign, together, disk, app, tags, ui, want, requested, flight, done>>
JoinAlone ==
    /\ db = Off /\ agreed = Off /\ session = Off /\ effect = Off /\ loaded = Off /\
       failed = Off /\ loading = Off /\ loads = Off /\ maintenance = Off /\ screen = Off /\
       seen = Off /\ calls = Off /\ rows = Off /\ device = Off /\ auth = Off /\ home = Off /\
       homeLoadState = Off /\ active = Off /\ migrated = Off /\ load = Off /\ writes = Off /\
       map = Off /\ records = Off /\ behind = Off /\ disturbed = Off /\ changes = Off /\
       server = Off /\ owner = Off /\ notes = Off /\ school = Off /\ drafts = Off /\
       dirty = Off /\ typed = Off /\ saving = Off /\ jobs = Off /\ lost = Off /\ edits = Off /\
       saves = Off /\ lock = Off /\ client = Off /\ switches = Off /\ closings = Off /\
       failures = Off /\ ops = Off /\ flag = Off /\ visible = Off /\ watcher = Off /\
       timer = Off /\ reads = Off /\ dbOn = Off /\ lastReadFailed = Off /\ control = Off /\
       mounts = Off /\ posts = Off /\ inOrder = Off /\ toggled = Off /\ current = Off /\
       edge = Off /\ store = Off /\ view = Off /\ version = Off /\ detail = Off /\
       opened = Off /\ package = Off /\ expected = Off /\ next = Off /\ lanes = Off /\
       passed = Off /\ recorded = Off /\ result = Off /\ served = Off /\ live = Off /\
       job = Off /\ uncertain = Off /\ owned = Off /\ order = Off /\ late = Off /\ at = Off /\
       outcome = Off /\ foreign = Off /\ together = Off /\ disk = Off /\ app = Off /\
       tags = Off /\ ui = Off /\ want = Off /\ requested = Off /\ flight = Off /\ done = Off

restOfFlag == <<part, db, agreed, session, effect, loaded, failed, loads, maintenance, screen,
                seen, calls, rows, device, auth, home, homeLoadState, active, migrated, load,
                writes, map, records, behind, disturbed, changes, server, owner, notes, school,
                drafts, dirty, typed, saving, jobs, lost, edits, saves, lock, client, closings,
                ops, account, storage, page, memory, stored, asked, accepts, invite, members,
                ended, holder, bounds, current, edge, store, view, version, detail, opened,
                package, expected, next, lanes, passed, recorded, result, served, live, job,
                uncertain, owned, order, late, at, outcome, foreign, together, disk, app, tags,
                ui, want, requested, flight, done>>
FlagAlone ==
    /\ db = Off /\ agreed = Off /\ session = Off /\ effect = Off /\ loaded = Off /\
       failed = Off /\ loads = Off /\ maintenance = Off /\ screen = Off /\ seen = Off /\
       calls = Off /\ rows = Off /\ device = Off /\ auth = Off /\ home = Off /\
       homeLoadState = Off /\ active = Off /\ migrated = Off /\ load = Off /\ writes = Off /\
       map = Off /\ records = Off /\ behind = Off /\ disturbed = Off /\ changes = Off /\
       server = Off /\ owner = Off /\ notes = Off /\ school = Off /\ drafts = Off /\
       dirty = Off /\ typed = Off /\ saving = Off /\ jobs = Off /\ lost = Off /\ edits = Off /\
       saves = Off /\ lock = Off /\ client = Off /\ closings = Off /\ ops = Off /\
       account = Off /\ storage = Off /\ page = Off /\ memory = Off /\ stored = Off /\
       asked = Off /\ accepts = Off /\ invite = Off /\ members = Off /\ ended = Off /\
       holder = Off /\ bounds = Off /\ current = Off /\ edge = Off /\ store = Off /\
       view = Off /\ version = Off /\ detail = Off /\ opened = Off /\ package = Off /\
       expected = Off /\ next = Off /\ lanes = Off /\ passed = Off /\ recorded = Off /\
       result = Off /\ served = Off /\ live = Off /\ job = Off /\ uncertain = Off /\
       owned = Off /\ order = Off /\ late = Off /\ at = Off /\ outcome = Off /\
       foreign = Off /\ together = Off /\ disk = Off /\ app = Off /\ tags = Off /\ ui = Off /\
       want = Off /\ requested = Off /\ flight = Off /\ done = Off

restOfSchools == <<part, db, agreed, session, effect, loaded, failed, loading, loads,
                   maintenance, screen, seen, calls, rows, device, auth, home, homeLoadState,
                   active, migrated, load, writes, map, records, behind, disturbed, changes,
                   server, owner, notes, school, drafts, dirty, typed, saving, jobs, lost,
                   edits, saves, lock, client, switches, closings, failures, ops, account,
                   storage, page, memory, stored, asked, accepts, invite, members, ended,
                   holder, bounds, flag, visible, watcher, timer, reads, dbOn, lastReadFailed,
                   control, mounts, posts, inOrder, toggled, package, expected, next, lanes,
                   passed, recorded, result, served, live, job, uncertain, owned, order, late,
                   at, outcome, foreign, together, disk, app, tags, ui, want, requested,
                   flight, done>>
SchoolsAlone ==
    /\ db = Off /\ agreed = Off /\ session = Off /\ effect = Off /\ loaded = Off /\
       failed = Off /\ loading = Off /\ loads = Off /\ maintenance = Off /\ screen = Off /\
       seen = Off /\ calls = Off /\ rows = Off /\ device = Off /\ auth = Off /\ home = Off /\
       homeLoadState = Off /\ active = Off /\ migrated = Off /\ load = Off /\ writes = Off /\
       map = Off /\ records = Off /\ behind = Off /\ disturbed = Off /\ changes = Off /\
       server = Off /\ owner = Off /\ notes = Off /\ school = Off /\ drafts = Off /\
       dirty = Off /\ typed = Off /\ saving = Off /\ jobs = Off /\ lost = Off /\ edits = Off /\
       saves = Off /\ lock = Off /\ client = Off /\ switches = Off /\ closings = Off /\
       failures = Off /\ ops = Off /\ account = Off /\ storage = Off /\ page = Off /\
       memory = Off /\ stored = Off /\ asked = Off /\ accepts = Off /\ invite = Off /\
       members = Off /\ ended = Off /\ holder = Off /\ bounds = Off /\ flag = Off /\
       visible = Off /\ watcher = Off /\ timer = Off /\ reads = Off /\ dbOn = Off /\
       lastReadFailed = Off /\ control = Off /\ mounts = Off /\ posts = Off /\ inOrder = Off /\
       toggled = Off /\ package = Off /\ expected = Off /\ next = Off /\ lanes = Off /\
       passed = Off /\ recorded = Off /\ result = Off /\ served = Off /\ live = Off /\
       job = Off /\ uncertain = Off /\ owned = Off /\ order = Off /\ late = Off /\ at = Off /\
       outcome = Off /\ foreign = Off /\ together = Off /\ disk = Off /\ app = Off /\
       tags = Off /\ ui = Off /\ want = Off /\ requested = Off /\ flight = Off /\ done = Off

restOfObserve == <<part, db, agreed, session, effect, loaded, loading, loads, maintenance,
                   screen, seen, calls, rows, device, auth, home, homeLoadState, active,
                   migrated, load, writes, map, records, behind, disturbed, changes, server,
                   owner, notes, school, drafts, dirty, typed, saving, jobs, lost, edits,
                   saves, lock, client, switches, closings, failures, ops, account, storage,
                   page, memory, stored, asked, accepts, invite, members, ended, holder,
                   bounds, flag, visible, watcher, timer, reads, dbOn, lastReadFailed, control,
                   mounts, posts, inOrder, toggled, current, edge, store, view, version,
                   detail, opened, live, job, uncertain, owned, order, late, at, outcome,
                   foreign, together, disk, app, tags, ui, want, requested, flight, done>>
ObserveAlone ==
    /\ db = Off /\ agreed = Off /\ session = Off /\ effect = Off /\ loaded = Off /\
       loading = Off /\ loads = Off /\ maintenance = Off /\ screen = Off /\ seen = Off /\
       calls = Off /\ rows = Off /\ device = Off /\ auth = Off /\ home = Off /\
       homeLoadState = Off /\ active = Off /\ migrated = Off /\ load = Off /\ writes = Off /\
       map = Off /\ records = Off /\ behind = Off /\ disturbed = Off /\ changes = Off /\
       server = Off /\ owner = Off /\ notes = Off /\ school = Off /\ drafts = Off /\
       dirty = Off /\ typed = Off /\ saving = Off /\ jobs = Off /\ lost = Off /\ edits = Off /\
       saves = Off /\ lock = Off /\ client = Off /\ switches = Off /\ closings = Off /\
       failures = Off /\ ops = Off /\ account = Off /\ storage = Off /\ page = Off /\
       memory = Off /\ stored = Off /\ asked = Off /\ accepts = Off /\ invite = Off /\
       members = Off /\ ended = Off /\ holder = Off /\ bounds = Off /\ flag = Off /\
       visible = Off /\ watcher = Off /\ timer = Off /\ reads = Off /\ dbOn = Off /\
       lastReadFailed = Off /\ control = Off /\ mounts = Off /\ posts = Off /\ inOrder = Off /\
       toggled = Off /\ current = Off /\ edge = Off /\ store = Off /\ view = Off /\
       version = Off /\ detail = Off /\ opened = Off /\ live = Off /\ job = Off /\
       uncertain = Off /\ owned = Off /\ order = Off /\ late = Off /\ at = Off /\
       outcome = Off /\ foreign = Off /\ together = Off /\ disk = Off /\ app = Off /\
       tags = Off /\ ui = Off /\ want = Off /\ requested = Off /\ flight = Off /\ done = Off

restOfRelease == <<part, db, agreed, session, effect, loaded, loading, loads, maintenance,
                   screen, seen, calls, rows, device, auth, home, homeLoadState, active,
                   migrated, load, writes, map, records, behind, disturbed, changes, server,
                   owner, notes, school, drafts, dirty, typed, saving, jobs, lost, edits,
                   saves, lock, client, switches, closings, failures, ops, account, storage,
                   page, memory, stored, asked, accepts, invite, members, ended, holder,
                   bounds, flag, visible, watcher, timer, reads, dbOn, lastReadFailed, control,
                   mounts, posts, inOrder, toggled, current, edge, store, view, version,
                   detail, opened, package, expected, next, lanes, passed, recorded, result,
                   served, disk, app, tags, ui, want, requested, flight, done>>
ReleaseAlone ==
    /\ db = Off /\ agreed = Off /\ session = Off /\ effect = Off /\ loaded = Off /\
       loading = Off /\ loads = Off /\ maintenance = Off /\ screen = Off /\ seen = Off /\
       calls = Off /\ rows = Off /\ device = Off /\ auth = Off /\ home = Off /\
       homeLoadState = Off /\ active = Off /\ migrated = Off /\ load = Off /\ writes = Off /\
       map = Off /\ records = Off /\ behind = Off /\ disturbed = Off /\ changes = Off /\
       server = Off /\ owner = Off /\ notes = Off /\ school = Off /\ drafts = Off /\
       dirty = Off /\ typed = Off /\ saving = Off /\ jobs = Off /\ lost = Off /\ edits = Off /\
       saves = Off /\ lock = Off /\ client = Off /\ switches = Off /\ closings = Off /\
       failures = Off /\ ops = Off /\ account = Off /\ storage = Off /\ page = Off /\
       memory = Off /\ stored = Off /\ asked = Off /\ accepts = Off /\ invite = Off /\
       members = Off /\ ended = Off /\ holder = Off /\ bounds = Off /\ flag = Off /\
       visible = Off /\ watcher = Off /\ timer = Off /\ reads = Off /\ dbOn = Off /\
       lastReadFailed = Off /\ control = Off /\ mounts = Off /\ posts = Off /\ inOrder = Off /\
       toggled = Off /\ current = Off /\ edge = Off /\ store = Off /\ view = Off /\
       version = Off /\ detail = Off /\ opened = Off /\ package = Off /\ expected = Off /\
       next = Off /\ lanes = Off /\ passed = Off /\ recorded = Off /\ result = Off /\
       served = Off /\ disk = Off /\ app = Off /\ tags = Off /\ ui = Off /\ want = Off /\
       requested = Off /\ flight = Off /\ done = Off

restOfKanji == <<part, db, agreed, session, effect, loaded, failed, loading, loads,
                 maintenance, screen, calls, rows, device, auth, home, homeLoadState, active,
                 migrated, load, writes, map, records, behind, disturbed, changes, server,
                 owner, notes, school, drafts, dirty, typed, saving, jobs, lost, edits, saves,
                 lock, client, switches, closings, failures, account, storage, page, asked,
                 accepts, invite, members, ended, holder, bounds, flag, visible, watcher,
                 timer, reads, dbOn, lastReadFailed, control, mounts, posts, inOrder, toggled,
                 current, edge, store, view, version, detail, opened, package, expected, next,
                 lanes, passed, recorded, result, served, live, job, uncertain, owned, order,
                 late, at, outcome, foreign, together, tags, ui, want, requested, flight, done>>
KanjiAlone ==
    /\ db = Off /\ agreed = Off /\ session = Off /\ effect = Off /\ loaded = Off /\
       failed = Off /\ loading = Off /\ loads = Off /\ maintenance = Off /\ screen = Off /\
       calls = Off /\ rows = Off /\ device = Off /\ auth = Off /\ home = Off /\
       homeLoadState = Off /\ active = Off /\ migrated = Off /\ load = Off /\ writes = Off /\
       map = Off /\ records = Off /\ behind = Off /\ disturbed = Off /\ changes = Off /\
       server = Off /\ owner = Off /\ notes = Off /\ school = Off /\ drafts = Off /\
       dirty = Off /\ typed = Off /\ saving = Off /\ jobs = Off /\ lost = Off /\ edits = Off /\
       saves = Off /\ lock = Off /\ client = Off /\ switches = Off /\ closings = Off /\
       failures = Off /\ account = Off /\ storage = Off /\ page = Off /\ asked = Off /\
       accepts = Off /\ invite = Off /\ members = Off /\ ended = Off /\ holder = Off /\
       bounds = Off /\ flag = Off /\ visible = Off /\ watcher = Off /\ timer = Off /\
       reads = Off /\ dbOn = Off /\ lastReadFailed = Off /\ control = Off /\ mounts = Off /\
       posts = Off /\ inOrder = Off /\ toggled = Off /\ current = Off /\ edge = Off /\
       store = Off /\ view = Off /\ version = Off /\ detail = Off /\ opened = Off /\
       package = Off /\ expected = Off /\ next = Off /\ lanes = Off /\ passed = Off /\
       recorded = Off /\ result = Off /\ served = Off /\ live = Off /\ job = Off /\
       uncertain = Off /\ owned = Off /\ order = Off /\ late = Off /\ at = Off /\
       outcome = Off /\ foreign = Off /\ together = Off /\ tags = Off /\ ui = Off /\
       want = Off /\ requested = Off /\ flight = Off /\ done = Off

restOfLang == <<part, db, agreed, session, loaded, failed, loading, loads, maintenance, screen,
                seen, calls, rows, device, auth, home, homeLoadState, migrated, load, writes,
                map, records, behind, disturbed, changes, server, owner, notes, school, drafts,
                dirty, typed, saving, jobs, lost, edits, saves, lock, client, switches,
                closings, failures, ops, account, storage, page, memory, stored, asked,
                accepts, invite, members, ended, holder, bounds, flag, visible, watcher, timer,
                reads, dbOn, lastReadFailed, control, mounts, posts, inOrder, toggled, current,
                edge, store, view, version, detail, opened, package, expected, next, lanes,
                passed, recorded, result, served, live, job, uncertain, owned, order, late, at,
                outcome, foreign, together, disk, app>>
LangAlone ==
    /\ db = Off /\ agreed = Off /\ session = Off /\ loaded = Off /\ failed = Off /\
       loading = Off /\ loads = Off /\ maintenance = Off /\ screen = Off /\ seen = Off /\
       calls = Off /\ rows = Off /\ device = Off /\ auth = Off /\ home = Off /\
       homeLoadState = Off /\ migrated = Off /\ load = Off /\ writes = Off /\ map = Off /\
       records = Off /\ behind = Off /\ disturbed = Off /\ changes = Off /\ server = Off /\
       owner = Off /\ notes = Off /\ school = Off /\ drafts = Off /\ dirty = Off /\
       typed = Off /\ saving = Off /\ jobs = Off /\ lost = Off /\ edits = Off /\ saves = Off /\
       lock = Off /\ client = Off /\ switches = Off /\ closings = Off /\ failures = Off /\
       ops = Off /\ account = Off /\ storage = Off /\ page = Off /\ memory = Off /\
       stored = Off /\ asked = Off /\ accepts = Off /\ invite = Off /\ members = Off /\
       ended = Off /\ holder = Off /\ bounds = Off /\ flag = Off /\ visible = Off /\
       watcher = Off /\ timer = Off /\ reads = Off /\ dbOn = Off /\ lastReadFailed = Off /\
       control = Off /\ mounts = Off /\ posts = Off /\ inOrder = Off /\ toggled = Off /\
       current = Off /\ edge = Off /\ store = Off /\ view = Off /\ version = Off /\
       detail = Off /\ opened = Off /\ package = Off /\ expected = Off /\ next = Off /\
       lanes = Off /\ passed = Off /\ recorded = Off /\ result = Off /\ served = Off /\
       live = Off /\ job = Off /\ uncertain = Off /\ owned = Off /\ order = Off /\
       late = Off /\ at = Off /\ outcome = Off /\ foreign = Off /\ together = Off /\
       disk = Off /\ app = Off

SuiteInit ==
    \/ part = "data" /\ Tab!Init /\ DataAlone
    \/ part = "home" /\ AtHome!Init /\ HomeAlone
    \/ part = "sheet" /\ Sheet!Init /\ SheetAlone
    \/ part = "share" /\ Sharing!Init /\ ShareAlone
    \/ part = "join" /\ Joining!Init /\ JoinAlone
    \/ part = "flag" /\ Watching!Init /\ FlagAlone
    \/ part = "schools" /\ Showing!Init /\ SchoolsAlone
    \/ part = "observe" /\ Observing!Init /\ ObserveAlone
    \/ part = "release" /\ Init /\ ReleaseAlone
    \/ part = "kanji" /\ Starting!Init /\ KanjiAlone
    \/ part = "language" /\ Speaking!Init /\ LangAlone

SuiteNext ==
    \/ part = "data" /\ Tab!Next /\ UNCHANGED restOfData
    \/ part = "home" /\ AtHome!Next /\ UNCHANGED restOfHome
    \/ part = "sheet" /\ Sheet!Next /\ UNCHANGED restOfSheet
    \/ part = "share" /\ Sharing!Next /\ UNCHANGED restOfShare
    \/ part = "join" /\ Joining!Next /\ UNCHANGED restOfJoin
    \/ part = "flag" /\ Watching!Next /\ UNCHANGED restOfFlag
    \/ part = "schools" /\ Showing!Next /\ UNCHANGED restOfSchools
    \/ part = "observe" /\ Observing!Next /\ UNCHANGED restOfObserve
    \/ part = "release" /\ Next /\ UNCHANGED restOfRelease
    \/ part = "kanji" /\ Starting!Next /\ UNCHANGED restOfKanji
    \/ part = "language" /\ Speaking!Next /\ UNCHANGED restOfLang

suiteVars == <<part, db, agreed, session, effect, loaded, failed, loading, loads, maintenance,
               screen, seen, calls, rows, device, auth, home, homeLoadState, active, migrated,
               load, writes, map, records, behind, disturbed, changes, server, owner, notes,
               school, drafts, dirty, typed, saving, jobs, lost, edits, saves, lock, client,
               switches, closings, failures, ops, account, storage, page, memory, stored,
               asked, accepts, invite, members, ended, holder, bounds, flag, visible, watcher,
               timer, reads, dbOn, lastReadFailed, control, mounts, posts, inOrder, toggled,
               current, edge, store, view, version, detail, opened, package, expected, next,
               lanes, passed, recorded, result, served, live, job, uncertain, owned, order,
               late, at, outcome, foreign, together, disk, app, tags, ui, want, requested,
               flight, done>>

SuiteSpec == SuiteInit /\ [][SuiteNext]_suiteVars

dataVars == <<db, agreed, session, effect, loaded, failed, loading, loads, maintenance, screen,
              seen, calls>>
homeVars == <<rows, device, auth, session, effect, home, homeLoadState, active, migrated, load,
              writes, map, records, behind, disturbed, changes>>
sheetVars == <<server, session, owner, loading, failed, notes, school, drafts, dirty, typed,
               saving, jobs, lost, edits, saves, changes>>
shareVars == <<db, lock, client, switches, closings, failures, ops>>
joinVars == <<account, storage, page, memory, stored, asked, accepts, invite, members, ended,
              holder, bounds>>
flagVars == <<flag, visible, watcher, timer, reads, dbOn, loading, lastReadFailed, control,
              mounts, posts, inOrder, toggled, switches, failures>>
schoolsVars == <<current, edge, store, view, version, detail, opened>>
observeVars == <<package, expected, next, lanes, passed, failed, recorded, result, served>>
releaseVars == <<live, job, uncertain, owned, order, late, at, failed, outcome, foreign,
                 together>>
kanjiVars == <<disk, memory, app, ops, stored, seen>>
langVars == <<tags, ui, want, active, requested, flight, effect, done>>

\* The fairness of the components; their modules say why the code justifies it.
SuiteFairSpec ==
    /\ SuiteSpec
    /\ WF_dataVars(part = "data" /\ Tab!Loading)
    /\ WF_dataVars(part = "data" /\ Tab!Render)
    /\ \A i \in 1..2 : WF_dataVars(part = "data" /\ i \in DOMAIN calls /\
               (Tab!StartPriority(i) \/ Tab!Commit(i) \/ Tab!Refuse(i) \/ Tab!Answer(i)))
    /\ WF_homeVars(part = "home" /\ AtHome!RenderSession)
    /\ WF_homeVars(part = "home" /\ AtHome!Effect)
    /\ WF_homeVars(part = "home" /\ AtHome!Loading)
    /\ WF_homeVars(part = "home" /\ AtHome!Saving)
    /\ WF_sheetVars(part = "sheet" /\ (\E j \in jobs :
               Sheet!SaveFails(j) \/ Sheet!SendNote(j) \/ Sheet!NoteRefused(j) \/ Sheet!SaveDone(j)))
    /\ WF_sheetVars(part = "sheet" /\ (\E ok \in BOOLEAN : Sheet!Load(ok)))
    /\ WF_shareVars(part = "share" /\ Sharing!ServeRead("d1"))
    /\ WF_shareVars(part = "share" /\ Sharing!ServeOp("d1"))
    /\ WF_shareVars(part = "share" /\ Sharing!ServeShared("d1"))
    /\ WF_shareVars(part = "share" /\ Sharing!DeliverRead("d1"))
    /\ WF_shareVars(part = "share" /\ Sharing!DeliverOp("d1"))
    /\ WF_shareVars(part = "share" /\ Sharing!AcceptEnds)
    /\ WF_joinVars(part = "join" /\ Joining!PreviewAnswered)
    /\ WF_joinVars(part = "join" /\ Joining!AcceptServed)
    /\ WF_joinVars(part = "join" /\ Joining!AcceptAnswered)
    /\ WF_joinVars(part = "join" /\ Joining!SessionKnown)
    /\ WF_flagVars(part = "flag" /\ Watching!Elapses)
    /\ WF_flagVars(part = "flag" /\ Watching!Reading)
    /\ WF_flagVars(part = "flag" /\ Watching!Posting)
    /\ WF_schoolsVars(part = "schools" /\ Showing!ManifestAnswered)
    /\ WF_schoolsVars(part = "schools" /\ Showing!ListAnswered)
    /\ WF_schoolsVars(part = "schools" /\ Showing!VersionAnswered)
    /\ WF_schoolsVars(part = "schools" /\ Showing!DetailAnswered)
    /\ WF_schoolsVars(part = "schools" /\ Showing!Subscribe("map"))
    /\ WF_observeVars(part = "observe" /\ Observing!Plan)
    /\ WF_observeVars(part = "observe" /\ Observing!Finish)
    /\ \A l \in {l1, l2} : WF_observeVars(part = "observe" /\ Observing!Taken(l))
    /\ \A l \in {l1, l2} : WF_observeVars(part = "observe" /\ (\E a \in Observing!Answers \cup {Null} :
               Observing!Answered(l, a)))
    /\ WF_releaseVars(part = "release" /\ Runner)
    /\ WF_kanjiVars(part = "kanji" /\ (Starting!OpenTimeout \/ Starting!OpenSuccess))
    /\ WF_kanjiVars(part = "kanji" /\ (Starting!ReadLearners \/ Starting!ReadMeta \/ Starting!ReadFails))
    /\ WF_kanjiVars(part = "kanji" /\ Starting!FirstRender)
    /\ WF_kanjiVars(part = "kanji" /\ Starting!Transaction)
    /\ WF_langVars(part = "language" /\ Speaking!Effect)
    /\ \A i \in 1..2 : WF_langVars(part = "language" /\ i \in DOMAIN flight /\ Speaking!Arrives(i))

ASSUME Bounds ==
    /\ Tab!UserDataAssumption /\ AtHome!HomeAssumption /\ Sheet!SheetDraftsAssumption
    /\ Sharing!FamilyConstants /\ Watching!MaintenanceAssumption
    /\ Observing!WorkersObserveAssumption /\ ReleaseAssumption
    /\ Starting!KanjiAssumption /\ Speaking!KanjiLanguageAssumption

-----------------------------------------------------------------------------
(* Properties.                                                             *)

\* What was asked for and has not come.
Waiting ==
    \/ part = "data" /\ session = ann /\ failed # ann /\ (loaded # ann \/ loading)
    \/ part = "home" /\ session = ann /\ homeLoadState = "loading"
    \/ part = "flag" /\ visible /\ dbOn # flag
    \/ part = "join" /\ page.status \in {"checking", "accepting"}
    \/ part = "schools" /\ Showing!PageShows = "loading"
    \/ part = "language" /\ want # active
    \/ part = "kanji" /\ app.phase \in {"opening", "reading"}

\* What was asked for comes.  A user's data are loaded or the failure is shown
\* unless the session changes first, no load is dropped without one that
\* replaces it (useUserData.ts 139-205); who signs in gets a place, none or an
\* error (AppContext.tsx 225-285); the maintenance flag reaches a tab that
\* stays in view (useMaintenanceMode.tsx 50-53); the page of an invitation does
\* not stay checking nor accepting (FamilyJoinPage.tsx 168-220), a school's page
\* does not load for ever (useSchoolDetail.ts), and the kanji application starts
\* or says that it cannot, whatever IndexedDB does (kanji store.ts 383-441); a language that was
\* chosen is shown once its texts came or failed (I18nProvider.tsx 84-93).
AnswersArrive == Waiting ~> ~Waiting

\* What was begun and has not ended.
Working ==
    \/ part = "data" /\ \E i \in DOMAIN calls : calls[i].stage \notin Tab!Settled
    \/ part = "sheet" /\ saving
    \/ part = "share" /\ Sharing!Busy("d1")
    \/ part = "observe" /\ result \in {"planning", "running"}
    \/ part = "release" /\ outcome = "none"
    \/ part = "kanji" /\ app.guard /\ ops # <<>>

\* What was begun ends, whatever fails meanwhile.  Every call on the user's
\* data settles, in particular a failed change of priority does not keep the
\* later ones waiting (useUserData.ts 306); the save button and the buttons of
\* the family sheet come back (SchoolDetailSheet.tsx 599-602, withBusy of
\* FamilyShareSheet.tsx); an observation ends with a server that never answers
\* too (workers-observe.mjs 214-226), and a release ends and says how
\* (school-release.mjs).
WorkEnds == Working ~> ~Working
============================================================
