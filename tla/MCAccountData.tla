-------------------- MODULE MCAccountData --------------------
(* What the web client keeps for an account: its own data, its place, the
   inputs of the school sheet.  Each part is one component alone, small enough
   for TLC; a behaviour stays in its part. *)
EXTENDS UserDataProofs, Integers, Sequences, FiniteSets, TLC

CONSTANTS ann, ben, v3, v5, p1, p2, s1, s2

VARIABLES tags, ui, want, requested, flight, done, text

Off == "off"

Learner(nick, lang) == [nick |-> nick, lang |-> lang]
\* The second one's language has no pack any more.
TwoLearners == (1 :> Learner("n1", "ja")) @@ (2 :> Learner("n2", "xx"))
Tag(primary, rest) == [primary |-> primary, rest |-> rest]
FourPacks == (Tag("en", "") :> {"a", "b"}) @@ (Tag("ja", "") :> {"a", "b", "c"})
             @@ (Tag("zh", "hant") :> {"a"}) @@ (Tag("pt", "") :> {"a", "c"})
Preferences == UNION {[1 .. n -> {Tag("ja", "jp"), Tag("zh", "tw"), Tag("zh", "cn"),
                                  Tag("pt", "br"), Tag("de", "")}] : n \in 0 .. 2}
Beginnings == {<<>>, <<"{", "k">>, <<"{", "k", "|", "w">>, <<"<a>", "{", "k", "|", "k">>}
OneNick == {<<"nick", "n2">>}
OneStart == {TwoLearners}
ManyFills == {<<"nick", "">>, <<"nick", " n1 ">>, <<"exam", "bad">>}

Toggles == INSTANCE UserData WITH Users <- {ann}, Values <- {v3}, DefaultPriority <- v3,
                                  Operations <- {"toggle", "note"}, MaxCalls <- 3, MaxLoads <- 2
Priority == INSTANCE UserData WITH Users <- {ann}, Values <- {v3, v5}, DefaultPriority <- v3,
                                   Operations <- {"priority"}, MaxCalls <- 3, MaxLoads <- 3
Consent == INSTANCE UserData WITH Users <- {ann}, Values <- {v3}, DefaultPriority <- v3,
                                  Operations <- {"mine"}, MaxCalls <- 2, MaxLoads <- 2

HomeFamily == INSTANCE HomeLocation WITH Users <- {ann, ben}, Places <- {p1}, Events <- {},
                                         MaxChanges <- 4, MaxWrites <- 2, MaxIds <- 1
HomeMap == INSTANCE HomeLocation WITH Users <- {ann}, Places <- {p1}, Events <- {"map"},
                                      MaxChanges <- 3, MaxWrites <- 2, MaxIds <- 1
HomeSaved == INSTANCE HomeLocation WITH Users <- {ann}, Places <- {p1, p2}, Events <- {},
                                        MaxChanges <- 2, MaxWrites <- 3, MaxIds <- 1

SheetFields == INSTANCE SheetDrafts WITH Users <- {ann}, Schools <- {s1, s2},
                                         Fields <- {"memo", "mineNote"}, MaxEdits <- 2,
                                         MaxSaves <- 2, MaxLoads <- 2

Starts == INSTANCE KanjiLearners WITH Langs <- {"ja", "en"}, Device <- "en",
                                      Rows0 <- {<<>>, TwoLearners},
                                      Entries <- {"home", "edit", "lost"}, Fills <- ManyFills,
                                      MaxId <- 4, MaxCalls <- 1, MaxFaults <- 1, MaxHist <- 2,
                                      MaxRuns <- 2

Language == INSTANCE KanjiLanguage WITH Packs <- FourPacks, Preferred <- Preferences,
                                        Keys <- {"a", "b", "c"}, MaxChoices <- 2,
                                        MaxFailures <- 1

Markup == INSTANCE KanjiMarkup WITH
                                    Chars <- {"k", "r", "w", "{", "}", "|", "<br>", "<a>", "</a>"},
                                    Begins <- Beginnings, MaxMore <- 3

restOfData == <<part, rows, device, auth, home, homeLoadState, active, migrated, load, writes,
                map, records, behind, disturbed, changes, server, owner, notes, school, drafts,
                dirty, typed, saving, jobs, lost, edits, saves, disk, memory, app, ops, stored,
                tags, ui, want, requested, flight, done, text>>
DataAlone ==
    /\ rows = Off /\ device = Off /\ auth = Off /\ home = Off /\ homeLoadState = Off /\
       active = Off /\ migrated = Off /\ load = Off /\ writes = Off /\ map = Off /\
       records = Off /\ behind = Off /\ disturbed = Off /\ changes = Off /\ server = Off /\
       owner = Off /\ notes = Off /\ school = Off /\ drafts = Off /\ dirty = Off /\
       typed = Off /\ saving = Off /\ jobs = Off /\ lost = Off /\ edits = Off /\ saves = Off /\
       disk = Off /\ memory = Off /\ app = Off /\ ops = Off /\ stored = Off /\ tags = Off /\
       ui = Off /\ want = Off /\ requested = Off /\ flight = Off /\ done = Off /\ text = Off

restOfHome == <<part, db, agreed, loaded, failed, loading, loads, maintenance, screen, seen,
                calls, server, owner, notes, school, drafts, dirty, typed, saving, jobs, lost,
                edits, saves, disk, memory, app, ops, stored, tags, ui, want, requested,
                flight, done, text>>
HomeAlone ==
    /\
       db = [u \in Users |-> [fav |-> None, note |-> None, dept |-> None, sentinel |-> None]] /\
       agreed = [u \in Users |-> FALSE] /\ loaded = None /\ failed = Off /\ loading = Off /\
       loads = Off /\ maintenance = Off /\ screen = Blank /\ seen = Off /\ calls = Off /\
       server = Off /\ owner = Off /\ notes = Off /\ school = Off /\ drafts = Off /\
       dirty = Off /\ typed = Off /\ saving = Off /\ jobs = Off /\ lost = Off /\ edits = Off /\
       saves = Off /\ disk = Off /\ memory = Off /\ app = Off /\ ops = Off /\ stored = Off /\
       tags = Off /\ ui = Off /\ want = Off /\ requested = Off /\ flight = Off /\ done = Off /\
       text = Off

restOfSheet == <<part, db, agreed, effect, loaded, loads, maintenance, screen, seen, calls,
                 rows, device, auth, home, homeLoadState, active, migrated, load, writes, map,
                 records, behind, disturbed, disk, memory, app, ops, stored, tags, ui, want,
                 requested, flight, done, text>>
SheetAlone ==
    /\
       db = [u \in Users |-> [fav |-> None, note |-> None, dept |-> None, sentinel |-> None]] /\
       agreed = [u \in Users |-> FALSE] /\ effect = Off /\ loaded = None /\ loads = Off /\
       maintenance = Off /\ screen = Blank /\ seen = Off /\ calls = Off /\ rows = Off /\
       device = Off /\ auth = Off /\ home = Off /\ homeLoadState = Off /\ active = Off /\
       migrated = Off /\ load = Off /\ writes = Off /\ map = Off /\ records = Off /\
       behind = Off /\ disturbed = Off /\ disk = Off /\ memory = Off /\ app = Off /\
       ops = Off /\ stored = Off /\ tags = Off /\ ui = Off /\ want = Off /\ requested = Off /\
       flight = Off /\ done = Off /\ text = Off

restOfKanji == <<part, db, agreed, session, effect, loaded, failed, loading, loads,
                 maintenance, screen, calls, rows, device, auth, home, homeLoadState, active,
                 migrated, load, writes, map, records, behind, disturbed, changes, server,
                 owner, notes, school, drafts, dirty, typed, saving, jobs, lost, edits, saves,
                 tags, ui, want, requested, flight, done, text>>
KanjiAlone ==
    /\
       db = [u \in Users |-> [fav |-> None, note |-> None, dept |-> None, sentinel |-> None]] /\
       agreed = [u \in Users |-> FALSE] /\ session = None /\ effect = Off /\ loaded = None /\
       failed = Off /\ loading = Off /\ loads = Off /\ maintenance = Off /\ screen = Blank /\
       calls = Off /\ rows = Off /\ device = Off /\ auth = Off /\ home = Off /\
       homeLoadState = Off /\ active = Off /\ migrated = Off /\ load = Off /\ writes = Off /\
       map = Off /\ records = Off /\ behind = Off /\ disturbed = Off /\ changes = Off /\
       server = Off /\ owner = Off /\ notes = Off /\ school = Off /\ drafts = Off /\
       dirty = Off /\ typed = Off /\ saving = Off /\ jobs = Off /\ lost = Off /\ edits = Off /\
       saves = Off /\ tags = Off /\ ui = Off /\ want = Off /\ requested = Off /\
       flight = Off /\ done = Off /\ text = Off

restOfLang == <<part, db, agreed, session, loaded, failed, loading, loads, maintenance, screen,
                seen, calls, rows, device, auth, home, homeLoadState, migrated, load, writes,
                map, records, behind, disturbed, changes, server, owner, notes, school, drafts,
                dirty, typed, saving, jobs, lost, edits, saves, disk, memory, app, ops, stored,
                text>>
LangAlone ==
    /\
       db = [u \in Users |-> [fav |-> None, note |-> None, dept |-> None, sentinel |-> None]] /\
       agreed = [u \in Users |-> FALSE] /\ session = None /\ loaded = None /\ failed = Off /\
       loading = Off /\ loads = Off /\ maintenance = Off /\ screen = Blank /\ seen = Off /\
       calls = Off /\ rows = Off /\ device = Off /\ auth = Off /\ home = Off /\
       homeLoadState = Off /\ migrated = Off /\ load = Off /\ writes = Off /\ map = Off /\
       records = Off /\ behind = Off /\ disturbed = Off /\ changes = Off /\ server = Off /\
       owner = Off /\ notes = Off /\ school = Off /\ drafts = Off /\ dirty = Off /\
       typed = Off /\ saving = Off /\ jobs = Off /\ lost = Off /\ edits = Off /\ saves = Off /\
       disk = Off /\ memory = Off /\ app = Off /\ ops = Off /\ stored = Off /\ text = Off

restOfMarkup == <<part, db, agreed, session, effect, loaded, failed, loading, loads,
                  maintenance, screen, seen, calls, rows, device, auth, home, homeLoadState,
                  active, migrated, load, writes, map, records, behind, disturbed, changes,
                  server, owner, notes, school, drafts, dirty, typed, saving, jobs, lost,
                  edits, saves, disk, memory, app, ops, stored, tags, ui, want, requested,
                  flight, done>>
MarkupAlone ==
    /\
       db = [u \in Users |-> [fav |-> None, note |-> None, dept |-> None, sentinel |-> None]] /\
       agreed = [u \in Users |-> FALSE] /\ session = None /\ effect = Off /\ loaded = None /\
       failed = Off /\ loading = Off /\ loads = Off /\ maintenance = Off /\ screen = Blank /\
       seen = Off /\ calls = Off /\ rows = Off /\ device = Off /\ auth = Off /\ home = Off /\
       homeLoadState = Off /\ active = Off /\ migrated = Off /\ load = Off /\ writes = Off /\
       map = Off /\ records = Off /\ behind = Off /\ disturbed = Off /\ changes = Off /\
       server = Off /\ owner = Off /\ notes = Off /\ school = Off /\ drafts = Off /\
       dirty = Off /\ typed = Off /\ saving = Off /\ jobs = Off /\ lost = Off /\ edits = Off /\
       saves = Off /\ disk = Off /\ memory = Off /\ app = Off /\ ops = Off /\ stored = Off /\
       tags = Off /\ ui = Off /\ want = Off /\ requested = Off /\ flight = Off /\ done = Off

SuiteInit ==
    \/ part = "sessions" /\ Init /\ DataAlone
    \/ part = "toggles" /\ Toggles!Init /\ DataAlone
    \/ part = "priority" /\ Priority!Init /\ DataAlone
    \/ part = "consent" /\ Consent!Init /\ DataAlone
    \/ part = "device" /\ Place!Init /\ HomeAlone
    \/ part = "family" /\ HomeFamily!Init /\ HomeAlone
    \/ part = "map" /\ HomeMap!Init /\ HomeAlone
    \/ part = "saved" /\ HomeSaved!Init /\ HomeAlone
    \/ part = "fields" /\ SheetFields!Init /\ SheetAlone
    \/ part = "saves" /\ Sheet!Init /\ SheetAlone
    \/ part = "learners" /\ Learn!Init /\ KanjiAlone
    \/ part = "starts" /\ Starts!Init /\ KanjiAlone
    \/ part = "language" /\ Language!Init /\ LangAlone
    \/ part = "markup" /\ Markup!Init /\ MarkupAlone

SuiteNext ==
    \/ part = "sessions" /\ Next /\ UNCHANGED restOfData
    \/ part = "toggles" /\ Toggles!Next /\ UNCHANGED restOfData
    \/ part = "priority" /\ Priority!Next /\ UNCHANGED restOfData
    \/ part = "consent" /\ Consent!Next /\ UNCHANGED restOfData
    \/ part = "device" /\ Place!Next /\ UNCHANGED restOfHome
    \/ part = "family" /\ HomeFamily!Next /\ UNCHANGED restOfHome
    \/ part = "map" /\ HomeMap!Next /\ UNCHANGED restOfHome
    \/ part = "saved" /\ HomeSaved!Next /\ UNCHANGED restOfHome
    \/ part = "fields" /\ SheetFields!Next /\ UNCHANGED restOfSheet
    \/ part = "saves" /\ Sheet!Next /\ UNCHANGED restOfSheet
    \/ part = "learners" /\ Learn!Next /\ UNCHANGED restOfKanji
    \/ part = "starts" /\ Starts!Next /\ UNCHANGED restOfKanji
    \/ part = "language" /\ Language!Next /\ UNCHANGED restOfLang
    \/ part = "markup" /\ Markup!Next /\ UNCHANGED restOfMarkup

suiteVars == <<part, db, agreed, session, effect, loaded, failed, loading, loads, maintenance,
               screen, seen, calls, rows, device, auth, home, homeLoadState, active, migrated,
               load, writes, map, records, behind, disturbed, changes, server, owner, notes,
               school, drafts, dirty, typed, saving, jobs, lost, edits, saves, disk, memory,
               app, ops, stored, tags, ui, want, requested, flight, done, text>>

SuiteSpec == SuiteInit /\ [][SuiteNext]_suiteVars

ASSUME Bounds ==
    /\ UserDataAssumption /\ Toggles!UserDataAssumption
    /\ Priority!UserDataAssumption /\ Consent!UserDataAssumption
    /\ Learn!KanjiAssumption /\ Starts!KanjiAssumption
    /\ Place!HomeAssumption /\ HomeFamily!HomeAssumption /\ HomeMap!HomeAssumption /\ HomeSaved!HomeAssumption
    /\ SheetFields!SheetDraftsAssumption /\ Sheet!SheetDraftsAssumption
    /\ Language!KanjiLanguageAssumption /\ Markup!KanjiMarkupAssumption

-----------------------------------------------------------------------------
(* Properties.                                                             *)

\* What is shown is what is stored, and what the user did last is what counts.
\* Once everything has settled the screen has the rows, after failures were
\* rolled back (useUserData.ts 247), priorities that fail one after the other too,
\* but for the mutations Undisturbed excepts; the last priority that was written
\* has won (72, 304-306); the place shown is the account's (AppContext.tsx
\* 139-140, 197), but for the saves ShownPlaceIsSaved excepts, and the map does
\* not stay in the sea where it starts without a place (MapPage.tsx 536-538).  A
\* text typed while nothing was being saved is not replaced by data that come
\* late, and the save button is never stuck
\* (SchoolDetailSheet.tsx 244-259, 570-602).  The kanji learners on the screen
\* are those of the store, the next start shows the current one, no redirect is
\* pending (profileState.ts 94-212), and one visit of the form adds one
\* (ProfileEditPage.tsx 151-189); a connection that came after the fallback was
\* taken is closed (kanji store.ts 396-399).  Texts change to a language once that and
\* English are loaded, none is loaded twice at once, what a device prefers most
\* decides (decideLang.ts 28-53, I18nProvider.tsx 78-93, packs.ts 176-199), and
\* reading the marks of a text loses nothing and shows no mark (markup.ts 50-173).
ShownIsStored ==
    /\ part = "sessions" => UserDataTypeOK /\ ScreenAgreesWithRows
    /\ part = "toggles" => Toggles!ScreenAgreesWithRows
    /\ part = "priority" => Priority!LastPriorityWins /\ Priority!ScreenAgreesWithRows
    /\ part = "family" => HomeFamily!AccountsStayApart
    /\ part = "saved" => HomeSaved!ShownPlaceIsSaved
    /\ part = "map" => HomeMap!NotOverTheSea
    /\ part = "fields" => SheetFields!QuietTextSurvives
    /\ part = "saves" => Sheet!ButtonComesBack
    /\ part = "learners" => /\ Learn!ShownIsStored /\ Learn!ScreenIsStore
                            /\ Learn!NextStartAgrees
    /\ part = "starts" => /\ Starts!KanjiTypeOK /\ Starts!ShownIsStored /\ Starts!ScreenIsStore
                          /\ Starts!NextStartAgrees
    /\ part = "language" => /\ Language!KanjiLanguageTypeOK /\ Language!NoFlash
                            /\ Language!LoadedOnce /\ Language!DeviceIsHeard
    /\ part = "markup" => /\ Markup!NothingLost /\ Markup!NoMarkIsShown
                          /\ Markup!EachKanjiIsHeardOnce /\ Markup!UnlearnedGetReadings
============================================================
