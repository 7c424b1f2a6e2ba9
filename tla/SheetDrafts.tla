---------------------------- MODULE SheetDrafts ----------------------------
(***************************************************************************)
(* What a user types into the detail sheet of a school: the memo, the note *)
(* on the user's own record and a deviation value (SchoolDetailSheet.tsx), *)
(* while their data are loaded late or again, saves are in flight, the     *)
(* sheet goes from one school to another and the session changes.          *)
(*                                                                         *)
(* The user's data are those of UserData, here one record for each school; *)
(* the memo on the way to school is saved with the memo and left out.      *)
(***************************************************************************)
EXTENDS Integers, FiniteSets

CONSTANTS
    Users, Schools, None,
    Invalid,     \* a deviation value that is no number from 20 to 80
    Fields,      \* the fields the user edits, of {"memo", "mineNote", "dept"}
    MaxEdits,    \* bound: texts typed
    MaxSaves,    \* bound: saves started
    MaxLoads     \* bound: changes of the session and reloads

\* A text says who typed it at which school; quiet: typed while no save was
\* under way.
Text == [by: Users \cup {None}, at: Schools, n: 0..MaxEdits, quiet: BOOLEAN]

SheetDraftsAssumption ==
    /\ None \notin Users \cup Schools \cup Text /\ Invalid \notin Text \cup {None}
    /\ Fields \subseteq {"memo", "mineNote", "dept"}
    /\ MaxEdits \in Nat /\ MaxSaves \in Nat /\ MaxLoads \in Nat

VARIABLES
    server,      \* user |-> school |-> the stored record
    session, owner, loading, failed,  \* of useUserData; owner is dataUserId
    notes,       \* notes and mine of useUserData
    school,      \* the school the sheet shows, or None
    drafts,      \* the states of the inputs
    dirty,       \* dirtyRef: the fields that were edited
    typed,       \* history: the inputs that hold what the user typed
    saving,      \* the save button is disabled
    jobs,        \* saves that wait for an answer
    lost,        \* history: the typed texts that were replaced and not saved
    edits, saves, changes

data == <<session, owner, loading, failed, notes>>
sheet == <<school, drafts, dirty, typed, saving>>
vars == <<server, data, sheet, jobs, lost, edits, saves, changes>>

-----------------------------------------------------------------------------
(* The records.                                                            *)

AllFields == {"memo", "mineNote", "dept"}
Record == [AllFields -> Text \cup {None, Invalid}]
Blank == [f \in AllFields |-> None]

Job == [kind: {"memo", "mineNote", "dept"}, user: Users, school: Schools, id: 1..MaxSaves,
        memo: Text \cup {None}, mineNote: Text \cup {None}, dept: Text \cup {None},
        known: Text \cup {None},       \* mineRec.note of the render that saved
        prev: Text \cup {None},        \* what a failure puts back
        live: BOOLEAN]                 \* the sheet that saved is still mounted

SheetDraftsTypeOK ==
    /\ server \in [Users -> [Schools -> Record]]
    /\ {session, owner} \subseteq Users \cup {None} /\ loading \in BOOLEAN /\ failed \in BOOLEAN
    /\ notes \in [Schools -> Record]
    /\ school \in Schools \cup {None} /\ drafts \in Record /\ dirty \subseteq Fields /\ typed \subseteq Fields
    /\ saving \in BOOLEAN /\ jobs \subseteq Job /\ lost \subseteq Text
    /\ edits \in 0..MaxEdits /\ saves \in 0..MaxSaves /\ changes \in 0..MaxLoads

Nothing == [s \in Schools |-> Blank]

Stored(u, s) == [f \in AllFields |-> IF f \in Fields \ {"dept"}
                                     THEN [by |-> u, at |-> s, n |-> 0, quiet |-> TRUE] ELSE None]

Init ==
    /\ server = [u \in Users |-> [s \in Schools |-> Stored(u, s)]]
    /\ session = None /\ owner = None /\ loading = FALSE /\ failed = FALSE /\ notes = Nothing
    /\ school = None /\ drafts = Blank /\ dirty = {} /\ typed = {} /\ saving = FALSE
    /\ jobs = {} /\ lost = {} /\ edits = 0 /\ saves = 0 /\ changes = 0

-----------------------------------------------------------------------------
(* The effects of the sheet.                                               *)

\* visibleLoading and visibleNotes of useUserData.
IsLoading(u, own, ld, fl) == ld \/ (u # None /\ own # u /\ ~fl)
Loading == IsLoading(session, owner, loading, failed)
Visible(u, own, n) == IF own = u /\ u # None THEN n ELSE Nothing

\* Wrong on purpose: what was edited is filled in as well.
FilledIn(was, now, edited) == now

\* What was edited is not touched when data arrive.
Rehydrated(was, now, edited) == [f \in AllFields |-> IF f \in edited THEN was[f] ELSE now[f]]

\* A text the user typed and that is neither stored nor on its way.
Unsaved(d) == {d[f] : f \in typed} \
    ({None, Invalid} \cup {server[u][s][f] : u \in Users, s \in Schools, f \in AllFields}
                     \cup UNION {{j.memo, j.mineNote, j.dept} : j \in jobs})

\* notes, mine or loading changed while the sheet stays with its school.
DataArrive ==
    IF school = None \/ IsLoading(session', owner', loading', failed') THEN UNCHANGED <<drafts, typed, lost>>
    ELSE LET now == Rehydrated(drafts, Visible(session', owner', notes')[school], dirty') IN
         /\ drafts' = now /\ typed' = {f \in typed : now[f] = drafts[f]}
         /\ lost' = lost \cup (Unsaved(drafts) \ {now[f] : f \in AllFields})

-----------------------------------------------------------------------------
(* The user's data come and go.                                            *)

\* useUserData clears what it had and loads; the sheet empties its inputs.
ChangeSession(u) ==
    /\ u # session /\ changes < MaxLoads /\ changes' = changes + 1
    /\ session' = u /\ owner' = None /\ notes' = Nothing /\ failed' = FALSE /\ loading' = (u # None)
    /\ drafts' = Blank /\ dirty' = {} /\ typed' = {} /\ saving' = FALSE
    /\ UNCHANGED <<server, school, jobs, lost, edits, saves>>

Reload ==
    /\ session # None /\ ~loading /\ changes < MaxLoads /\ changes' = changes + 1
    /\ loading' = TRUE
    /\ UNCHANGED <<server, session, owner, failed, notes, sheet, jobs, lost, edits, saves>>

Load(ok) ==
    /\ loading /\ loading' = FALSE /\ failed' = ~ok
    /\ IF ok THEN owner' = session /\ notes' = server[session] ELSE UNCHANGED <<owner, notes>>
    /\ UNCHANGED <<session, dirty>> /\ DataArrive
    /\ UNCHANGED <<server, school, saving, jobs, edits, saves, changes>>

-----------------------------------------------------------------------------
(* The sheet.                                                              *)

\* The effect of a changed school fills every input.
Refilled(was, now, edited) == now

Open(s) ==
    /\ s # school /\ school' = s /\ dirty' = {} /\ typed' = {}
    /\ drafts' = Refilled(drafts, Visible(session, owner, notes)[s], dirty)
    /\ saving' = (school # None /\ saving)
    /\ UNCHANGED <<server, data, jobs, lost, edits, saves, changes>>

\* The sheet is unmounted.
Close ==
    /\ school # None /\ school' = None /\ drafts' = Blank /\ dirty' = {} /\ typed' = {} /\ saving' = FALSE
    /\ jobs' = {[j EXCEPT !.live = FALSE] : j \in jobs}
    /\ UNCHANGED <<server, data, lost, edits, saves, changes>>

Type(f) ==
    /\ school # None /\ edits < MaxEdits /\ edits' = edits + 1
    /\ \E t \in {[by |-> session, at |-> school, n |-> edits + 1, quiet |-> jobs = {}]} \cup
                (IF f = "dept" THEN {Invalid} ELSE {}) : drafts' = [drafts EXCEPT ![f] = t]
    /\ dirty' = dirty \cup {f} /\ typed' = typed \cup {f}
    /\ UNCHANGED <<server, data, school, saving, jobs, lost, saves, changes>>

\* Wrong on purpose: it is not asked whether the data have arrived.
SaveAtOnce == session # None

\* requireLogin, loading and loadError; useUserData refuses when not ready.
MaySave == session # None /\ ~Loading /\ ~failed

NewJob(kind, prev) ==
    [kind |-> kind, user |-> session, school |-> school, id |-> saves + 1,
     memo |-> IF kind = "dept" THEN None ELSE drafts.memo,
     mineNote |-> IF kind = "dept" THEN None ELSE drafts.mineNote,
     dept |-> IF kind = "dept" THEN drafts.dept ELSE None,
     known |-> notes[school].mineNote, prev |-> prev, live |-> TRUE]

\* handleSave up to the answer to saveNote, which shows its memo at once.
Save ==
    /\ school # None /\ ~saving /\ MaySave /\ saves < MaxSaves
    /\ saves' = saves + 1 /\ saving' = TRUE
    /\ jobs' = jobs \cup {NewJob("memo", notes[school].memo)}
    /\ notes' = [notes EXCEPT ![school].memo = drafts.memo]
    /\ UNCHANGED <<session, owner, loading, failed, dirty>> /\ DataArrive
    /\ UNCHANGED <<server, school, edits, changes>>

\* handleMineValue: on blur; the cleared value is sent as none.
SaveDept ==
    /\ school # None /\ session # None /\ owner = session /\ ~failed /\ saves < MaxSaves
    /\ drafts.dept # Invalid /\ drafts.dept # notes[school].dept
    /\ saves' = saves + 1
    /\ jobs' = jobs \cup {NewJob("dept", notes[school].dept)}
    /\ notes' = [notes EXCEPT ![school].dept = drafts.dept]
    /\ UNCHANGED <<session, owner, loading, failed, dirty, saving>> /\ DataArrive
    /\ UNCHANGED <<server, school, edits, changes>>

\* saveMineConsent changes mine, and so do other pages' mutations.
Consent ==
    /\ school # None /\ session # None /\ owner = session /\ ~failed
    /\ UNCHANGED <<data, dirty>> /\ DataArrive
    /\ UNCHANGED <<server, school, saving, jobs, edits, saves, changes>>

Ready(j) == session = j.user /\ owner = j.user

\* The finally of handleSave: whichever save the button was disabled for.
SavingAfter(j, ok) == saving /\ (j.kind = "dept" \/ ~j.live)

\* The request was refused, or its answer was lost after it was stored.
SaveFails(j) ==
    /\ j \in jobs /\ jobs' = jobs \ {j}
    /\ \E committed \in BOOLEAN :
        server' = IF committed THEN [server EXCEPT ![j.user][j.school][j.kind] = j[j.kind]] ELSE server
    /\ notes' = IF Ready(j) THEN [notes EXCEPT ![j.school][j.kind] = j.prev] ELSE notes
    /\ saving' = SavingAfter(j, FALSE)
    /\ UNCHANGED <<session, owner, loading, failed, dirty>> /\ DataArrive
    /\ UNCHANGED <<school, edits, saves, changes>>

NoteRemains(j) == j.kind = "memo" /\ j.mineNote # j.known

\* dirtyRef after a save: everything but the deviation values.
Cleaned(edited) == edited \cap {"dept"}

\* saveNote succeeds and saveMineNote is sent, unless useUserData refuses it.
SendNote(j) ==
    /\ j \in jobs /\ Ready(j) /\ NoteRemains(j)
    /\ server' = [server EXCEPT ![j.user][j.school].memo = j.memo]
    /\ jobs' = (jobs \ {j}) \cup {[j EXCEPT !.kind = "mineNote", !.prev = notes[j.school].mineNote]}
    /\ notes' = [notes EXCEPT ![j.school].mineNote = j.mineNote]
    /\ UNCHANGED <<session, owner, loading, failed, dirty, saving>> /\ DataArrive
    /\ UNCHANGED <<school, edits, saves, changes>>

\* saveNote succeeds, and saveMineNote is refused: maintenance began.
NoteRefused(j) ==
    /\ j \in jobs /\ Ready(j) /\ NoteRemains(j) /\ jobs' = jobs \ {j}
    /\ server' = [server EXCEPT ![j.user][j.school].memo = j.memo]
    /\ saving' = SavingAfter(j, TRUE)
    /\ UNCHANGED <<data, school, drafts, dirty, typed, lost, edits, saves, changes>>

\* The last request of a save succeeds.
SaveDone(j) ==
    /\ j \in jobs /\ ~(Ready(j) /\ NoteRemains(j)) /\ jobs' = jobs \ {j}
    /\ server' = [server EXCEPT ![j.user][j.school][j.kind] = j[j.kind]]
    /\ dirty' = IF Ready(j) /\ j.kind # "dept" /\ j.live THEN Cleaned(dirty) ELSE dirty
    /\ saving' = SavingAfter(j, TRUE)
    /\ UNCHANGED <<data, school, drafts, typed, lost, edits, saves, changes>>

-----------------------------------------------------------------------------
Next ==
    \/ \E u \in Users \cup {None} : ChangeSession(u)
    \/ Reload \/ \E ok \in BOOLEAN : Load(ok)
    \/ \E s \in Schools : Open(s)
    \/ Close \/ (\E f \in Fields : Type(f)) \/ Save \/ SaveDept \/ Consent
    \/ \E j \in jobs : SaveFails(j) \/ SendNote(j) \/ NoteRefused(j) \/ SaveDone(j)

Spec == Init /\ [][Next]_vars

FairSpec ==
    /\ Spec
    /\ WF_vars(\E j \in jobs : SaveFails(j) \/ SendNote(j) \/ NoteRefused(j) \/ SaveDone(j))
    /\ WF_vars(\E ok \in BOOLEAN : Load(ok))

-----------------------------------------------------------------------------
(* Properties.                                                             *)

\* A text is only ever stored for the user who typed it and at the school it
\* was typed at: neither a change of the session nor of the school carries
\* the inputs over (SchoolDetailSheet.tsx 162-231).
StoredWhereTyped ==
    \A u \in Users, s \in Schools, f \in AllFields :
        server[u][s][f] \in {None} \cup [by: {u}, at: {s}, n: 0..MaxEdits, quiet: BOOLEAN]

\* Nobody empties a text here, so no save erases a stored one: not when it was
\* pressed before the data came, nor after a failed load (244-259, 582-586).
SavesNeverErase ==
    [][\A u \in Users, s \in Schools, f \in Fields \ {"dept"} :
        server[u][s][f] # None => server'[u][s][f] # None]_vars

\* The save button is disabled only while a save is under way, whatever
\* became of the session and the school since (570-602).
ButtonComesBack == saving => \E j \in jobs : j.kind # "dept"

\* What the user typed while no save was under way is not replaced by data
\* that arrive, before it is saved, however late or often they do (244-259).
QuietTextSurvives == \A x \in lost : ~x.quiet

\* The comment says so of every text that was typed (133).
TypedTextSurvives == lost = {}
=============================================================================
