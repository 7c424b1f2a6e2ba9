--------------------------- MODULE UserDataProofs ---------------------------
(***************************************************************************)
(* What UserData keeps for every set of accounts and values, whichever     *)
(* operations are called, and however many: nothing a user wrote gets to   *)
(* another one, no deviation value is open without consent, and the        *)
(* priority that is stored is the one called last.                         *)
(*                                                                         *)
(* Every value carries its author, so the first is a matter of types: the  *)
(* screen holds values of the user whose data were loaded, what React has  *)
(* rendered those of the session if it says they are ready, a load or a    *)
(* mutation under way those of the user it was made for.                   *)
(*                                                                         *)
(* Then the place of the account (HomeLocation), the texts typed on a school's*)
(* sheet (SheetDrafts), and the learners of the kanji application (KanjiLearners).*)
(***************************************************************************)
EXTENDS UserData, SequenceTheorems, TLAPS

-----------------------------------------------------------------------------
(* Values by author.                                                       *)

Own(u) == {u} \X Values
EntryOf(u) == Own(u) \cup {None}
MineOf(u) == [value: EntryOf(u), note: EntryOf(u), submit: BOOLEAN]
ScreenOf(u) == [fav: EntryOf(u), note: EntryOf(u), mine: MineOf(u) \cup {None}]
DeptOf(u) == [value: Own(u), submit: BOOLEAN]
SentinelOf(u) == [note: EntryOf(u), submit: BOOLEAN]
RowsOf(u) == [fav: EntryOf(u), note: EntryOf(u), dept: DeptOf(u) \cup {None},
              sentinel: SentinelOf(u) \cup {None}]

Answers(u) == [type: {"rows"}, screen: ScreenOf(u)] \cup [type: {"none", "error"}]
LoadOf(u) == [user: {u}, answer: Answers(u)]
Loads == {None} \cup UNION {LoadOf(u) : u \in Users}

AnyOp == FavOps \cup NoteOps \cup MineOps
ArgOf(op, u) == IF op = "consent" THEN BOOLEAN ELSE EntryOf(u)
PrevOf(op, u) == IF op \in MineOps THEN MineOf(u) \cup {None} ELSE EntryOf(u)
Started == {"sent", "done", "failed"}
StageOf(op) == IF op = "priority" THEN Waiting \cup Settled ELSE Started \cup Settled
CallOf(op, u) ==
  [op: {op}, user: {u}, arg: ArgOf(op, u), prev: PrevOf(op, u), stage: StageOf(op),
   committed: BOOLEAN, overtaken: BOOLEAN, met: {"nothing", "call", "rollback"},
   during: {"normal", "maintenance", "loadError"}]
Calls == UNION {CallOf(op, u) : op \in AnyOp, u \in Users}

\* The inductive invariant for the authors of values.
DataInv ==
  /\ db \in [Users -> Rows] /\ \A u \in Users : db[u] \in RowsOf(u)
  /\ agreed \in [Users -> BOOLEAN]
  /\ session \in Users \cup {None} /\ effect \in BOOLEAN
  /\ loaded \in Users \cup {None} /\ failed \in Users \cup {None}
  /\ loading \in BOOLEAN /\ maintenance \in BOOLEAN
  /\ screen \in ScreenOf(loaded) /\ (loaded = None => screen = Blank)
  /\ seen \in [screen: Screen, ready: BOOLEAN]
  /\ seen.ready => seen.screen \in ScreenOf(session)
  /\ loads \in Seq(Loads) /\ calls \in Seq(Calls)

\* What is somebody's is a value.
LEMMA OwnIsTyped ==
  ASSUME NEW u \in Users
  PROVE  /\ EntryOf(u) \subseteq Entry \cup {None} /\ MineOf(u) \subseteq MineRecord
         /\ ScreenOf(u) \subseteq Screen /\ RowsOf(u) \subseteq Rows
<1>1. Own(u) \subseteq Entry /\ EntryOf(u) \subseteq Entry \cup {None}
  BY DEF Own, EntryOf, Entry
<1>2. MineOf(u) \subseteq MineRecord
  BY <1>1 DEF MineOf, MineRecord
<1>3. ScreenOf(u) \subseteq Screen
  BY <1>1, <1>2 DEF ScreenOf, Screen
<1>4. RowsOf(u) \subseteq Rows
  BY <1>1 DEF RowsOf, Rows, DeptOf, SentinelOf
<1> QED BY <1>1, <1>2, <1>3, <1>4

\* A blank screen is anybody's.
LEMMA BlankIsOwn ==
  ASSUME NEW u
  PROVE  Blank \in ScreenOf(u) /\ Blank \in Screen /\ EmptyMine \in MineOf(u)
BY DEF Blank, ScreenOf, EntryOf, Screen, EmptyMine, MineOf

\* A load shows what is in the rows.
LEMMA ShownIsOwn ==
  ASSUME NEW u, NEW r \in RowsOf(u)
  PROVE  Shown(r) \in ScreenOf(u)
<1> DEFINE value == IF r.dept = None THEN None ELSE r.dept.value
           note == IF r.sentinel = None THEN None ELSE r.sentinel.note
           submit == \E x \in {r.dept, r.sentinel} \ {None} : x.submit
           mine == IF r.dept = None /\ r.sentinel = None THEN None
                   ELSE [value |-> value, note |-> note, submit |-> submit]
<1>1. r.fav \in EntryOf(u) /\ r.note \in EntryOf(u)
  BY DEF RowsOf
<1>2. value \in EntryOf(u) /\ note \in EntryOf(u)
  BY DEF RowsOf, DeptOf, SentinelOf, EntryOf
<1>3. submit \in BOOLEAN
  OBVIOUS
<1> HIDE DEF value, note, submit
<1>4. mine \in MineOf(u) \cup {None}
  BY <1>2, <1>3 DEF MineOf
<1>5. Shown(r) = [fav |-> r.fav, note |-> r.note, mine |-> mine]
  BY Zenon DEF Shown, mine, value, note, submit
<1> HIDE DEF mine
<1> QED BY <1>1, <1>4, <1>5 DEF ScreenOf

\* Consent given or withdrawn is written to both rows, which keep the rest.
LEMMA ConsentIsOwn ==
  ASSUME NEW u, NEW submit \in BOOLEAN, NEW r \in RowsOf(u)
  PROVE  SavedConsent(r, submit) \in RowsOf(u)
<1> DEFINE dept == IF r.dept = None THEN None ELSE [r.dept EXCEPT !.submit = submit]
           sentinel == [note |-> IF r.sentinel = None THEN None ELSE r.sentinel.note,
                        submit |-> submit]
<1>1. dept \in DeptOf(u) \cup {None}
  BY DEF RowsOf, DeptOf
<1>2. sentinel \in SentinelOf(u)
  BY DEF RowsOf, SentinelOf, EntryOf
<1>3. SavedConsent(r, submit) = [r EXCEPT !.dept = dept, !.sentinel = sentinel]
  BY DEF SavedConsent
<1> HIDE DEF dept, sentinel
<1> QED BY <1>1, <1>2, <1>3 DEF RowsOf

\* A request writes values of its own user.
LEMMA WrittenIsOwn ==
  ASSUME NEW u, NEW op \in AnyOp, NEW arg \in ArgOf(op, u), NEW r \in RowsOf(u)
  PROVE  Written(r, op, arg) \in RowsOf(u)
<1>0. /\ r.fav \in EntryOf(u) /\ r.note \in EntryOf(u) /\ r.dept \in DeptOf(u) \cup {None}
      /\ r.sentinel \in SentinelOf(u) \cup {None}
      /\ None \in EntryOf(u)
  BY DEF RowsOf, EntryOf
<1>1. op # "consent" => arg \in EntryOf(u)
  BY DEF ArgOf
<1>2. CASE op \in {"add", "remove", "priority", "note", "noteDelete", "mineDelete"}
  BY <1>0, <1>1, <1>2 DEF Written, RowsOf
<1>3. CASE op = "value"
  <2> DEFINE dept == IF arg = None THEN None
                     ELSE [value |-> arg, submit |-> KeptVisibility(r.dept)]
  <2>1. Written(r, op, arg) = [r EXCEPT !.dept = dept]
    BY <1>3 DEF Written
  <2>2. KeptVisibility(r.dept) \in BOOLEAN
    BY <1>0 DEF KeptVisibility, DeptOf
  <2>3. dept \in DeptOf(u) \cup {None}
    BY <1>1, <1>3, <2>2 DEF DeptOf, EntryOf
  <2> HIDE DEF dept
  <2> QED BY <2>1, <2>3 DEF RowsOf
<1>4. CASE op = "mineNote"
  <2> DEFINE sentinel == [note |-> arg, submit |-> KeptVisibility(r.sentinel)]
  <2>1. Written(r, op, arg) = [r EXCEPT !.sentinel = sentinel]
    BY <1>4 DEF Written
  <2>2. KeptVisibility(r.sentinel) \in BOOLEAN
    BY <1>0 DEF KeptVisibility, SentinelOf
  <2>3. sentinel \in SentinelOf(u) \cup {None}
    BY <1>1, <1>4, <2>2 DEF SentinelOf
  <2> HIDE DEF sentinel
  <2> QED BY <2>1, <2>3 DEF RowsOf
<1>5. CASE op = "consent"
  <2>1. arg \in BOOLEAN
    BY <1>5 DEF ArgOf
  <2>2. SavedConsent(r, arg) \in RowsOf(u)
    BY <2>1, ConsentIsOwn
  <2> QED BY <1>5, <2>2 DEF Written
<1> QED BY <1>2, <1>3, <1>4, <1>5 DEF AnyOp, FavOps, NoteOps, MineOps

\* A call is made of what its operation and its user say.
LEMMA CallIs ==
  ASSUME NEW c \in Calls
  PROVE  c.op \in AnyOp /\ c.user \in Users /\ c \in CallOf(c.op, c.user)
<1>1. PICK op \in AnyOp, u \in Users : c \in CallOf(op, u)
  BY DEF Calls
<1> QED BY <1>1 DEF CallOf

\* Its argument, and the record before it, are its user's.
LEMMA CallIsOwn ==
  ASSUME NEW c \in Calls
  PROVE  c.arg \in ArgOf(c.op, c.user) /\ c.prev \in PrevOf(c.op, c.user)
<1>1. c \in CallOf(c.op, c.user)
  BY CallIs
<1> QED BY <1>1 DEF CallOf

\* What becomes of a call does not change what it was called with.
LEMMA CallGoesOn ==
  ASSUME NEW c \in Calls
  PROVE  /\ \A s \in Started \cup Settled : [c EXCEPT !.stage = s] \in Calls
         /\ \A s \in Started \cup Settled : [c EXCEPT !.stage = s, !.committed = TRUE] \in Calls
         /\ [c EXCEPT !.overtaken = TRUE] \in Calls
         /\ \A s \in Started \cup Settled, d \in {"normal", "maintenance", "loadError"},
               p \in PrevOf(c.op, c.user), m \in {"nothing", "call", "rollback"} :
              [c EXCEPT !.stage = s, !.during = d, !.prev = p, !.met = m] \in Calls
<1>1. c.op \in AnyOp /\ c.user \in Users /\ c \in CallOf(c.op, c.user)
  BY CallIs
<1> DEFINE op == c.op
           u == c.user
<1>2. c \in CallOf(op, u)
  BY <1>1
<1>3. op \in AnyOp /\ u \in Users
  BY <1>1
<1> HIDE DEF op, u
<1>4. CallOf(op, u) \subseteq Calls
  BY <1>3 DEF Calls
<1>s. \A s \in Started \cup Settled : s \in StageOf(op)
  BY DEF StageOf, Started, Waiting
<1>5. \A s \in Started \cup Settled : [c EXCEPT !.stage = s] \in CallOf(op, u)
  BY <1>2, <1>s DEF CallOf
<1>6. \A s \in Started \cup Settled : [c EXCEPT !.stage = s, !.committed = TRUE] \in CallOf(op, u)
  BY <1>2, <1>s DEF CallOf
<1>7. [c EXCEPT !.overtaken = TRUE] \in CallOf(op, u)
  BY <1>2, <1>s DEF CallOf
<1>8. \A s \in Started \cup Settled, d \in {"normal", "maintenance", "loadError"}, p \in PrevOf(op, u),
      m \in {"nothing", "call", "rollback"} :
        [c EXCEPT !.stage = s, !.during = d, !.prev = p, !.met = m] \in CallOf(op, u)
  BY <1>2, <1>s DEF CallOf
<1>9. PrevOf(c.op, c.user) = PrevOf(op, u)
  BY DEF op, u
<1> QED BY <1>4, <1>5, <1>6, <1>7, <1>8, <1>9

\* A load is nothing any more, or is for its user.
LEMMA LoadIs ==
  ASSUME NEW l \in Loads, l # None
  PROVE  l.user \in Users /\ l \in LoadOf(l.user) /\ l.answer \in Answers(l.user)
<1>1. PICK u \in Users : l \in LoadOf(u)
  BY DEF Loads
<1>2. l.user = u
  BY <1>1 DEF LoadOf
<1> QED BY <1>1, <1>2 DEF LoadOf

\* The positions of a sequence.
LEMMA Positions ==
  ASSUME NEW S, NEW s \in Seq(S)
  PROVE  /\ DOMAIN s = 1..Len(s) /\ Len(s) \in Nat
         /\ \A i \in DOMAIN s : s[i] \in S
BY LenProperties, ElementOfSeq

\* A call is one of those that were made.
LEMMA CallAt ==
  ASSUME DataInv, NEW i \in DOMAIN calls
  PROVE  calls[i] \in Calls /\ i \in 1..Len(calls)
BY Positions DEF DataInv

\* One call goes on, the others stay.
LEMMA OneCall ==
  ASSUME DataInv, NEW i \in DOMAIN calls, NEW c \in Calls
  PROVE  [calls EXCEPT ![i] = c] \in Seq(Calls)
BY CallAt, ExceptSeq DEF DataInv

\* A load under way marks calls, and marks nothing else.
LEMMA OvertakenCalls ==
  ASSUME DataInv, NEW u
  PROVE  Overtaken(u) \in Seq(Calls)
<1>1. calls \in Seq(Calls) /\ DOMAIN calls = 1..Len(calls) /\ Len(calls) \in Nat
  BY Positions DEF DataInv
<1>2. \A i \in DOMAIN calls : calls[i] \in Calls /\ [calls[i] EXCEPT !.overtaken = TRUE] \in Calls
  BY CallAt, CallGoesOn
<1>3. Overtaken(u) \in [1..Len(calls) -> Calls]
  BY <1>1, <1>2 DEF Overtaken
<1> QED BY <1>1, <1>3, SeqDef

-----------------------------------------------------------------------------
(* Values stay with their author.                                          *)

LEMMA InitDataInv == UserDataAssumption /\ Init => DataInv
<1> SUFFICES ASSUME UserDataAssumption, Init
             PROVE  DataInv
  OBVIOUS
<1>1. \A u \in Users : db[u] \in RowsOf(u)
  <2>1. PICK fans \in SUBSET Users :
          db = [u \in Users |-> [fav |-> IF u \in fans THEN <<u, DefaultPriority>> ELSE None,
                                 note |-> None, dept |-> None, sentinel |-> None]]
    BY DEF Init
  <2>2. \A u \in Users : <<u, DefaultPriority>> \in Own(u)
    BY DEF Own, UserDataAssumption
  <2> QED BY <2>1, <2>2 DEF RowsOf, EntryOf
<1>2. db \in [Users -> Rows]
  <2>1. \A u \in Users : db[u] \in Rows
    BY <1>1, OwnIsTyped
  <2>2. \E fans \in SUBSET Users :
          db = [u \in Users |-> [fav |-> IF u \in fans THEN <<u, DefaultPriority>> ELSE None,
                                 note |-> None, dept |-> None, sentinel |-> None]]
    BY DEF Init
  <2> QED BY <2>1, <2>2
<1>3. screen \in ScreenOf(loaded) /\ seen \in [screen: Screen, ready: BOOLEAN]
      /\ seen.screen \in ScreenOf(session)
  BY BlankIsOwn DEF Init
<1>4. loads \in Seq(Loads) /\ calls \in Seq(Calls)
  BY EmptySeq DEF Init
<1> QED BY <1>1, <1>2, <1>3, <1>4 DEF Init, DataInv

LEMMA ChangeSessionData ==
  ASSUME DataInv, NEW u \in Users \cup {None}, ChangeSession(u)
  PROVE  DataInv'
<1>1. screen \in Screen
  BY OwnIsTyped, BlankIsOwn DEF DataInv
<1>2. seen' \in [screen: Screen, ready: BOOLEAN] /\ (seen'.ready => seen'.screen \in ScreenOf(session'))
  BY <1>1 DEF DataInv, ChangeSession
<1> QED BY <1>2 DEF DataInv, ChangeSession, tables

\* What is rendered as ready was loaded for the session.
LEMMA RenderedData ==
  ASSUME DataInv
  PROVE  /\ Rendered \in [screen: Screen, ready: BOOLEAN]
         /\ Rendered.ready => Rendered.screen \in ScreenOf(session)
<1>1. screen \in Screen
  BY OwnIsTyped, BlankIsOwn DEF DataInv
<1> QED BY <1>1 DEF DataInv, Rendered

LEMMA RenderData ==
  ASSUME DataInv, Render
  PROVE  DataInv'
BY RenderedData DEF DataInv, Render, tables, tab

LEMMA LoadDataData ==
  ASSUME DataInv, LoadData, effect' \in BOOLEAN
  PROVE  DataInv'
<1>1. calls' \in Seq(Calls)
  BY OvertakenCalls DEF LoadData
<1>2. loads' \in Seq(Loads)
  <2> DEFINE l == IF session = None THEN None ELSE [user |-> session, answer |-> [type |-> "none"]]
  <2>1. l \in Loads
    <3>1. CASE session = None
      BY <3>1 DEF Loads
    <3>2. CASE session # None
      <4>1. session \in Users /\ l = [user |-> session, answer |-> [type |-> "none"]]
        BY <3>2 DEF DataInv
      <4>2. l \in LoadOf(session)
        BY <4>1 DEF LoadOf, Answers
      <4> QED BY <4>1, <4>2 DEF Loads
    <3> QED BY <3>1, <3>2
  <2>2. loads' = Append(loads, l)
    BY DEF LoadData
  <2> HIDE DEF l
  <2> QED BY <2>1, <2>2, AppendProperties DEF DataInv
<1>3. screen' \in ScreenOf(loaded') /\ (loaded' = None => screen' = Blank)
      /\ loaded' \in Users \cup {None} /\ failed' \in Users \cup {None}
  BY BlankIsOwn DEF DataInv, LoadData
<1>4. loading' \in BOOLEAN
  BY DEF LoadData
<1> QED BY <1>1, <1>2, <1>3, <1>4 DEF DataInv, LoadData, tables

LEMMA EffectData ==
  ASSUME DataInv, Effect
  PROVE  DataInv'
BY LoadDataData DEF Effect

LEMMA ReloadData ==
  ASSUME DataInv, Reload
  PROVE  DataInv'
BY LoadDataData DEF Reload, DataInv

\* A load reads the rows of its own user.
LEMMA LoadAnsweredData ==
  ASSUME DataInv, NEW g \in DOMAIN loads, LoadAnswered(g)
  PROVE  DataInv'
<1>1. loads[g] \in Loads /\ g \in 1..Len(loads) /\ loads[g] # None
  BY Positions DEF DataInv, LoadAnswered
<1> DEFINE l == loads[g]
           u == l.user
<1>2. u \in Users /\ l \in LoadOf(u)
  BY <1>1, LoadIs
<1>3. PICK a \in {[type |-> "error"], [type |-> "rows", screen |-> Shown(db[u])]} :
        loads' = [loads EXCEPT ![g].answer = a]
  BY DEF LoadAnswered
<1>4. Shown(db[u]) \in ScreenOf(u)
  BY <1>2, ShownIsOwn DEF DataInv
<1>5. a \in Answers(u)
  BY <1>3, <1>4 DEF Answers
<1> HIDE DEF u
<1>6. [l EXCEPT !.answer = a] \in LoadOf(u)
  BY <1>2, <1>5 DEF LoadOf
<1>7. [l EXCEPT !.answer = a] \in Loads
  BY <1>2, <1>6 DEF Loads
<1>8. loads' \in Seq(Loads)
  <2>1. loads' = [loads EXCEPT ![g] = [l EXCEPT !.answer = a]]
    BY <1>3
  <2> HIDE DEF l
  <2> QED BY <1>1, <1>7, <2>1, ExceptSeq DEF DataInv
<1> QED BY <1>8 DEF DataInv, LoadAnswered, tables

\* Its answer is shown while its user is there.
LEMMA LoadReturnsData ==
  ASSUME UserDataAssumption, DataInv, NEW g \in DOMAIN loads, LoadReturns(g)
  PROVE  DataInv'
<1>1. loads[g] \in Loads /\ g \in 1..Len(loads) /\ loads[g] # None
  BY Positions DEF DataInv, LoadReturns
<1>2. loads[g].user \in Users /\ loads[g].answer \in Answers(loads[g].user)
  BY <1>1, LoadIs
<1>3. loads' \in Seq(Loads)
  <2>1. None \in Loads
    BY DEF Loads
  <2> QED BY <1>1, <2>1, ExceptSeq DEF DataInv, LoadReturns
<1>4. loads[g].answer.type \notin {"error", "none"} => loads[g].answer.screen \in ScreenOf(loads[g].user)
  BY <1>2 DEF Answers
<1>5. /\ screen' \in ScreenOf(loaded') /\ (loaded' = None => screen' = Blank)
      /\ loaded' \in Users \cup {None} /\ failed' \in Users \cup {None} /\ loading' \in BOOLEAN
  <2>1. CASE ~Counts(g)
    BY <2>1 DEF DataInv, LoadReturns
  <2>2. CASE Counts(g) /\ loads[g].answer.type = "error"
    BY <1>2, <2>2 DEF DataInv, LoadReturns
  <2>3. CASE Counts(g) /\ loads[g].answer.type # "error"
    <3>1. screen' = loads[g].answer.screen /\ loaded' = loads[g].user /\ failed' = None /\ loading' = FALSE
      BY <2>3 DEF LoadReturns
    <3>2. loads[g].answer.type # "none"
      BY DEF LoadReturns
    <3>3. screen' \in ScreenOf(loaded')
      BY <1>4, <2>3, <3>1, <3>2
    <3>4. loaded' \in Users
      BY <1>2, <3>1
    <3> QED BY <3>1, <3>3, <3>4 DEF UserDataAssumption
  <2> QED BY <2>1, <2>2, <2>3
<1> QED BY <1>3, <1>5 DEF DataInv, LoadReturns, tables

LEMMA SwitchMaintenanceData ==
  ASSUME DataInv, SwitchMaintenance
  PROVE  DataInv'
BY DEF DataInv, SwitchMaintenance, tables, tab

\* A value of the user whose data are loaded is put on the screen.
LEMMA ShowData ==
  ASSUME UserDataAssumption, DataInv, NEW op \in AnyOp, NEW value, loaded \in Users, Show(op, value),
         op \in MineOps => value \in MineOf(loaded) \cup {None},
         op \notin MineOps => value \in EntryOf(loaded)
  PROVE  screen' \in ScreenOf(loaded) /\ loaded # None
<1>1. screen' = [screen EXCEPT ![CellOf(op)] = value] /\ screen \in ScreenOf(loaded)
  BY DEF Show, DataInv
<1>2. CASE op \in FavOps
  BY <1>1, <1>2 DEF CellOf, ScreenOf, FavOps, MineOps, UserDataAssumption
<1>3. CASE op \in NoteOps
  BY <1>1, <1>3 DEF CellOf, ScreenOf, FavOps, NoteOps, MineOps, UserDataAssumption
<1>4. CASE op \in MineOps
  BY <1>1, <1>4 DEF CellOf, ScreenOf, FavOps, NoteOps, MineOps, UserDataAssumption
<1> QED BY <1>2, <1>3, <1>4 DEF AnyOp

\* What a user's call shows at once is made of his record and his input.
LEMMA OptimisticIsOwn ==
  ASSUME NEW u, NEW op \in AnyOp, NEW arg \in ArgOf(op, u), NEW prev \in PrevOf(op, u)
  PROVE  /\ op \in MineOps => Optimistic(op, arg, prev) \in MineOf(u) \cup {None}
         /\ op \notin MineOps => Optimistic(op, arg, prev) \in EntryOf(u)
<1>0. None \in EntryOf(u)
  BY DEF EntryOf
<1>1. CASE op \notin MineOps
  <2>1. arg \in EntryOf(u)
    BY <1>1 DEF ArgOf, MineOps
  <2> QED BY <1>0, <1>1, <2>1 DEF Optimistic, AnyOp, FavOps, NoteOps
<1>2. CASE op \in MineOps
  <2> DEFINE mine == IF prev = None THEN EmptyMine ELSE prev
  <2>1. mine \in MineOf(u)
    BY <1>2, BlankIsOwn DEF PrevOf
  <2> HIDE DEF mine
  <2>2. op # "consent" => arg \in EntryOf(u)
    BY DEF ArgOf
  <2>3. op = "consent" => arg \in BOOLEAN
    BY DEF ArgOf
  <2>4. op = "value" => [mine EXCEPT !.value = arg] \in MineOf(u)
    BY <2>1, <2>2 DEF MineOf
  <2>5. op = "mineNote" => [mine EXCEPT !.note = arg] \in MineOf(u)
    BY <2>1, <2>2 DEF MineOf
  <2>6. op = "consent" => [mine EXCEPT !.submit = arg] \in MineOf(u)
    BY <2>1, <2>3 DEF MineOf
  <2>7. /\ op = "value" => Optimistic(op, arg, prev) = [mine EXCEPT !.value = arg]
        /\ op = "mineNote" => Optimistic(op, arg, prev) = [mine EXCEPT !.note = arg]
        /\ op = "consent" => Optimistic(op, arg, prev) = [mine EXCEPT !.submit = arg]
        /\ op = "mineDelete" => Optimistic(op, arg, prev) = None
    BY DEF Optimistic, mine
  <2> QED BY <1>2, <2>4, <2>5, <2>6, <2>7 DEF MineOps
<1> QED BY <1>1, <1>2

\* The record as it was rendered, when it is the session's.
LEMMA PrevIsOwn ==
  ASSUME NEW u, NEW s \in ScreenOf(u), NEW op \in AnyOp
  PROVE  s[CellOf(op)] \in PrevOf(op, u)
<1>1. CASE op \in FavOps
  BY <1>1 DEF CellOf, ScreenOf, PrevOf, FavOps, MineOps
<1>2. CASE op \in NoteOps
  BY <1>2 DEF CellOf, ScreenOf, PrevOf, FavOps, NoteOps, MineOps
<1>3. CASE op \in MineOps
  BY <1>3 DEF CellOf, ScreenOf, PrevOf, FavOps, NoteOps, MineOps
<1> QED BY <1>1, <1>2, <1>3 DEF AnyOp

LEMMA SendData ==
  ASSUME UserDataAssumption, DataInv, NEW op \in AnyOp, NEW arg, arg \in ArgOf(op, session), Send(op, arg)
  PROVE  DataInv'
<1> DEFINE prev == seen.screen[CellOf(op)]
           c == [op |-> op, user |-> session, arg |-> arg, prev |-> prev, stage |-> "sent",
                 committed |-> FALSE, overtaken |-> LoadInFlight(session), met |-> Met(op, prev),
                 during |-> During]
<1>1. session \in Users /\ loaded = session /\ seen.ready /\ seen.screen \in ScreenOf(session)
  BY DEF DataInv, Send, Blocked, ReadyFor
<1>2. prev \in PrevOf(op, session)
  BY <1>1, PrevIsOwn
<1>3. /\ During \in {"normal", "maintenance", "loadError"} /\ LoadInFlight(session) \in BOOLEAN
      /\ Met(op, prev) \in {"nothing", "call", "rollback"}
  BY DEF During, LoadInFlight, Met
<1>4. c \in Calls
  <2>1. c \in CallOf(op, session)
    BY <1>2, <1>3 DEF CallOf, StageOf, Started, Waiting
  <2> QED BY <1>1, <2>1 DEF Calls
<1>5. calls' \in Seq(Calls)
  <2>1. calls' = Append(calls, c)
    BY DEF Send
  <2> HIDE DEF c
  <2> QED BY <1>4, <2>1, AppendProperties DEF DataInv
<1>6. screen' \in ScreenOf(loaded) /\ loaded # None
  <2>1. Show(op, Optimistic(op, arg, prev))
    BY DEF Send
  <2> HIDE DEF prev
  <2>2. /\ op \in MineOps => Optimistic(op, arg, prev) \in MineOf(loaded) \cup {None}
        /\ op \notin MineOps => Optimistic(op, arg, prev) \in EntryOf(loaded)
    BY <1>1, <1>2, OptimisticIsOwn
  <2> QED BY <1>1, <2>1, <2>2, ShowData
<1>7. seen' \in [screen: Screen, ready: BOOLEAN] /\ seen'.screen \in ScreenOf(session)
  BY <1>1, <1>6, OwnIsTyped DEF Send
<1> QED BY <1>5, <1>6, <1>7 DEF DataInv, Send, tables, tab

\* Whatever the user calls is called for himself.
LEMMA MutateData ==
  ASSUME UserDataAssumption, DataInv, Mutate
  PROVE  DataInv'
<1>0. \A op \in {"remove", "noteDelete", "mineDelete", "value"} : op \in AnyOp /\ None \in ArgOf(op, session)
  BY DEF AnyOp, FavOps, NoteOps, MineOps, ArgOf, EntryOf
<1>1. \A op \in {"add", "note", "value", "mineNote"}, v \in Values :
        op \in AnyOp /\ <<session, v>> \in ArgOf(op, session)
  BY DEF AnyOp, FavOps, NoteOps, MineOps, ArgOf, EntryOf, Own
<1>2. "consent" \in AnyOp /\ BOOLEAN = ArgOf("consent", session)
  BY DEF AnyOp, MineOps, ArgOf
<1>3. CASE ToggleFavorite
  <2>1. DefaultPriority \in Values
    BY DEF UserDataAssumption
  <2> QED BY <1>0, <1>1, <1>3, <2>1, SendData DEF ToggleFavorite
<1>4. CASE SaveNote
  BY <1>1, <1>4, SendData DEF SaveNote
<1>5. CASE DeleteNote
  BY <1>0, <1>5, SendData DEF DeleteNote
<1>6. CASE SaveMineValue
  BY <1>0, <1>1, <1>6, SendData DEF SaveMineValue
<1>7. CASE SaveMineNote
  BY <1>1, <1>7, SendData DEF SaveMineNote
<1>8. CASE SaveMineConsent
  BY <1>2, <1>8, SendData DEF SaveMineConsent
<1>9. CASE DeleteMine
  BY <1>0, <1>9, SendData DEF DeleteMine
<1>10. CASE SetPriority
  <2>1. PICK v \in Values :
        calls' = Append(calls, [op |-> "priority", user |-> session, arg |-> <<session, v>>,
                                prev |-> None, stage |-> "queued", committed |-> FALSE,
                                overtaken |-> LoadInFlight(session), met |-> "nothing",
                                during |-> "normal"])
    BY <1>10 DEF SetPriority
  <2> DEFINE c == [op |-> "priority", user |-> session, arg |-> <<session, v>>,
                   prev |-> None, stage |-> "queued", committed |-> FALSE,
                   overtaken |-> LoadInFlight(session), met |-> "nothing",
                   during |-> "normal"]
  <2>2. session \in Users /\ LoadInFlight(session) \in BOOLEAN
    BY <1>10 DEF DataInv, SetPriority, Blocked, LoadInFlight
  <2>3. c \in CallOf("priority", session)
    BY <2>2 DEF CallOf, StageOf, ArgOf, PrevOf, EntryOf, Own, MineOps, Waiting
  <2>4. c \in Calls
    BY <2>2, <2>3 DEF Calls, AnyOp, FavOps
  <2>5. calls' \in Seq(Calls)
    <3>1. calls' = Append(calls, c)
      BY <2>1
    <3> HIDE DEF c
    <3> QED BY <2>4, <3>1, AppendProperties DEF DataInv
  <2> QED BY <1>10, <2>5 DEF DataInv, SetPriority, tables, tab
<1> QED BY <1>3, <1>4, <1>5, <1>6, <1>7, <1>8, <1>9, <1>10 DEF Mutate

\* A queued priority starts on the screen of its own user.
LEMMA StartPriorityData ==
  ASSUME UserDataAssumption, DataInv, NEW i \in DOMAIN calls, StartPriority(i)
  PROVE  DataInv'
<1> DEFINE c == calls[i]
<1>1. c \in Calls /\ c.user \in Users /\ c.op \in AnyOp /\ c.arg \in ArgOf(c.op, c.user)
  BY CallAt, CallIs, CallIsOwn
<1>p. c.op = "priority"
  <2>1. c \in CallOf(c.op, c.user) /\ c.stage = "queued"
    BY CallAt, CallIs DEF StartPriority
  <2> QED BY <2>1 DEF CallOf, StageOf, Started, Settled
<1>2. CASE ReadyFor(c.user)
  <2>1. loaded = c.user /\ session = c.user /\ seen.screen \in ScreenOf(c.user)
    BY <1>2 DEF ReadyFor, DataInv
  <2>2. Show("priority", c.arg) /\ c.arg \in EntryOf(loaded)
    BY <1>1, <1>p, <1>2, <2>1 DEF StartPriority, ArgOf
  <2>3. screen' \in ScreenOf(loaded) /\ loaded # None
    BY <1>1, <2>1, <2>2, ShowData DEF AnyOp, FavOps, MineOps
  <2>4. /\ During \in {"normal", "maintenance", "loadError"} /\ seen.screen.fav \in PrevOf(c.op, c.user)
        /\ Met("priority", seen.screen.fav) \in {"nothing", "call", "rollback"}
    BY <1>p, <2>1 DEF Met, During, ScreenOf, PrevOf, MineOps
  <2>5. [c EXCEPT !.stage = "sent", !.during = During, !.prev = seen.screen.fav,
                                !.met = Met("priority", seen.screen.fav)] \in Calls
    BY <1>1, <2>4, CallGoesOn DEF Started
  <2>6. calls' = [calls EXCEPT ![i] = [c EXCEPT !.stage = "sent", !.during = During,
                                                !.prev = seen.screen.fav,
                                                !.met = Met("priority", seen.screen.fav)]]
    BY <1>2, CallAt DEF StartPriority
  <2>7. calls' \in Seq(Calls)
    <3> DEFINE next == [c EXCEPT !.stage = "sent", !.during = During, !.prev = seen.screen.fav,
                                !.met = Met("priority", seen.screen.fav)]
    <3>1. next \in Calls /\ calls' = [calls EXCEPT ![i] = next]
      BY <2>5, <2>6
    <3> HIDE DEF next, c
    <3> QED BY <3>1, OneCall
  <2> QED BY <2>3, <2>7 DEF DataInv, StartPriority, tables, tab
<1>3. CASE ~ReadyFor(c.user)
  <2>1. calls' = [calls EXCEPT ![i] = [c EXCEPT !.stage = "blocked"]] /\ UNCHANGED screen
    BY <1>3 DEF StartPriority
  <2>2. [c EXCEPT !.stage = "blocked"] \in Calls
    BY <1>1, CallGoesOn DEF Settled
  <2>3. calls' \in Seq(Calls)
    BY <2>1, <2>2, OneCall
  <2> QED BY <2>1, <2>3 DEF DataInv, StartPriority, tables, tab
<1> QED BY <1>2, <1>3

\* The rows of one user are written, with his values.
LEMMA RowsOfOne ==
  ASSUME DataInv, NEW u \in Users, NEW r \in RowsOf(u), db' = [db EXCEPT ![u] = r]
  PROVE  db' \in [Users -> Rows] /\ \A x \in Users : db'[x] \in RowsOf(x)
<1>1. r \in Rows
  BY OwnIsTyped
<1>2. db' \in [Users -> Rows] /\ db'[u] = r /\ \A x \in Users \ {u} : db'[x] = db[x]
  BY <1>1 DEF DataInv
<1> QED BY <1>2 DEF DataInv

LEMMA CommitData ==
  ASSUME DataInv, NEW i \in DOMAIN calls, Commit(i)
  PROVE  DataInv'
<1> DEFINE c == calls[i]
<1>1. c \in Calls /\ c.user \in Users /\ c.op \in AnyOp /\ c.arg \in ArgOf(c.op, c.user)
  BY CallAt, CallIs, CallIsOwn
<1>2. db' = [db EXCEPT ![c.user] = Written(db[c.user], c.op, c.arg)]
  BY DEF Commit
<1>3. Written(db[c.user], c.op, c.arg) \in RowsOf(c.user)
  BY <1>1, WrittenIsOwn DEF DataInv
<1>4. db' \in [Users -> Rows] /\ \A x \in Users : db'[x] \in RowsOf(x)
  BY <1>1, <1>2, <1>3, RowsOfOne
<1>5. agreed' \in [Users -> BOOLEAN]
  <2>1. c.op = "consent" => c.arg \in BOOLEAN
    BY <1>1 DEF ArgOf
  <2> QED BY <1>1, <2>1 DEF Commit, DataInv
<1>6. PICK s \in {"done", "failed"} : calls' = [calls EXCEPT ![i].stage = s, ![i].committed = TRUE]
  BY DEF Commit
<1>7. [c EXCEPT !.stage = s, !.committed = TRUE] \in Calls
  BY <1>1, CallGoesOn DEF Started
<1>8. calls' \in Seq(Calls)
  <2> DEFINE next == [c EXCEPT !.stage = s, !.committed = TRUE]
  <2>1. calls' = [calls EXCEPT ![i] = next]
    BY <1>6, CallAt
  <2>2. next \in Calls
    BY <1>7
  <2> HIDE DEF next, c
  <2> QED BY <2>1, <2>2, OneCall
<1> QED BY <1>4, <1>5, <1>8 DEF DataInv, Commit, tab

LEMMA RefuseData ==
  ASSUME DataInv, NEW i \in DOMAIN calls, Refuse(i)
  PROVE  DataInv'
<1>1. [calls[i] EXCEPT !.stage = "failed"] \in Calls
  BY CallAt, CallGoesOn DEF Started
<1>2. calls' \in Seq(Calls)
  BY <1>1, OneCall DEF Refuse
<1> QED BY <1>2 DEF DataInv, Refuse, tables, tab

\* What is put back was his who sees it.
LEMMA AnswerData ==
  ASSUME UserDataAssumption, DataInv, NEW i \in DOMAIN calls, Answer(i)
  PROVE  DataInv'
<1> DEFINE c == calls[i]
<1>1. c \in Calls /\ c.user \in Users /\ c.op \in AnyOp /\ c.prev \in PrevOf(c.op, c.user)
  BY CallAt, CallIs, CallIsOwn
<1>2. calls' \in Seq(Calls)
  <2>1. \A s \in Settled : [c EXCEPT !.stage = s] \in Calls
    BY <1>1, CallGoesOn
  <2>2. PICK s \in Settled : calls' = [calls EXCEPT ![i] = [c EXCEPT !.stage = s]]
    BY DEF Answer, Settled
  <2> QED BY <2>1, <2>2, OneCall
<1>3. screen' \in ScreenOf(loaded) /\ (loaded = None => screen' = Blank)
  <2>1. CASE UNCHANGED screen
    BY <2>1 DEF DataInv
  <2>2. CASE Show(c.op, c.prev) /\ MayRollback(c.user)
    <3>1. loaded = c.user
      BY <2>2 DEF MayRollback, ReadyFor
    <3> HIDE DEF c
    <3>2. /\ c.op \in MineOps => c.prev \in MineOf(loaded) \cup {None}
          /\ c.op \notin MineOps => c.prev \in EntryOf(loaded)
      BY <1>1, <3>1 DEF PrevOf
    <3> QED BY <1>1, <2>2, <3>1, <3>2, ShowData
  <2> QED BY <2>1, <2>2 DEF Answer
<1> QED BY <1>2, <1>3 DEF DataInv, Answer, tables, tab

LEMMA OtherTabData ==
  ASSUME DataInv, NEW u \in Users, OtherTab(u)
  PROVE  DataInv'
<1>1. PICK submit \in BOOLEAN : /\ db' = [db EXCEPT ![u] = SavedConsent(@, submit)]
                                /\ agreed' = [agreed EXCEPT ![u] = submit]
  BY DEF OtherTab
<1>2. SavedConsent(db[u], submit) \in RowsOf(u)
  BY ConsentIsOwn DEF DataInv
<1>3. db' \in [Users -> Rows] /\ \A x \in Users : db'[x] \in RowsOf(x)
  BY <1>1, <1>2, RowsOfOne
<1>4. agreed' \in [Users -> BOOLEAN]
  BY <1>1 DEF DataInv
<1> QED BY <1>3, <1>4 DEF DataInv, OtherTab, tab

\* Whichever step the tab, the database or the user takes.
LEMMA NextData == UserDataAssumption /\ DataInv /\ [Next]_vars => DataInv'
<1> SUFFICES ASSUME UserDataAssumption, DataInv, [Next]_vars
             PROVE  DataInv'
  OBVIOUS
<1>1. CASE Mutate
  BY <1>1, MutateData
<1>2. CASE Loading
  BY <1>2, EffectData, LoadAnsweredData, LoadReturnsData DEF Loading
<1>3. CASE Answering
  BY <1>3, StartPriorityData, CommitData, RefuseData, AnswerData DEF Answering
<1>4. CASE Render
  BY <1>4, RenderData
<1>5. CASE Environment
  BY <1>5, ChangeSessionData, OtherTabData, ReloadData, SwitchMaintenanceData DEF Environment
<1>6. CASE UNCHANGED vars
  BY <1>6 DEF vars, tables, tab, DataInv
<1> QED BY <1>1, <1>2, <1>3, <1>4, <1>5, <1>6 DEF Next

LEMMA SpecData == UserDataAssumption => (Spec => []DataInv)
<1> SUFFICES ASSUME UserDataAssumption
             PROVE  Spec => []DataInv
  OBVIOUS
<1>1. Init => DataInv
  BY InitDataInv
<1>2. DataInv /\ [Next]_vars => DataInv'
  BY NextData
<1> QED BY <1>1, <1>2, PTL DEF Spec

\* Whatever is in flight and in whichever order it lands, the hook's state,
\* the tables and the calls keep their types.
LEMMA TypeCorrect == UserDataAssumption => (Spec => []UserDataTypeOK)
<1>1. ASSUME DataInv
      PROVE  UserDataTypeOK
  <2>1. screen \in Screen
    BY <1>1, OwnIsTyped, BlankIsOwn DEF DataInv
  <2>2. ASSUME NEW g \in DOMAIN loads
        PROVE  loads[g] \in Load \cup {None}
    <3>1. loads[g] \in Loads
      BY <1>1, <2>2, Positions DEF DataInv
    <3>2. CASE loads[g] # None
      <4>1. loads[g].user \in Users /\ loads[g] \in LoadOf(loads[g].user)
        BY <3>1, <3>2, LoadIs
      <4>2. ScreenOf(loads[g].user) \subseteq Screen
        BY <4>1, OwnIsTyped
      <4> QED BY <4>1, <4>2 DEF LoadOf, Answers, Load
    <3> QED BY <3>1, <3>2
  <2>3. ASSUME NEW i \in DOMAIN calls
        PROVE  calls[i] \in Call(IF calls[i].op = "consent" THEN BOOLEAN ELSE Entry \cup {None},
                                 IF calls[i].op \in MineOps THEN MineRecord \cup {None}
                                 ELSE Entry \cup {None})
    <3> DEFINE c == calls[i]
               op == c.op
               u == c.user
    <3>1. op \in AnyOp /\ u \in Users /\ c \in CallOf(op, u)
      BY <1>1, <2>3, CallAt, CallIs
    <3>2. EntryOf(u) \subseteq Entry \cup {None} /\ MineOf(u) \subseteq MineRecord
      BY <3>1, OwnIsTyped
    <3>3. /\ ArgOf(op, u) \subseteq IF op = "consent" THEN BOOLEAN ELSE Entry \cup {None}
          /\ PrevOf(op, u) \subseteq IF op \in MineOps THEN MineRecord \cup {None}
                                     ELSE Entry \cup {None}
          /\ StageOf(op) \subseteq Waiting \cup Settled
      BY <3>2 DEF ArgOf, PrevOf, StageOf, Started, Waiting
    <3>4. c \in CallOf(op, u)
      BY <3>1
    <3> HIDE DEF c
    <3>5. c \in Call(IF op = "consent" THEN BOOLEAN ELSE Entry \cup {None},
                     IF op \in MineOps THEN MineRecord \cup {None} ELSE Entry \cup {None})
      <4> HIDE DEF op, u
      <4>1. op \in AnyOp /\ u \in Users
        BY <3>1
      <4> QED BY <3>3, <3>4, <4>1 DEF CallOf, Call, AnyOp
    <3> QED BY <3>5 DEF c
  <2> QED BY <1>1, <2>1, <2>2, <2>3 DEF DataInv, UserDataTypeOK
<1> QED BY <1>1, SpecData, PTL

\* What is visible is the session's own: no load that comes late, no failed
\* save that is taken back and no queued priority of somebody who has signed
\* out shows on the next user's screen, or on a guest's.
THEOREM DataStayWithTheirUser == UserDataAssumption => (Spec => []OwnDataOnly)
<1>1. ASSUME DataInv
      PROVE  OwnDataOnly
  <2>1. Visible \in ScreenOf(session)
    BY <1>1, BlankIsOwn DEF DataInv, Visible
  <2>2. \A e \in EntryOf(session) \ {None} : e[1] = session
    BY DEF EntryOf, Own
  <2>3. EntriesOn(Visible) \subseteq EntryOf(session) \ {None}
    BY <2>1 DEF EntriesOn, ScreenOf, MineOf
  <2> QED BY <2>2, <2>3 DEF OwnDataOnly
<1> QED BY <1>1, SpecData, PTL

-----------------------------------------------------------------------------
(* Consent.                                                                *)

\* SubmittedOnlyWithConsent, over the users themselves: db has a row for each.
ConsentHolds ==
  \A u \in Users : (\E row \in {db[u].dept, db[u].sentinel} \ {None} : row.submit) => agreed[u]

\* An upsert that commits opens a value to the aggregate only together with
\* the consent it was sent under.
LEMMA CommitConsent ==
  ASSUME DataInv, ConsentHolds, NEW i \in DOMAIN calls, Commit(i)
  PROVE  ConsentHolds'
<1> DEFINE c == calls[i]
           r == db[c.user]
           s == Written(r, c.op, c.arg)
           opened(x) == \E row \in {x.dept, x.sentinel} \ {None} : row.submit
<1>1. c \in Calls /\ c.user \in Users /\ c.op \in AnyOp /\ c.arg \in ArgOf(c.op, c.user)
  BY CallAt, CallIs, CallIsOwn
<1>2. db' = [db EXCEPT ![c.user] = s] /\ agreed \in [Users -> BOOLEAN] /\ db \in [Users -> Rows]
  BY DEF Commit, DataInv
<1>3. r \in RowsOf(c.user)
  BY <1>1 DEF DataInv
<1>4. opened(r) => agreed[c.user]
  BY <1>1 DEF ConsentHolds
<1>5. CASE c.op = "consent"
  <2>1. s = SavedConsent(r, c.arg) /\ c.arg \in BOOLEAN
    BY <1>1, <1>5 DEF Written, ArgOf
  <2>2. opened(s) => c.arg
    BY <1>3, <2>1 DEF SavedConsent, RowsOf, DeptOf, SentinelOf
  <2>3. agreed' = [agreed EXCEPT ![c.user] = c.arg]
    BY <1>5 DEF Commit
  <2> HIDE DEF c, s
  <2> QED BY <1>1, <1>2, <2>2, <2>3 DEF ConsentHolds
<1>6. CASE c.op # "consent"
  <2>1. opened(s) => opened(r)
    <3>1. CASE c.op \in {"add", "remove", "priority", "note", "noteDelete", "mineDelete"}
      BY <1>3, <3>1 DEF Written, RowsOf
    <3>2. CASE c.op = "value"
      <4> DEFINE dept == IF c.arg = None THEN None
                         ELSE [value |-> c.arg, submit |-> KeptVisibility(r.dept)]
      <4>1. s.dept = dept /\ s.sentinel = r.sentinel
        BY <1>3, <3>2 DEF Written, RowsOf
      <4>2. dept # None /\ dept.submit => r.dept # None /\ r.dept.submit
        BY DEF KeptVisibility
      <4> HIDE DEF dept, s
      <4> QED BY <4>1, <4>2
    <3>3. CASE c.op = "mineNote"
      <4> DEFINE sentinel == [note |-> c.arg, submit |-> KeptVisibility(r.sentinel)]
      <4>1. s.sentinel = sentinel /\ s.dept = r.dept
        BY <1>3, <3>3 DEF Written, RowsOf
      <4>2. sentinel.submit => r.sentinel # None /\ r.sentinel.submit
        BY DEF KeptVisibility
      <4> HIDE DEF sentinel, s
      <4> QED BY <4>1, <4>2
    <3> QED BY <1>1, <1>6, <3>1, <3>2, <3>3 DEF AnyOp, FavOps, NoteOps, MineOps
  <2>2. agreed' = agreed
    BY <1>6 DEF Commit
  <2> HIDE DEF c, s
  <2> QED BY <1>1, <1>2, <1>4, <2>1, <2>2 DEF ConsentHolds
<1> QED BY <1>5, <1>6

LEMMA OtherTabConsent ==
  ASSUME DataInv, ConsentHolds, NEW u \in Users, OtherTab(u)
  PROVE  ConsentHolds'
<1>1. PICK submit \in BOOLEAN : /\ db' = [db EXCEPT ![u] = SavedConsent(@, submit)]
                                /\ agreed' = [agreed EXCEPT ![u] = submit]
  BY DEF OtherTab
<1> DEFINE s == SavedConsent(db[u], submit)
<1>2. \A row \in {s.dept, s.sentinel} \ {None} : row.submit => submit
  BY DEF DataInv, SavedConsent, RowsOf, DeptOf, SentinelOf
<1>3. agreed \in [Users -> BOOLEAN] /\ db \in [Users -> Rows] /\ db' = [db EXCEPT ![u] = s]
  BY <1>1 DEF DataInv
<1> HIDE DEF s
<1> QED BY <1>1, <1>2, <1>3 DEF ConsentHolds

\* Only a commit and another tab write the tables.
LEMMA OnlyCommitsWrite ==
  ASSUME [Next]_vars
  PROVE  UNCHANGED tables \/ (\E i \in DOMAIN calls : Commit(i)) \/ (\E u \in Users : OtherTab(u))
<1>1. Mutate => UNCHANGED tables
  BY DEF Mutate, ToggleFavorite, SetPriority, SaveNote, DeleteNote, SaveMineValue, SaveMineNote,
         SaveMineConsent, DeleteMine, Send
<1>2. Loading => UNCHANGED tables
  BY DEF Loading, Effect, LoadData, LoadAnswered, LoadReturns
<1>3. Answering => UNCHANGED tables \/ \E i \in DOMAIN calls : Commit(i)
  BY DEF Answering, StartPriority, Refuse, Answer
<1>4. Render => UNCHANGED tables
  BY DEF Render
<1>5. Environment => UNCHANGED tables \/ \E u \in Users : OtherTab(u)
  BY DEF Environment, ChangeSession, Reload, LoadData, SwitchMaintenance
<1> QED BY <1>1, <1>2, <1>3, <1>4, <1>5 DEF Next, vars

\* A deviation value is open only under the last consent committed: saving a
\* value or a remark never opens a row, and a consent withdrawn, here or in
\* another tab, closes both of them at once.
THEOREM NothingOpenWithoutConsent == UserDataAssumption => (Spec => []SubmittedOnlyWithConsent)
<1> SUFFICES ASSUME UserDataAssumption
             PROVE  Spec => []SubmittedOnlyWithConsent
  OBVIOUS
<1>1. Init => ConsentHolds
  BY DEF Init, ConsentHolds
<1>2. DataInv /\ ConsentHolds /\ [Next]_vars => ConsentHolds'
  <2> SUFFICES ASSUME DataInv, ConsentHolds, [Next]_vars
               PROVE  ConsentHolds'
    OBVIOUS
  <2>1. CASE UNCHANGED tables
    BY <2>1 DEF tables, ConsentHolds
  <2> QED BY <2>1, OnlyCommitsWrite, CommitConsent, OtherTabConsent
<1>3. DataInv /\ ConsentHolds => SubmittedOnlyWithConsent
  BY DEF DataInv, ConsentHolds, SubmittedOnlyWithConsent
<1> QED BY <1>1, <1>2, <1>3, SpecData, PTL DEF Spec

\* Nothing leaves its user in any other way either: what is shown is the data of
\* the session's user, and the aggregate sees only what was agreed to.
THEOREM NothingLeaves == UserDataAssumption => (Spec => []NothingLeavesItsUser)
BY DataStayWithTheirUser, NothingOpenWithoutConsent, PTL DEF NothingLeavesItsUser

-----------------------------------------------------------------------------
(* The turn of a priority.                                                 *)

\* A priority that has left the queue found the user's earlier ones settled,
\* and one that is written is no longer on its way.
TurnInv ==
  \A i \in DOMAIN calls :
    /\ calls[i].committed => calls[i].stage \notin {"queued", "sent"}
    /\ calls[i].op = "priority" /\ calls[i].stage # "queued" => ItsTurn(i)

\* What every step does to the calls: the ones there are stay what they are,
\* what has settled stays settled, and what is new is written by nobody yet.
CallsGoOn ==
  /\ Len(calls) <= Len(calls')
  /\ \A i \in DOMAIN calls :
       /\ calls'[i].op = calls[i].op /\ calls'[i].user = calls[i].user /\ calls'[i].arg = calls[i].arg
       /\ calls[i].stage \in Settled => calls'[i].stage \in Settled
       /\ calls'[i].committed => calls'[i].stage \notin {"queued", "sent"}
       /\ calls[i].op = "priority" /\ calls'[i].stage # "queued" => ItsTurn(i)
  /\ \A i \in DOMAIN calls' \ DOMAIN calls :
       ~calls'[i].committed /\ (calls'[i].op = "priority" => calls'[i].stage = "queued")

NothingCommitted == \A i \in DOMAIN calls : calls'[i].committed = calls[i].committed

LEMMA TurnsAreKept ==
  ASSUME DataInv, DataInv', CallsGoOn
  PROVE  TurnInv'
<1>1. /\ DOMAIN calls = 1..Len(calls) /\ DOMAIN calls' = 1..Len(calls')
      /\ Len(calls) \in Nat /\ Len(calls') \in Nat
  BY Positions DEF DataInv
<1>2. ASSUME NEW i \in DOMAIN calls'
      PROVE  /\ calls'[i].committed => calls'[i].stage \notin {"queued", "sent"}
             /\ calls'[i].op = "priority" /\ calls'[i].stage # "queued" => ItsTurn(i)'
  <2>1. CASE i \in DOMAIN calls
    <3>1. calls'[i].committed => calls'[i].stage \notin {"queued", "sent"}
      BY <2>1 DEF CallsGoOn
    <3>2. ASSUME calls'[i].op = "priority", calls'[i].stage # "queued"
          PROVE  ItsTurn(i)'
      <4>1. ItsTurn(i)
        BY <2>1, <3>2 DEF CallsGoOn
      <4>2. \A j \in 1..(i - 1) : j \in DOMAIN calls
        BY <1>1, <2>1
      <4>3. ASSUME NEW j \in 1..(i - 1), calls'[j].op = "priority", calls'[j].user = calls'[i].user
            PROVE  calls'[j].stage \in Settled
        <5>1. j \in PriorCalls(i)
          BY <2>1, <4>2, <4>3 DEF CallsGoOn, PriorCalls
        <5> QED BY <4>1, <4>2, <5>1 DEF ItsTurn, CallsGoOn
      <4> QED BY <4>3 DEF ItsTurn, PriorCalls
    <3> QED BY <3>1, <3>2
  <2>2. CASE i \notin DOMAIN calls
    BY <2>2 DEF CallsGoOn
  <2> QED BY <2>1, <2>2
<1> QED BY <1>2 DEF TurnInv

\* A step that leaves the calls alone.
LEMMA CallsStay ==
  ASSUME DataInv, TurnInv, UNCHANGED calls
  PROVE  CallsGoOn /\ NothingCommitted
<1>1. Len(calls) \in Nat
  BY Positions DEF DataInv
<1> QED BY <1>1 DEF TurnInv, CallsGoOn, NothingCommitted

\* A load marks calls.
LEMMA LoadTurns ==
  ASSUME DataInv, TurnInv, LoadData
  PROVE  CallsGoOn /\ NothingCommitted
<1>1. calls \in Seq(Calls) /\ DOMAIN calls = 1..Len(calls) /\ Len(calls) \in Nat
  BY Positions DEF DataInv
<1>2. calls' = Overtaken(session)
  BY DEF LoadData
<1>3. DOMAIN calls' = DOMAIN calls
  BY <1>2 DEF Overtaken
<1>4. calls' \in Seq(Calls)
  BY <1>2, OvertakenCalls
<1>5. Len(calls') = Len(calls)
  BY <1>1, <1>3, <1>4, Positions
<1>6. \A i \in DOMAIN calls :
        /\ calls'[i].op = calls[i].op /\ calls'[i].user = calls[i].user /\ calls'[i].arg = calls[i].arg
        /\ calls'[i].stage = calls[i].stage /\ calls'[i].committed = calls[i].committed
  <2> TAKE i \in DOMAIN calls
  <2>1. calls[i] \in CallOf(calls[i].op, calls[i].user)
    BY CallAt, CallIs
  <2>2. calls'[i] \in {calls[i], [calls[i] EXCEPT !.overtaken = TRUE]}
    BY <1>2 DEF Overtaken
  <2> QED BY <2>1, <2>2 DEF CallOf
<1> QED BY <1>1, <1>3, <1>5, <1>6 DEF TurnInv, CallsGoOn, NothingCommitted

\* A mutation is called.
LEMMA NewCallTurns ==
  ASSUME DataInv, TurnInv, NEW c \in Calls, calls' = Append(calls, c),
         ~c.committed, c.op = "priority" => c.stage = "queued"
  PROVE  CallsGoOn /\ NothingCommitted
<1>1. calls \in Seq(Calls) /\ DOMAIN calls = 1..Len(calls) /\ Len(calls) \in Nat
  BY Positions DEF DataInv
<1>2. /\ calls' \in Seq(Calls) /\ Len(calls') = Len(calls) + 1 /\ calls'[Len(calls) + 1] = c
      /\ \A i \in DOMAIN calls : calls'[i] = calls[i]
  BY <1>1, AppendProperties
<1>3. DOMAIN calls' \ DOMAIN calls = {Len(calls) + 1}
  BY <1>1, <1>2, Positions
<1> QED BY <1>1, <1>2, <1>3 DEF TurnInv, CallsGoOn, NothingCommitted

\* One call goes on.
LEMMA OneCallTurns ==
  ASSUME DataInv, TurnInv, NEW i \in DOMAIN calls, NEW c \in Calls, calls' = [calls EXCEPT ![i] = c],
         c.op = calls[i].op, c.user = calls[i].user, c.arg = calls[i].arg,
         calls[i].stage \in Settled => c.stage \in Settled,
         c.committed => c.stage \notin {"queued", "sent"},
         c.op = "priority" /\ c.stage # "queued" => ItsTurn(i)
  PROVE  CallsGoOn /\ (c.committed = calls[i].committed => NothingCommitted)
<1>1. calls \in Seq(Calls) /\ DOMAIN calls = 1..Len(calls) /\ Len(calls) \in Nat
  BY Positions DEF DataInv
<1>2. /\ Len(calls') = Len(calls) /\ DOMAIN calls' = DOMAIN calls
      /\ calls'[i] = c /\ \A j \in DOMAIN calls : j # i => calls'[j] = calls[j]
  BY <1>1, ExceptSeq
<1> QED BY <1>1, <1>2 DEF TurnInv, CallsGoOn, NothingCommitted

LEMMA SendTurns ==
  ASSUME DataInv, TurnInv, NEW op \in AnyOp, op # "priority", NEW arg, arg \in ArgOf(op, session),
         Send(op, arg)
  PROVE  CallsGoOn /\ NothingCommitted
<1> DEFINE prev == seen.screen[CellOf(op)]
           c == [op |-> op, user |-> session, arg |-> arg, prev |-> prev, stage |-> "sent",
                 committed |-> FALSE, overtaken |-> LoadInFlight(session), met |-> Met(op, prev),
                 during |-> During]
<1>1. session \in Users /\ seen.screen \in ScreenOf(session)
  BY DEF DataInv, Send, Blocked, ReadyFor
<1>2. prev \in PrevOf(op, session)
  BY <1>1, PrevIsOwn
<1>3. /\ During \in {"normal", "maintenance", "loadError"} /\ LoadInFlight(session) \in BOOLEAN
      /\ Met(op, prev) \in {"nothing", "call", "rollback"}
  BY DEF During, LoadInFlight, Met
<1>4. c \in Calls
  <2>1. c \in CallOf(op, session)
    BY <1>2, <1>3 DEF CallOf, StageOf, Started, Waiting
  <2> QED BY <1>1, <2>1 DEF Calls
<1>5. calls' = Append(calls, c) /\ c.op = op /\ c.committed = FALSE
  BY DEF Send
<1> HIDE DEF c
<1> QED BY <1>4, <1>5, NewCallTurns

LEMMA SetPriorityTurns ==
  ASSUME DataInv, TurnInv, SetPriority
  PROVE  CallsGoOn /\ NothingCommitted
<1>1. PICK v \in Values :
        calls' = Append(calls, [op |-> "priority", user |-> session, arg |-> <<session, v>>,
                                prev |-> None, stage |-> "queued", committed |-> FALSE,
                                overtaken |-> LoadInFlight(session), met |-> "nothing",
                                during |-> "normal"])
  BY DEF SetPriority
<1> DEFINE c == [op |-> "priority", user |-> session, arg |-> <<session, v>>,
                 prev |-> None, stage |-> "queued", committed |-> FALSE,
                 overtaken |-> LoadInFlight(session), met |-> "nothing",
                 during |-> "normal"]
<1>2. session \in Users /\ LoadInFlight(session) \in BOOLEAN
  BY DEF DataInv, SetPriority, Blocked, LoadInFlight
<1>3. c \in CallOf("priority", session)
  BY <1>2 DEF CallOf, StageOf, ArgOf, PrevOf, EntryOf, Own, MineOps, Waiting
<1>4. c \in Calls
  BY <1>2, <1>3 DEF Calls, AnyOp, FavOps
<1>5. calls' = Append(calls, c) /\ c.stage = "queued" /\ c.committed = FALSE
  BY <1>1
<1> HIDE DEF c
<1> QED BY <1>4, <1>5, NewCallTurns

LEMMA MutateTurns ==
  ASSUME UserDataAssumption, DataInv, TurnInv, Mutate
  PROVE  CallsGoOn /\ NothingCommitted
<1>0. \A op \in {"remove", "noteDelete", "mineDelete", "value"} : op \in AnyOp /\ None \in ArgOf(op, session)
  BY DEF AnyOp, FavOps, NoteOps, MineOps, ArgOf, EntryOf
<1>1. \A op \in {"add", "note", "value", "mineNote"}, v \in Values :
        op \in AnyOp /\ <<session, v>> \in ArgOf(op, session)
  BY DEF AnyOp, FavOps, NoteOps, MineOps, ArgOf, EntryOf, Own
<1>2. "consent" \in AnyOp /\ BOOLEAN = ArgOf("consent", session)
  BY DEF AnyOp, MineOps, ArgOf
<1>3. CASE ToggleFavorite
  <2>1. DefaultPriority \in Values
    BY DEF UserDataAssumption
  <2> QED BY <1>0, <1>1, <1>3, <2>1, SendTurns DEF ToggleFavorite
<1>4. CASE SaveNote
  BY <1>1, <1>4, SendTurns DEF SaveNote
<1>5. CASE DeleteNote
  BY <1>0, <1>5, SendTurns DEF DeleteNote
<1>6. CASE SaveMineValue
  BY <1>0, <1>1, <1>6, SendTurns DEF SaveMineValue
<1>7. CASE SaveMineNote
  BY <1>1, <1>7, SendTurns DEF SaveMineNote
<1>8. CASE SaveMineConsent
  BY <1>2, <1>8, SendTurns DEF SaveMineConsent
<1>9. CASE DeleteMine
  BY <1>0, <1>9, SendTurns DEF DeleteMine
<1> QED BY <1>3, <1>4, <1>5, <1>6, <1>7, <1>8, <1>9, SetPriorityTurns DEF Mutate

\* What one call's own step does to it.
LEMMA AnsweringTurns ==
  ASSUME DataInv, TurnInv, NEW i \in DOMAIN calls
  PROVE  /\ StartPriority(i) => CallsGoOn /\ NothingCommitted
         /\ Refuse(i) => CallsGoOn /\ NothingCommitted
         /\ Answer(i) => CallsGoOn /\ NothingCommitted
         /\ Commit(i) => CallsGoOn /\ calls'[i].committed
                         /\ \A j \in DOMAIN calls \ {i} : calls'[j] = calls[j]
<1> DEFINE c == calls[i]
<1>1. /\ c \in Calls /\ c.op \in AnyOp /\ c \in CallOf(c.op, c.user)
      /\ c.committed => c.stage \notin {"queued", "sent"}
      /\ c.op = "priority" /\ c.stage # "queued" => ItsTurn(i)
  BY CallAt, CallIs DEF TurnInv
<1>2. ASSUME NEW s \in Started \cup Settled, calls' = [calls EXCEPT ![i] = [c EXCEPT !.stage = s]],
             c.stage \notin Settled, c.committed => s # "sent", s = "sent" \/ c.stage = "queued" => ItsTurn(i)
      PROVE  CallsGoOn /\ NothingCommitted
  <2> DEFINE next == [c EXCEPT !.stage = s]
  <2>1. /\ next \in Calls /\ next.op = c.op /\ next.user = c.user /\ next.arg = c.arg /\ next.stage = s
        /\ next.committed = c.committed
    BY <1>1, <1>2, CallGoesOn DEF CallOf
  <2>2. calls' = [calls EXCEPT ![i] = next]
    BY <1>2
  <2>3. s # "queued"
    BY DEF Started, Settled
  <2> HIDE DEF next
  <2> QED BY <1>1, <1>2, <2>1, <2>2, <2>3, OneCallTurns
<1>3. ASSUME StartPriority(i)
      PROVE  CallsGoOn /\ NothingCommitted
  <2>1. CASE ReadyFor(c.user)
    <3> DEFINE next == [c EXCEPT !.stage = "sent", !.during = During, !.prev = seen.screen.fav,
                                !.met = Met("priority", seen.screen.fav)]
    <3>1. calls' = [calls EXCEPT ![i] = next]
      BY <1>3, <2>1, CallAt DEF StartPriority
    <3>2. next \in Calls
      <4>1. c.op = "priority"
        BY <1>1, <1>3 DEF StartPriority, CallOf, StageOf, Started, Settled
      <4>2. /\ During \in {"normal", "maintenance", "loadError"} /\ seen.screen.fav \in PrevOf(c.op, c.user)
            /\ Met("priority", seen.screen.fav) \in {"nothing", "call", "rollback"}
        BY <2>1, <4>1 DEF Met, ReadyFor, DataInv, During, ScreenOf, PrevOf, MineOps
      <4> QED BY <1>1, <4>2, CallGoesOn DEF Started
    <3>3. /\ next.op = c.op /\ next.user = c.user /\ next.arg = c.arg /\ next.stage = "sent"
          /\ next.committed = c.committed /\ ~c.committed /\ ItsTurn(i) /\ c.stage \notin Settled
      BY <1>1, <1>3 DEF CallOf, StartPriority, Settled
    <3> HIDE DEF next
    <3> QED BY <3>1, <3>2, <3>3, OneCallTurns
  <2>2. CASE ~ReadyFor(c.user)
    BY <1>2, <1>3, <2>2 DEF StartPriority, Settled
  <2> QED BY <2>1, <2>2
<1>4. ASSUME Refuse(i)
      PROVE  CallsGoOn /\ NothingCommitted
  BY <1>2, <1>4 DEF Refuse, Started, Settled
<1>5. ASSUME Answer(i)
      PROVE  CallsGoOn /\ NothingCommitted
  BY <1>2, <1>5 DEF Answer, Started, Settled
<1>6. ASSUME Commit(i)
      PROVE  CallsGoOn /\ calls'[i].committed /\ \A j \in DOMAIN calls \ {i} : calls'[j] = calls[j]
  <2>1. PICK s \in {"done", "failed"} : calls' = [calls EXCEPT ![i].stage = s, ![i].committed = TRUE]
    BY <1>6 DEF Commit
  <2> DEFINE next == [c EXCEPT !.stage = s, !.committed = TRUE]
  <2>2. calls' = [calls EXCEPT ![i] = next]
    BY <2>1, CallAt
  <2>3. /\ next \in Calls /\ next.op = c.op /\ next.user = c.user /\ next.arg = c.arg /\ next.stage = s
        /\ next.committed = TRUE
    BY <1>1, CallGoesOn DEF CallOf, Started
  <2>4. c.stage = "sent"
    BY <1>6 DEF Commit
  <2> HIDE DEF next
  <2>5. CallsGoOn
    BY <1>1, <2>2, <2>3, <2>4, OneCallTurns DEF Settled
  <2> QED BY <2>2, <2>3, <2>5
<1> QED BY <1>3, <1>4, <1>5, <1>6

\* Every step but a commit writes nothing.
LEMMA NextTurns ==
  ASSUME UserDataAssumption, DataInv, TurnInv, [Next]_vars
  PROVE  /\ CallsGoOn
         /\ (\E i \in DOMAIN calls : Commit(i)) \/ NothingCommitted
<1>1. CASE Mutate
  BY <1>1, MutateTurns
<1>2. CASE Loading
  BY <1>2, LoadTurns, CallsStay DEF Loading, Effect, LoadAnswered, LoadReturns
<1>3. CASE Answering
  BY <1>3, AnsweringTurns DEF Answering
<1>4. CASE Render \/ UNCHANGED vars
  BY <1>4, CallsStay DEF Render, vars
<1>5. CASE Environment
  BY <1>5, CallsStay, LoadTurns DEF Environment, ChangeSession, OtherTab, Reload, SwitchMaintenance
<1> QED BY <1>1, <1>2, <1>3, <1>4, <1>5 DEF Next

\* Priorities of one user are written one after the other: one that has left
\* the queue found the earlier ones answered, given up or refused.
THEOREM PrioritiesTakeTurns == UserDataAssumption => (Spec => []TurnInv)
<1> SUFFICES ASSUME UserDataAssumption
             PROVE  Spec => []TurnInv
  OBVIOUS
<1>1. Init => TurnInv
  BY DEF Init, TurnInv
<1>2. DataInv /\ DataInv' /\ TurnInv /\ [Next]_vars => TurnInv'
  BY NextTurns, TurnsAreKept
<1> QED BY <1>1, <1>2, SpecData, PTL DEF Spec

\* Nobody touches the heart, the note or the own values.
OnlyPriorities == Operations \cap {"toggle", "note", "mine"} = {}
AllPriorities == \A i \in DOMAIN calls : calls[i].op = "priority"

LEMMA PrioritiesOnly ==
  ASSUME OnlyPriorities, UserDataAssumption, DataInv, DataInv', TurnInv, AllPriorities, [Next]_vars
  PROVE  AllPriorities'
<1>0. /\ DOMAIN calls = 1..Len(calls) /\ DOMAIN calls' = 1..Len(calls')
      /\ calls \in Seq(Calls) /\ Len(calls) \in Nat
  BY Positions DEF DataInv
<1>1. CASE Mutate
  <2>1. SetPriority
    BY <1>1 DEF OnlyPriorities, Mutate, ToggleFavorite, SaveNote, DeleteNote, SaveMineValue,
               SaveMineNote, SaveMineConsent, DeleteMine
  <2>2. PICK v \in Values :
        calls' = Append(calls, [op |-> "priority", user |-> session, arg |-> <<session, v>>,
                                prev |-> None, stage |-> "queued", committed |-> FALSE,
                                overtaken |-> LoadInFlight(session), met |-> "nothing",
                                during |-> "normal"])
    BY <2>1 DEF SetPriority
  <2> DEFINE c == [op |-> "priority", user |-> session, arg |-> <<session, v>>,
                   prev |-> None, stage |-> "queued", committed |-> FALSE,
                   overtaken |-> LoadInFlight(session), met |-> "nothing",
                   during |-> "normal"]
  <2>3. session \in Users /\ LoadInFlight(session) \in BOOLEAN
    BY <2>1 DEF DataInv, SetPriority, Blocked, LoadInFlight
  <2>4. c \in CallOf("priority", session)
    BY <2>3 DEF CallOf, StageOf, ArgOf, PrevOf, EntryOf, Own, MineOps, Waiting
  <2>5. c \in Calls /\ calls' = Append(calls, c) /\ c.op = "priority"
    BY <2>2, <2>3, <2>4 DEF Calls, AnyOp, FavOps
  <2> HIDE DEF c
  <2>6. /\ Len(calls') = Len(calls) + 1 /\ calls'[Len(calls) + 1] = c
        /\ \A i \in DOMAIN calls : calls'[i] = calls[i]
    BY <1>0, <2>5, AppendProperties
  <2> QED BY <1>0, <2>5, <2>6 DEF AllPriorities
<1>2. CASE ~Mutate
  <2>1. DOMAIN calls' = DOMAIN calls
    BY <1>2 DEF Next, Loading, Effect, LoadData, Overtaken, LoadAnswered, LoadReturns, Answering,
               StartPriority, Commit, Refuse, Answer, Render, Environment, ChangeSession, OtherTab,
               Reload, SwitchMaintenance, vars
  <2>2. \A i \in DOMAIN calls : calls'[i].op = calls[i].op
    BY NextTurns DEF CallsGoOn
  <2> QED BY <2>1, <2>2 DEF AllPriorities
<1> QED BY <1>1, <1>2

\* The commit of a call whose turn it is, after those called before it.
LEMMA CommitLast ==
  ASSUME DataInv, DataInv', TurnInv, AllPriorities, LastPriorityWins, CallsGoOn,
         DOMAIN calls' = DOMAIN calls, NEW i \in DOMAIN calls, Commit(i),
         calls'[i].committed, \A j \in DOMAIN calls \ {i} : calls'[j] = calls[j]
  PROVE  LastPriorityWins'
<1> DEFINE c == calls[i]
<1>1. c.op = "priority" /\ c.stage = "sent" /\ c.user \in Users
  BY CallAt, CallIs DEF AllPriorities, Commit
<1>2. db' = [db EXCEPT ![c.user] = Written(db[c.user], c.op, c.arg)] /\ db \in [Users -> Rows]
  BY DEF Commit, DataInv
<1>3. db'[c.user].fav = c.arg
  <2>1. db[c.user] \in Rows
    BY <1>1 DEF DataInv
  <2>2. Written(db[c.user], c.op, c.arg).fav = c.arg
    BY <1>1, <2>1 DEF Written, Rows
  <2> QED BY <1>1, <1>2, <2>2
<1>4. calls'[i].arg = c.arg /\ calls'[i].user = c.user
  BY DEF CallsGoOn
<1>5. ASSUME NEW j \in DOMAIN calls, calls'[j].user = c.user, calls'[j].committed
      PROVE  j <= i
  <2> SUFFICES ASSUME j > i
               PROVE  FALSE
    BY Positions DEF DataInv
  <2>1. j # i /\ i \in 1..(j - 1)
    BY Positions DEF DataInv
  <2>2. calls[j].committed /\ calls[j].user = c.user /\ calls[j].op = "priority"
    BY <1>5, <2>1 DEF AllPriorities
  <2>3. ItsTurn(j)
    BY <2>2 DEF TurnInv
  <2>4. i \in PriorCalls(j)
    BY <1>1, <2>1, <2>2 DEF PriorCalls
  <2> QED BY <1>1, <2>3, <2>4 DEF ItsTurn, Settled
<1> HIDE DEF c
<1>6. ASSUME NEW u \in Users,
             {j \in DOMAIN calls' : calls'[j].user = u /\ calls'[j].committed} # {}
      PROVE  \E k \in {j \in DOMAIN calls' : calls'[j].user = u /\ calls'[j].committed} :
               /\ \A j \in {x \in DOMAIN calls' : calls'[x].user = u /\ calls'[x].committed} : j <= k
               /\ db'[u].fav = calls'[k].arg
  <2>1. CASE u = c.user
    <3>1. i \in {j \in DOMAIN calls' : calls'[j].user = u /\ calls'[j].committed}
      BY <1>4, <2>1
    <3>2. \A j \in {x \in DOMAIN calls' : calls'[x].user = u /\ calls'[x].committed} : j <= i
      BY <1>5, <2>1
    <3> QED BY <1>3, <1>4, <2>1, <3>1, <3>2
  <2>2. CASE u # c.user
    <3>1. db'[u] = db[u]
      BY <1>1, <1>2, <2>2
    <3>2. \A j \in DOMAIN calls : calls'[j].user = u /\ calls'[j].committed
                                   <=> calls[j].user = u /\ calls[j].committed
      BY <1>4, <2>2 DEF CallsGoOn
    <3>3. {j \in DOMAIN calls' : calls'[j].user = u /\ calls'[j].committed}
            = {j \in DOMAIN calls : calls[j].user = u /\ calls[j].committed}
      BY <3>2
    <3>4. PICK k \in {j \in DOMAIN calls : calls[j].user = u /\ calls[j].committed} :
            /\ \A j \in {x \in DOMAIN calls : calls[x].user = u /\ calls[x].committed} : j <= k
            /\ db[u].fav = calls[k].arg
      BY <1>6, <3>3 DEF LastPriorityWins
    <3>5. calls'[k].arg = calls[k].arg
      BY DEF CallsGoOn
    <3> QED BY <3>1, <3>3, <3>4, <3>5
  <2> QED BY <2>1, <2>2
<1> QED BY <1>6 DEF LastPriorityWins

\* Nothing is written.
LEMMA NothingLast ==
  ASSUME DataInv, DataInv', LastPriorityWins, CallsGoOn, NothingCommitted, UNCHANGED tables
  PROVE  LastPriorityWins'
<1>1. DOMAIN calls \subseteq DOMAIN calls'
  <2>1. /\ DOMAIN calls = 1..Len(calls) /\ DOMAIN calls' = 1..Len(calls')
        /\ Len(calls) \in Nat /\ Len(calls') \in Nat
    BY Positions DEF DataInv
  <2> QED BY <2>1 DEF CallsGoOn
<1>2. \A u : {j \in DOMAIN calls' : calls'[j].user = u /\ calls'[j].committed}
               = {j \in DOMAIN calls : calls[j].user = u /\ calls[j].committed}
  BY <1>1 DEF CallsGoOn, NothingCommitted
<1>3. \A j \in DOMAIN calls : calls'[j].arg = calls[j].arg
  BY DEF CallsGoOn
<1>4. db' = db
  BY DEF tables
<1>5. ASSUME NEW u \in Users,
             {j \in DOMAIN calls' : calls'[j].user = u /\ calls'[j].committed} # {}
      PROVE  \E k \in {j \in DOMAIN calls' : calls'[j].user = u /\ calls'[j].committed} :
               /\ \A j \in {x \in DOMAIN calls' : calls'[x].user = u /\ calls'[x].committed} : j <= k
               /\ db'[u].fav = calls'[k].arg
  <2>1. PICK k \in {j \in DOMAIN calls : calls[j].user = u /\ calls[j].committed} :
          /\ \A j \in {x \in DOMAIN calls : calls[x].user = u /\ calls[x].committed} : j <= k
          /\ db[u].fav = calls[k].arg
    BY <1>2, <1>5 DEF LastPriorityWins
  <2> QED BY <1>2, <1>3, <1>4, <2>1
<1> QED BY <1>5 DEF LastPriorityWins

\* While nothing else is done to a favourite, its row holds the priority that
\* was called last of those that were written, however many are in flight, are
\* refused or lose their answer.
THEOREM LastPriorityIsStored == UserDataAssumption /\ OnlyPriorities => (Spec => []LastPriorityWins)
<1> SUFFICES ASSUME UserDataAssumption, OnlyPriorities
             PROVE  Spec => []LastPriorityWins
  OBVIOUS
<1> DEFINE Good == AllPriorities /\ LastPriorityWins
<1>1. Init => Good
  BY DEF Init, AllPriorities, LastPriorityWins
<1>2. ASSUME DataInv, DataInv', TurnInv, Good, [Next]_vars
      PROVE  Good'
  <2>1. AllPriorities'
    BY <1>2, PrioritiesOnly
  <2>2. CallsGoOn
    BY <1>2, NextTurns
  <2>3. ASSUME NEW i \in DOMAIN calls, Commit(i)
        PROVE  LastPriorityWins'
    <3>1. calls'[i].committed /\ \A j \in DOMAIN calls \ {i} : calls'[j] = calls[j]
      BY <1>2, <2>3, AnsweringTurns
    <3>2. DOMAIN calls' = DOMAIN calls
      BY <2>3 DEF Commit
    <3> QED BY <1>2, <2>2, <2>3, <3>1, <3>2, CommitLast
  <2>4. ASSUME ~\E i \in DOMAIN calls : Commit(i)
        PROVE  LastPriorityWins'
    <3>1. NothingCommitted
      BY <1>2, <2>4, NextTurns
    <3>2. \A u : ~OtherTab(u)
      BY DEF OtherTab, OnlyPriorities
    <3>3. UNCHANGED tables
      BY <1>2, <2>4, <3>2, OnlyCommitsWrite
    <3> QED BY <1>2, <2>2, <3>1, <3>3, NothingLast
  <2> QED BY <2>1, <2>3, <2>4
<1>3. DataInv /\ DataInv' /\ TurnInv /\ Good /\ [Next]_vars => Good'
  BY <1>2
<1>4. Good => LastPriorityWins
  OBVIOUS
<1> HIDE DEF Good
<1> QED BY <1>1, <1>3, <1>4, SpecData, PrioritiesTakeTurns, PTL DEF Spec

-----------------------------------------------------------------------------
(* The place of a family's accounts in one browser (HomeLocation).          *)

CONSTANTS Places, Broken, Events, MaxChanges, MaxWrites, MaxIds

VARIABLES rows, device, auth, home, homeLoadState, active, migrated, load, writes, map,
          records, behind, disturbed, changes

Place == INSTANCE HomeLocation

\* Whose the place and the id on the device are.
Holder == IF active # None THEN active ELSE auth

\* Whose else they may be: what was left on the device by sessions that ended
\* unseen, and, once an account has taken it over, all that ever was.
Inherited == IF Holder = None THEN behind.now ELSE behind.ever

LeftOK == behind.now \subseteq behind.ever

\* What the tab knows of the session.
SessionOK ==
  /\ ~effect => active = session
  /\ session # None => auth \in {session, None} /\ (effect => auth = session)
  /\ active # None => auth \in {active, None}
  /\ load # None => load.user = active

\* Everything of the device and the tab is its holder's or nobody's; exact
\* coordinates are there only until the first effect has run.
HolderOK ==
  /\ home # None => home.by \in {Holder, None} \cup Inherited /\ ~home.exact
  /\ device.home \notin {None, Broken} =>
       /\ device.home.by \in {Holder, None} \cup Inherited
       /\ device.home.exact => effect /\ session = None /\ active = None
  /\ device.zoom # None => device.zoom.by \in {Holder, None} \cup Inherited
  /\ \A r \in records : r[1] = device.id => r[2] \in {Holder, None} \cup Inherited

PlaceOf(h, u) == h.by \in {u, None} \cup behind.ever

\* What was sent and stored is of the account it was sent for.
SentOK ==
  /\ \A u \in Users : rows[u] # None => PlaceOf(rows[u], u)
  /\ \A i \in DOMAIN writes : PlaceOf(writes[i].home, writes[i].user) /\ ~writes[i].home.exact

HomeInv == Place!HomeTypeOK /\ SessionOK /\ LeftOK /\ HolderOK /\ SentOK /\ Place!OneAccountPerId

\* A place and what is kept of it.
LEMMA PlaceIs ==
  ASSUME NEW h \in Place!Home
  PROVE  /\ h.by \in Users \cup {None} /\ h.place \in Places /\ h.exact \in BOOLEAN
         /\ Place!Normalized(h) \in Place!Home
         /\ Place!Normalized(h).by = h.by /\ ~Place!Normalized(h).exact
BY DEF Place!Home, Place!Normalized

LEMMA LocalIs ==
  ASSUME NEW h \in Place!Home \cup {None, Broken}
  PROVE  /\ Place!LoadLocalHome(h) \in Place!Home \cup {None}
         /\ Place!LoadLocalHome(h) # None =>
              /\ h \notin {None, Broken} /\ Place!LoadLocalHome(h) \in Place!Home
              /\ Place!LoadLocalHome(h).by = h.by /\ ~Place!LoadLocalHome(h).exact
<1>1. CASE h \in {None, Broken}
  BY <1>1 DEF Place!LoadLocalHome
<1>2. CASE h \notin {None, Broken}
  <2>1. Place!LoadLocalHome(h) = Place!Normalized(h) /\ h \in Place!Home
    BY <1>2 DEF Place!LoadLocalHome
  <2> QED BY <1>2, <2>1, PlaceIs
<1> QED BY <1>1, <1>2

Devices == [home: Place!Home \cup {None, Broken}, zoom: Place!Home \cup {None}, id: 0..MaxIds]

LEMMA DeviceIs ==
  ASSUME NEW d \in Devices
  PROVE  /\ d.home \in Place!Home \cup {None, Broken} /\ d.zoom \in Place!Home \cup {None}
         /\ d.id \in 0..MaxIds
         /\ \A h \in Place!Home \cup {None, Broken} :
              /\ [d EXCEPT !.home = h] \in Devices /\ [d EXCEPT !.home = h].home = h
              /\ [d EXCEPT !.home = h].zoom = d.zoom /\ [d EXCEPT !.home = h].id = d.id
         /\ \A h \in Place!Home \cup {None} :
              /\ [d EXCEPT !.zoom = h] \in Devices /\ [d EXCEPT !.zoom = h].zoom = h
              /\ [d EXCEPT !.zoom = h].home = d.home /\ [d EXCEPT !.zoom = h].id = d.id
         /\ \A n \in 0..MaxIds :
              /\ [d EXCEPT !.id = n] \in Devices /\ [d EXCEPT !.id = n].id = n
              /\ [d EXCEPT !.id = n].home = d.home /\ [d EXCEPT !.id = n].zoom = d.zoom
BY DEF Devices

\* The device is of its type.
LEMMA HomeTypes ==
  ASSUME HomeInv
  PROVE  /\ device \in Devices
         /\ device.home \in Place!Home \cup {None, Broken} /\ device.zoom \in Place!Home \cup {None}
         /\ home \in Place!Home \cup {None}
         /\ Place!Shown \in Place!Home \cup {None}
         /\ \A u \in Users : rows[u] \in Place!Home \cup {None}
         /\ {auth, session, active, migrated} \subseteq Users \cup {None}
BY DeviceIs DEF HomeInv, Place!HomeTypeOK, Devices, Place!Shown

LEMMA HomeInit == Place!HomeAssumption /\ Place!Init => HomeInv
<1> SUFFICES ASSUME Place!HomeAssumption, Place!Init PROVE HomeInv
  OBVIOUS
<1>1. \A n \in {MaxChanges, MaxWrites, MaxIds} : n \in Nat /\ 0 \in 0..n
  BY DEF Place!HomeAssumption
<1>2. PICK h \in {None, Broken} \cup {[by |-> None, place |-> p, exact |-> TRUE] : p \in Places} :
        device = [home |-> h, zoom |-> None, id |-> 0]
  BY DEF Place!Init
<1>3. h \in Place!Home \cup {None, Broken} /\ (h \notin {None, Broken} => h.by = None)
  <2>1. CASE h \in {None, Broken}
    BY <2>1
  <2>2. ASSUME NEW p \in Places, h = [by |-> None, place |-> p, exact |-> TRUE]
        PROVE  h \in Place!Home /\ h.by = None
    BY <2>2 DEF Place!Home
  <2> QED BY <1>2, <2>1, <2>2
<1>4. /\ device \in Devices /\ device.home = h /\ device.zoom = None /\ device.id = 0
  BY <1>1, <1>2, <1>3 DEF Devices
<1>5. rows \in [Users -> Place!Home \cup {None}]
  <2>1. \A u \in Users, p \in Places : [by |-> u, place |-> p, exact |-> TRUE] \in Place!Home
    BY DEF Place!Home
  <2> QED BY <2>1 DEF Place!Init
<1>6. writes \in Seq(Place!Write) /\ Len(writes) = 0
  BY DEF Place!Init
<1>7. Place!HomeTypeOK
  BY <1>1, <1>4, <1>5, <1>6 DEF Place!Init, Place!HomeTypeOK, Devices
<1>8. HolderOK
  BY <1>3, <1>4 DEF HolderOK, Holder, Inherited, Place!Init
<1> QED BY <1>7, <1>8 DEF HomeInv, SessionOK, LeftOK, SentOK, PlaceOf, Place!OneAccountPerId, Place!Init

\* The session of the browser and of the tab.
LEMMA SessionKeeps ==
  ASSUME Place!HomeAssumption, HomeInv,
         Place!OpenPage \/ (\E u \in Users : Place!SignIn(u)) \/ Place!SignOut
           \/ Place!RenderSession \/ Place!RefreshToken
  PROVE  HomeInv'
<1>1. MaxChanges \in Nat /\ None \notin Users /\ None # Broken
  BY DEF Place!HomeAssumption
<1>2. changes \in 0..MaxChanges /\ (Place!Change => changes' \in 0..MaxChanges)
  BY <1>1 DEF HomeInv, Place!HomeTypeOK, Place!Change
<1>3. CASE Place!OpenPage
  <2> DEFINE unseen == IF auth' = None THEN Place!Owners ELSE {}
  <2>1. /\ auth' \in {auth, None} /\ session' = None /\ effect' = TRUE /\ home' = None
        /\ homeLoadState' = "loading" /\ active' = None /\ migrated' = None /\ load' = None
        /\ map' = None /\ rows' = rows /\ device' = device /\ records' = records
        /\ behind' = [now |-> behind.now \cup unseen, ever |-> behind.ever \cup unseen]
    BY <1>3 DEF Place!OpenPage
  <2>2. /\ writes' \in Seq(Place!Write) /\ Len(writes') = Len(writes)
        /\ \A i \in DOMAIN writes' : i \in DOMAIN writes /\ writes'[i].home = writes[i].home
                                    /\ writes'[i].user = writes[i].user
    <3> DEFINE W(i) == IF writes[i].stage = "select" THEN [writes[i] EXCEPT !.stage = "gone"]
                       ELSE writes[i]
    <3>1. writes \in Seq(Place!Write) /\ writes' = [i \in DOMAIN writes |-> W(i)]
      BY <1>3 DEF HomeInv, Place!HomeTypeOK, Place!OpenPage
    <3>2. ASSUME NEW i \in DOMAIN writes
          PROVE  W(i) \in Place!Write /\ W(i).home = writes[i].home /\ W(i).user = writes[i].user
      <4>1. writes[i] \in Place!Write
        BY <3>1
      <4>2. ASSUME NEW w \in Place!Write
            PROVE  /\ [w EXCEPT !.stage = "gone"] \in Place!Write
                   /\ [w EXCEPT !.stage = "gone"].home = w.home
                   /\ [w EXCEPT !.stage = "gone"].user = w.user
        BY DEF Place!Write
      <4> QED BY <4>1, <4>2
    <3> HIDE DEF W
    <3>3. DOMAIN writes = 1..Len(writes) /\ Len(writes) \in Nat
      BY <3>1
    <3> QED BY <3>1, <3>2, <3>3
  <2>3. disturbed' \subseteq Users
    <3>1. \A i \in DOMAIN writes : writes[i] \in Place!Write
      BY DEF HomeInv, Place!HomeTypeOK
    <3>2. \A i \in DOMAIN writes : writes[i].user \in Users
      BY <3>1 DEF Place!Write
    <3> QED BY <1>3, <3>2 DEF Place!OpenPage, HomeInv, Place!HomeTypeOK
  <2>4. Place!Owners \subseteq Users
    <3>1. \A h \in ({device.home} \ {None, Broken}) \cup ({device.zoom} \ {None}) : h.by \in Users \cup {None}
      BY PlaceIs, HomeTypes
    <3>2. \A r \in records : r[2] \in Users \cup {None}
      BY DEF HomeInv, Place!HomeTypeOK
    <3> QED BY <3>1, <3>2 DEF Place!Owners
  <2>5. unseen \subseteq Users
    BY <2>4
  <2>6. /\ device.home \notin {None, Broken} => device.home.by \in Place!Owners \cup {None}
        /\ device.zoom # None => device.zoom.by \in Place!Owners \cup {None}
        /\ \A r \in records : r[1] = device.id => r[2] \in Place!Owners \cup {None}
    BY DEF Place!Owners
  <2> HIDE DEF unseen
  <2>7. /\ behind'.now = behind.now \cup unseen /\ behind'.ever = behind.ever \cup unseen
        /\ behind' \in [now: SUBSET Users, ever: SUBSET Users]
    BY <2>1, <2>5 DEF HomeInv, Place!HomeTypeOK
  <2>8. Place!HomeTypeOK'
    BY <1>2, <1>3, <2>1, <2>2, <2>3, <2>7 DEF Place!OpenPage, HomeInv, Place!HomeTypeOK
  <2>9. HolderOK'
    <3>1. CASE auth' = None
      <4>1. Holder' = None /\ Inherited' = behind'.now /\ Place!Owners \subseteq behind'.now
        BY <2>1, <2>7, <3>1 DEF Holder, Inherited, unseen
      <4> QED BY <2>1, <2>6, <4>1 DEF HomeInv, HolderOK
    <3>2. CASE auth' # None
      <4>1. Holder' = auth /\ Holder = auth /\ Inherited' = behind'.ever /\ Inherited = behind.ever
        BY <2>1, <3>2 DEF Holder, Inherited, HomeInv, SessionOK
      <4> QED BY <2>1, <2>7, <4>1 DEF HomeInv, HolderOK
    <3> QED BY <3>1, <3>2
  <2> QED BY <2>1, <2>2, <2>7, <2>8, <2>9
          DEF HomeInv, SessionOK, LeftOK, SentOK, PlaceOf, Place!OneAccountPerId
<1>4. ASSUME NEW u \in Users, Place!SignIn(u) PROVE HomeInv'
  <2>1. /\ auth = None /\ session = None /\ ~effect /\ auth' = u /\ active = None
        /\ UNCHANGED <<rows, device, behind, records, session, effect, home, homeLoadState, active,
                       migrated, load, writes, map, disturbed>>
    BY <1>4 DEF Place!SignIn, Place!tab, HomeInv, SessionOK
  <2>2. Holder = None
    BY <2>1 DEF Holder
  <2>3. Place!HomeTypeOK'
    BY <1>2, <1>4, <2>1 DEF Place!SignIn, HomeInv, Place!HomeTypeOK
  <2>4. HolderOK'
    BY <2>1, <2>2 DEF HomeInv, LeftOK, HolderOK, Inherited
  <2> QED BY <1>1, <2>1, <2>3, <2>4 DEF HomeInv, SessionOK, LeftOK, SentOK, PlaceOf, Place!OneAccountPerId
<1>5. CASE Place!SignOut
  <2>1. /\ auth # None /\ session = auth /\ ~effect /\ auth' = None /\ active = session
        /\ UNCHANGED <<rows, device, behind, records, session, effect, home, homeLoadState, active,
                       migrated, load, writes, map, disturbed>>
    BY <1>5 DEF Place!SignOut, Place!tab, HomeInv, SessionOK
  <2>2. Holder' = Holder
    BY <2>1 DEF Holder
  <2>3. Place!HomeTypeOK'
    BY <1>2, <1>5, <2>1 DEF Place!SignOut, HomeInv, Place!HomeTypeOK
  <2>4. HolderOK'
    BY <2>1, <2>2 DEF HomeInv, LeftOK, HolderOK, Inherited
  <2> QED BY <2>1, <2>3, <2>4 DEF HomeInv, SessionOK, LeftOK, SentOK, PlaceOf, Place!OneAccountPerId
<1>6. CASE Place!RenderSession \/ Place!RefreshToken
  <2>1. /\ ~effect /\ effect' = TRUE /\ session' = auth
        /\ UNCHANGED <<rows, device, auth, behind, records, home, homeLoadState, active, migrated,
                       load, writes, map, disturbed>>
    BY <1>6 DEF Place!RenderSession, Place!RefreshToken, Place!browser
  <2>2. Holder' = Holder
    BY <2>1 DEF Holder
  <2>3. changes' \in 0..MaxChanges
    BY <1>2, <1>6 DEF Place!RenderSession, Place!RefreshToken
  <2>4. Place!HomeTypeOK'
    BY <2>1, <2>3 DEF HomeInv, Place!HomeTypeOK
  <2>5. HolderOK'
    BY <2>1, <2>2 DEF HomeInv, LeftOK, HolderOK, Inherited
  <2> QED BY <2>1, <2>4, <2>5 DEF HomeInv, SessionOK, LeftOK, SentOK, PlaceOf, Place!OneAccountPerId
<1> QED BY <1>3, <1>4, <1>5, <1>6

\* The effect of a session: the holder is from then on who is signed in, and
\* what is left on the device is his.
LEMMA EffectKeeps == ASSUME Place!HomeAssumption, HomeInv, Place!Effect PROVE HomeInv'
<1>1. /\ None \notin Users /\ None # Broken /\ MaxIds \in Nat /\ MaxWrites \in Nat
  BY DEF Place!HomeAssumption
<1>2. /\ effect /\ effect' = FALSE
      /\ UNCHANGED <<rows, auth, records, session, writes, map, changes>>
  BY DEF Place!Effect
<1>3. CASE Place!SignedOutEffect
  <2>1. /\ session = None /\ active' = None /\ migrated' = None /\ home' = None
        /\ homeLoadState' = "ready" /\ load' = None /\ disturbed' = disturbed
        /\ behind' = [behind EXCEPT !.now = {}]
        /\ device' = [home |-> None, zoom |-> None, id |-> 0]
    BY <1>3 DEF Place!SignedOutEffect, Place!Cleaned
  <2>2. device' \in Devices /\ device'.home = None /\ device'.zoom = None /\ device'.id = 0
    BY <1>1, <2>1 DEF Devices
  <2>3. Place!HomeTypeOK'
    BY <1>2, <2>1, <2>2 DEF HomeInv, Place!HomeTypeOK, Devices
  <2>4. \A r \in records : r[1] # 0
    BY <1>1 DEF HomeInv, Place!HomeTypeOK
  <2>5. HolderOK'
    BY <1>2, <2>1, <2>2, <2>4 DEF HolderOK
  <2> QED BY <1>2, <2>1, <2>3, <2>5 DEF HomeInv, SessionOK, LeftOK, SentOK, PlaceOf, Place!OneAccountPerId
<1>4. CASE Place!GuestEffect
  <2> DEFINE local == Place!LoadLocalHome(device.home)
  <2>1. /\ session = None /\ active = None /\ active' = None /\ migrated' = None
        /\ home' = local /\ homeLoadState' = "ready" /\ load' = None /\ disturbed' = disturbed
        /\ behind' = behind
        /\ device' = [device EXCEPT !.home = local]
    BY <1>4 DEF Place!GuestEffect, Place!WasSignedIn
  <2>2. /\ local \in Place!Home \cup {None}
        /\ local # None => /\ device.home \notin {None, Broken}
                           /\ local.by = device.home.by /\ ~local.exact
    BY LocalIs, HomeTypes
  <2> HIDE DEF local
  <2>3. /\ device' \in Devices /\ device'.home = local /\ device'.zoom = device.zoom
        /\ device'.id = device.id
    BY <2>1, <2>2, DeviceIs, HomeTypes
  <2>4. Place!HomeTypeOK'
    BY <1>2, <2>1, <2>2, <2>3 DEF HomeInv, Place!HomeTypeOK, Devices
  <2>5. Holder' = Holder
    BY <1>2, <2>1 DEF Holder
  <2>6. HolderOK'
    BY <1>2, <2>1, <2>2, <2>3, <2>5 DEF HomeInv, HolderOK, Inherited
  <2> QED BY <1>2, <2>1, <2>4, <2>6 DEF HomeInv, SessionOK, LeftOK, SentOK, PlaceOf, Place!OneAccountPerId
<1>5. CASE Place!KnownEffect
  <2>1. /\ session # None /\ active = session /\ homeLoadState' = "ready" /\ load' = None
        /\ UNCHANGED <<device, behind, home, active, migrated, disturbed>>
    BY <1>5 DEF Place!KnownEffect, Place!StateWhenMigrated
  <2>2. Place!HomeTypeOK'
    BY <1>2, <2>1 DEF HomeInv, Place!HomeTypeOK
  <2>3. Holder' = Holder
    BY <1>2, <2>1 DEF Holder
  <2>4. HolderOK'
    BY <1>2, <2>1, <2>3 DEF HomeInv, HolderOK, Inherited
  <2> QED BY <1>2, <2>1, <2>2, <2>4 DEF HomeInv, SessionOK, LeftOK, SentOK, PlaceOf, Place!OneAccountPerId
<1>6. CASE Place!LoadEffect
  <2>1. /\ session # None /\ active' = session /\ homeLoadState' = "loading"
        /\ load' = [user |-> session, migration |-> 0] /\ device' = device /\ behind' = behind
        /\ (home' = home /\ migrated' = migrated) \/ (home' = None /\ migrated' = None)
    BY <1>6 DEF Place!LoadEffect
  <2>2. auth = session /\ active \in {session, None} /\ session \in Users
    BY <1>2, <2>1, HomeTypes DEF HomeInv, SessionOK
  <2>3. Holder' = Holder /\ load'.user = session
    BY <1>2, <2>1, <2>2 DEF Holder
  <2>4. disturbed' \subseteq Users /\ 0 \in 0..MaxWrites
    BY <1>1, <1>6, <2>2 DEF Place!LoadEffect, HomeInv, Place!HomeTypeOK
  <2>5. Place!HomeTypeOK'
    BY <1>2, <2>1, <2>2, <2>4 DEF HomeInv, Place!HomeTypeOK
  <2>6. HolderOK'
    BY <1>2, <2>1, <2>3 DEF HomeInv, HolderOK, Inherited
  <2>7. SessionOK'
    BY <1>2, <2>1, <2>2, <2>3 DEF SessionOK
  <2> QED BY <1>2, <2>1, <2>5, <2>6, <2>7 DEF HomeInv, LeftOK, SentOK, PlaceOf, Place!OneAccountPerId
<1> QED BY <1>3, <1>4, <1>5, <1>6 DEF Place!Effect

WriteOK(w) == PlaceOf(w.home, w.user) /\ ~w.home.exact

\* One more is sent.
LEMMA SendKeeps ==
  ASSUME HomeInv, NEW w \in Place!Write, WriteOK(w), MaxWrites \in Nat, Len(writes) < MaxWrites
  PROVE  /\ Append(writes, w) \in Seq(Place!Write) /\ Len(Append(writes, w)) \in 0..MaxWrites
         /\ \A i \in DOMAIN Append(writes, w) : WriteOK(Append(writes, w)[i])
<1>1. writes \in Seq(Place!Write) /\ \A i \in DOMAIN writes : WriteOK(writes[i])
  BY DEF HomeInv, Place!HomeTypeOK, SentOK, WriteOK
<1>2. /\ Append(writes, w) \in Seq(Place!Write) /\ Len(Append(writes, w)) = Len(writes) + 1
      /\ Len(writes) \in Nat
      /\ \A i \in 1..Len(writes) : Append(writes, w)[i] = writes[i]
      /\ Append(writes, w)[Len(writes) + 1] = w
  BY <1>1, AppendProperties
<1>3. ASSUME NEW i \in DOMAIN Append(writes, w) PROVE WriteOK(Append(writes, w)[i])
  <2>1. i \in 1..Len(writes) + 1 /\ DOMAIN writes = 1..Len(writes)
    BY <1>1, <1>2
  <2>2. CASE i = Len(writes) + 1
    BY <1>2, <2>2
  <2>3. CASE i # Len(writes) + 1
    <3>1. i \in 1..Len(writes)
      BY <1>2, <2>1, <2>3
    <3> QED BY <1>1, <1>2, <2>1, <3>1
  <2> QED BY <2>2, <2>3
<1> QED BY <1>2, <1>3

\* One goes on.
LEMMA StageKeeps ==
  ASSUME HomeInv, NEW i \in DOMAIN writes,
         NEW s \in {"select", "update", "insert", "done", "failed", "gone"},
         writes' = [writes EXCEPT ![i].stage = s]
  PROVE  /\ writes' \in Seq(Place!Write) /\ Len(writes') = Len(writes)
         /\ \A j \in DOMAIN writes' : WriteOK(writes'[j])
<1> DEFINE w == [writes[i] EXCEPT !.stage = s]
<1>1. writes \in Seq(Place!Write) /\ \A j \in DOMAIN writes : WriteOK(writes[j])
  BY DEF HomeInv, Place!HomeTypeOK, SentOK, WriteOK
<1>2. w \in Place!Write /\ w.home = writes[i].home /\ w.user = writes[i].user
  <2>1. writes[i] \in Place!Write
    BY <1>1
  <2>2. ASSUME NEW v \in Place!Write
        PROVE  /\ [v EXCEPT !.stage = s] \in Place!Write
               /\ [v EXCEPT !.stage = s].home = v.home /\ [v EXCEPT !.stage = s].user = v.user
    BY DEF Place!Write
  <2> QED BY <2>1, <2>2
<1>3. writes' = [writes EXCEPT ![i] = w]
  OBVIOUS
<1> HIDE DEF w
<1>4. /\ writes' \in Seq(Place!Write) /\ Len(writes') = Len(writes)
      /\ \A j \in 1..Len(writes) : writes'[j] = IF j = i THEN w ELSE writes[j]
  BY <1>1, <1>2, <1>3, ExceptSeq
<1>5. DOMAIN writes = 1..Len(writes) /\ DOMAIN writes' = 1..Len(writes)
  BY <1>1, <1>4
<1> QED BY <1>1, <1>2, <1>4, <1>5 DEF WriteOK

\* The load of the account's row and the migration of the device's place.
LEMMA LoadingKeeps == ASSUME Place!HomeAssumption, HomeInv, Place!Loading PROVE HomeInv'
<1>1. /\ None \notin Users /\ None # Broken /\ MaxIds \in Nat /\ MaxWrites \in Nat
  BY DEF Place!HomeAssumption
<1>2. /\ UNCHANGED <<rows, auth, behind, records, session, effect, active, map, changes>>
      /\ load # None /\ load.user = active /\ load.user \in Users
  <2>1. load # None /\ load \in [user: Users, migration: 0..MaxWrites]
    BY DEF Place!Loading, Place!LoadFails, Place!LoadFindsRow, Place!LoadFindsNone,
           Place!MigrationReturns, Place!LoadAnswered, HomeInv, Place!HomeTypeOK
  <2> QED BY <2>1 DEF Place!Loading, Place!LoadFails, Place!LoadFindsRow, Place!LoadFindsNone,
                      Place!MigrationReturns, Place!browser, HomeInv, SessionOK
<1>3. Holder' = Holder /\ Holder = active /\ Inherited = behind.ever
  BY <1>1, <1>2 DEF Holder, Inherited
<1>4. CASE Place!LoadFails
  <2>1. /\ home' = None /\ homeLoadState' = "error" /\ load' = None
        /\ UNCHANGED <<device, migrated, writes, disturbed>>
    BY <1>4 DEF Place!LoadFails, Place!browser
  <2>2. Place!HomeTypeOK'
    BY <1>2, <2>1 DEF HomeInv, Place!HomeTypeOK
  <2>3. HolderOK'
    BY <1>2, <1>3, <2>1 DEF HomeInv, HolderOK, Inherited
  <2> QED BY <1>2, <2>1, <2>2, <2>3 DEF HomeInv, SessionOK, LeftOK, SentOK, PlaceOf, Place!OneAccountPerId
<1>5. CASE Place!LoadFindsRow
  <2> DEFINE h == Place!Normalized(rows[auth])
  <2>1. /\ auth = load.user /\ rows[auth] # None /\ home' = h /\ homeLoadState' = "ready"
        /\ migrated' = load.user /\ device' = [device EXCEPT !.home = h] /\ load' = None
        /\ UNCHANGED <<writes, disturbed>>
    BY <1>5 DEF Place!LoadFindsRow
  <2>2. h \in Place!Home /\ h.by = rows[auth].by /\ ~h.exact /\ PlaceOf(rows[auth], active)
    <3>1. rows[auth] \in Place!Home
      BY <1>2, <2>1, HomeTypes
    <3>2. PlaceOf(rows[auth], auth)
      BY <1>2, <2>1 DEF HomeInv, SentOK
    <3> QED BY <1>2, <2>1, <3>1, <3>2, PlaceIs
  <2> HIDE DEF h
  <2>3. /\ device' \in Devices /\ device'.home = h /\ device'.zoom = device.zoom
        /\ device'.id = device.id
    BY <2>1, <2>2, DeviceIs, HomeTypes
  <2>4. Place!HomeTypeOK'
    BY <1>2, <2>1, <2>2, <2>3 DEF HomeInv, Place!HomeTypeOK, Devices
  <2>5. HolderOK'
    BY <1>2, <1>3, <2>1, <2>2, <2>3 DEF HomeInv, HolderOK, Inherited, PlaceOf
  <2> QED BY <1>2, <2>1, <2>4, <2>5 DEF HomeInv, SessionOK, LeftOK, SentOK, PlaceOf, Place!OneAccountPerId
<1>6. CASE Place!LoadFindsNone
  <2> DEFINE local == Place!LoadLocalHome(device.home)
             new == [user |-> load.user, home |-> local, migration |-> TRUE, stage |-> "insert"]
  <2>1. /\ device' = [device EXCEPT !.home = local] /\ home' = local
        /\ \/ /\ homeLoadState' = "ready" /\ migrated' = load.user /\ load' = None
              /\ UNCHANGED <<writes, disturbed>>
           \/ /\ local # None /\ Len(writes) < MaxWrites /\ writes' = Append(writes, new)
              /\ load' = [load EXCEPT !.migration = Len(writes')]
              /\ disturbed' \subseteq disturbed \cup {load.user}
              /\ UNCHANGED <<homeLoadState, migrated>>
    BY <1>6 DEF Place!LoadFindsNone
  <2>2. /\ local \in Place!Home \cup {None}
        /\ local # None => /\ device.home \notin {None, Broken} /\ local \in Place!Home
                           /\ local.by = device.home.by /\ ~local.exact
    BY LocalIs, HomeTypes
  <2> HIDE DEF local
  <2>3. /\ device' \in Devices /\ device'.home = local /\ device'.zoom = device.zoom
        /\ device'.id = device.id
    BY <2>1, <2>2, DeviceIs, HomeTypes
  <2>4. HolderOK'
    BY <1>2, <1>3, <2>1, <2>2, <2>3 DEF HomeInv, HolderOK, Inherited
  <2>5. CASE load' = None /\ UNCHANGED <<writes, disturbed>>
             /\ homeLoadState' = "ready" /\ migrated' = load.user
    <3>1. Place!HomeTypeOK'
      BY <1>2, <2>1, <2>2, <2>3, <2>5 DEF HomeInv, Place!HomeTypeOK, Devices
    <3> QED BY <1>2, <2>4, <2>5, <3>1
            DEF HomeInv, SessionOK, LeftOK, SentOK, PlaceOf, Place!OneAccountPerId
  <2>6. CASE /\ local # None /\ Len(writes) < MaxWrites /\ writes' = Append(writes, new)
             /\ load' = [load EXCEPT !.migration = Len(writes')]
             /\ disturbed' \subseteq disturbed \cup {load.user}
             /\ UNCHANGED <<homeLoadState, migrated>>
    <3>1. new \in Place!Write /\ WriteOK(new)
      BY <1>2, <1>3, <2>2, <2>6 DEF Place!Write, WriteOK, HomeInv, HolderOK, Inherited, PlaceOf
    <3> HIDE DEF new
    <3>2. /\ writes' \in Seq(Place!Write) /\ Len(writes') \in 0..MaxWrites
          /\ \A i \in DOMAIN writes' : WriteOK(writes'[i])
      BY <1>1, <2>6, <3>1, SendKeeps
    <3>3. load' \in [user: Users, migration: 0..MaxWrites] /\ load'.user = load.user
      <4>1. load \in [user: Users, migration: 0..MaxWrites]
        BY <1>2 DEF HomeInv, Place!HomeTypeOK
      <4> DEFINE n == Len(writes')
      <4>2. n \in 0..MaxWrites /\ load' = [load EXCEPT !.migration = n]
        BY <2>6, <3>2
      <4> HIDE DEF n
      <4> QED BY <4>1, <4>2
    <3>4. Place!HomeTypeOK'
      BY <1>1, <1>2, <2>1, <2>2, <2>3, <2>6, <3>2, <3>3 DEF HomeInv, Place!HomeTypeOK, Devices
    <3>5. SessionOK' /\ SentOK'
      BY <1>2, <3>2, <3>3 DEF HomeInv, SessionOK, LeftOK, SentOK, PlaceOf, WriteOK
    <3> QED BY <1>2, <2>3, <2>4, <3>4, <3>5 DEF HomeInv, LeftOK, Place!OneAccountPerId
  <2> QED BY <2>1, <2>5, <2>6
<1>7. CASE Place!MigrationReturns
  <2>1. /\ migrated' \in {load.user, migrated} /\ homeLoadState' = "ready" /\ load' = None
        /\ UNCHANGED <<device, home, writes, disturbed>>
    BY <1>7 DEF Place!MigrationReturns, Place!browser
  <2>2. Place!HomeTypeOK'
    BY <1>2, <2>1 DEF HomeInv, Place!HomeTypeOK
  <2>3. HolderOK'
    BY <1>2, <1>3, <2>1 DEF HomeInv, HolderOK, Inherited
  <2> QED BY <1>2, <2>1, <2>2, <2>3 DEF HomeInv, SessionOK, LeftOK, SentOK, PlaceOf, Place!OneAccountPerId
<1> QED BY <1>4, <1>5, <1>6, <1>7 DEF Place!Loading

\* What was sent goes on, and is written for the account it was sent for.
LEMMA SavingKeeps == ASSUME Place!HomeAssumption, HomeInv, Place!Saving PROVE HomeInv'
<1>1. PICK i \in DOMAIN writes : Place!Select(i) \/ Place!WriteCommits(i) \/ Place!WriteFails(i)
  BY DEF Place!Saving
<1>2. /\ UNCHANGED <<device, auth, behind, records, session, effect, home, homeLoadState, active,
                     migrated, load, map, changes>>
      /\ \E s \in {"update", "insert", "done", "failed"} : writes' = [writes EXCEPT ![i].stage = s]
      /\ disturbed' \subseteq disturbed \cup {writes[i].user}
      /\ rows' = rows \/ rows' = [rows EXCEPT ![writes[i].user] = writes[i].home]
  BY <1>1 DEF Place!Select, Place!WriteCommits, Place!WriteFails, Place!browser, Place!tab
<1>3. /\ writes' \in Seq(Place!Write) /\ Len(writes') = Len(writes)
      /\ \A j \in DOMAIN writes' : WriteOK(writes'[j])
  BY <1>1, <1>2, StageKeeps
<1>4. writes[i].user \in Users /\ writes[i].home \in Place!Home /\ WriteOK(writes[i])
  <2>1. writes[i] \in Place!Write
    BY DEF HomeInv, Place!HomeTypeOK
  <2> QED BY <1>1, <2>1 DEF Place!Write, HomeInv, SentOK, WriteOK
<1>5. rows' \in [Users -> Place!Home \cup {None}] /\ \A u \in Users : rows'[u] # None => PlaceOf(rows'[u], u)
  BY <1>2, <1>4 DEF HomeInv, Place!HomeTypeOK, SentOK, WriteOK
<1>6. Place!HomeTypeOK'
  BY <1>2, <1>3, <1>4, <1>5 DEF HomeInv, Place!HomeTypeOK
<1>7. HolderOK'
  BY <1>2 DEF HomeInv, HolderOK, Holder, Inherited
<1> QED BY <1>2, <1>3, <1>5, <1>6, <1>7 DEF HomeInv, SessionOK, LeftOK, SentOK, WriteOK, PlaceOf, Place!OneAccountPerId

\* A place is chosen.
LEMMA SetHomeKeeps ==
  ASSUME Place!HomeAssumption, HomeInv, NEW p \in Places, Place!SetHome(p) PROVE HomeInv'
<1>1. None \notin Users /\ MaxWrites \in Nat
  BY DEF Place!HomeAssumption
<1> DEFINE full == [by |-> session, place |-> p, exact |-> TRUE]
           h == Place!Normalized(full)
           new == [user |-> session, home |-> h, migration |-> FALSE, stage |-> "select"]
<1>2. /\ home' = h /\ homeLoadState' = "ready" /\ device' = [device EXCEPT !.home = h]
      /\ UNCHANGED <<rows, auth, behind, records, session, effect, active, migrated, load, map, changes>>
      /\ \/ UNCHANGED <<writes, disturbed>>
         \/ /\ session # None /\ Len(writes) < MaxWrites /\ writes' = Append(writes, new)
            /\ disturbed' \subseteq disturbed \cup {session}
  BY DEF Place!SetHome
<1>3. h \in Place!Home /\ h.by = session /\ ~h.exact
  <2>1. full \in Place!Home /\ full.by = session
    BY HomeTypes DEF Place!Home
  <2> QED BY <2>1, PlaceIs
<1> HIDE DEF h
<1>4. Holder' = Holder /\ session \in {Holder, None}
  BY <1>2 DEF Holder, HomeInv, SessionOK
<1>5. /\ device' \in Devices /\ device'.home = h /\ device'.zoom = device.zoom
      /\ device'.id = device.id
  BY <1>2, <1>3, DeviceIs, HomeTypes
<1>6. HolderOK'
  BY <1>2, <1>3, <1>4, <1>5 DEF HomeInv, HolderOK, Inherited
<1>7. /\ writes' \in Seq(Place!Write) /\ Len(writes') \in 0..MaxWrites
      /\ \A i \in DOMAIN writes' : WriteOK(writes'[i])
      /\ disturbed' \subseteq Users
  <2>1. CASE UNCHANGED <<writes, disturbed>>
    BY <1>1, <2>1 DEF HomeInv, Place!HomeTypeOK, SentOK, WriteOK
  <2>2. CASE /\ session # None /\ Len(writes) < MaxWrites /\ writes' = Append(writes, new)
             /\ disturbed' \subseteq disturbed \cup {session}
    <3>1. session \in Users
      BY <2>2, HomeTypes
    <3>2. new \in Place!Write /\ WriteOK(new)
      BY <1>3, <3>1 DEF Place!Write, WriteOK, PlaceOf
    <3> HIDE DEF new
    <3> QED BY <1>1, <2>2, <3>1, <3>2, SendKeeps DEF HomeInv, Place!HomeTypeOK
  <2> QED BY <1>2, <2>1, <2>2
<1>8. Place!HomeTypeOK'
  BY <1>1, <1>2, <1>3, <1>5, <1>7 DEF HomeInv, Place!HomeTypeOK, Devices
<1> QED BY <1>2, <1>5, <1>6, <1>7, <1>8
        DEF HomeInv, SessionOK, LeftOK, SentOK, WriteOK, PlaceOf, Place!OneAccountPerId

\* The map and the analytics.
LEMMA MapKeeps ==
  ASSUME Place!HomeAssumption, HomeInv, Place!OpenMap \/ Place!CentreMap PROVE HomeInv'
<1>1. /\ UNCHANGED <<rows, auth, behind, records, session, effect, home, homeLoadState, active, migrated,
                     load, writes, disturbed, changes>>
      /\ Holder' = Holder
  BY DEF Place!OpenMap, Place!CentreMap, Place!tab, Holder
<1>2. None # Broken
  BY DEF Place!HomeAssumption
<1>3. CASE Place!OpenMap
  <2> DEFINE local == Place!LoadLocalHome(device.home)
             v == Place!InitialView
  <2>1. /\ local \in Place!Home \cup {None}
        /\ local # None => /\ device.home \notin {None, Broken} /\ local \in Place!Home
                           /\ local.by = device.home.by /\ ~local.exact
    BY LocalIs, HomeTypes
  <2>2. v.at \in Place!Home \cup {None} /\ v.near \in BOOLEAN /\ Place!Restored(v) \in BOOLEAN
    <3>1. v = [at |-> local, near |-> TRUE] \/ v = [at |-> None, near |-> FALSE]
      BY DEF Place!InitialView, Place!Nation
    <3>2. Place!Restored(v) \in BOOLEAN
      BY DEF Place!Restored
    <3>3. CASE v = [at |-> local, near |-> TRUE]
      BY <2>1, <3>2, <3>3
    <3>4. CASE v = [at |-> None, near |-> FALSE]
      BY <3>2, <3>4
    <3> QED BY <3>1, <3>3, <3>4
  <2>3. device' = [device EXCEPT !.home = local]
    BY <1>3 DEF Place!OpenMap
  <2>4. map' = [at |-> v.at, near |-> v.near, restored |-> Place!Restored(v), fitted |-> None,
                home |-> None, state |-> "loading", decided |-> FALSE]
    BY <1>3 DEF Place!OpenMap
  <2> HIDE DEF v, local
  <2>5. map' \in Place!Map
    BY <2>2, <2>4 DEF Place!Map
  <2>6. /\ device' \in Devices /\ device'.home = local /\ device'.zoom = device.zoom
        /\ device'.id = device.id
    BY <2>1, <2>3, DeviceIs, HomeTypes
  <2>7. Place!HomeTypeOK'
    BY <1>1, <2>5, <2>6 DEF HomeInv, Place!HomeTypeOK, Devices
  <2>8. HolderOK'
    BY <1>1, <2>1, <2>6 DEF HomeInv, HolderOK, Inherited
  <2> QED BY <1>1, <2>6, <2>7, <2>8 DEF HomeInv, SessionOK, LeftOK, SentOK, PlaceOf, Place!OneAccountPerId
<1>4. CASE Place!CentreMap
  <2>1. device' = device \/ (Place!Shown # None /\ device' = [device EXCEPT !.zoom = Place!Shown])
    BY <1>4 DEF Place!CentreMap
  <2>2. /\ Place!Shown \in Place!Home \cup {None}
        /\ (Place!Shown # None => Place!Shown.by \in {Holder, None} \cup Inherited)
    BY HomeTypes DEF Place!Shown, HomeInv, HolderOK
  <2>3. /\ device' \in Devices /\ device'.home = device.home /\ device'.id = device.id
        /\ device'.zoom \in {device.zoom, Place!Shown}
    <3>1. CASE device' = device
      BY <3>1, HomeTypes
    <3>2. CASE device' = [device EXCEPT !.zoom = Place!Shown]
      BY <2>2, <3>2, DeviceIs, HomeTypes
    <3> QED BY <2>1, <3>1, <3>2
  <2>4. map' \in Place!Map
    <3> DEFINE shown == Place!Shown
               state == Place!ShownState
               m1 == [map EXCEPT !.home = shown]
               m2 == [m1 EXCEPT !.state = state]
               m3 == [m2 EXCEPT !.decided = map.decided \/ shown # None]
    <3>1. map \in Place!Map /\ map.decided \in BOOLEAN /\ map.near \in BOOLEAN
      BY <1>4 DEF HomeInv, Place!HomeTypeOK, Place!CentreMap, Place!Map
    <3>2. state \in {"loading", "ready", "error"}
      BY DEF Place!ShownState, HomeInv, Place!HomeTypeOK
    <3>3. \/ map' = m3
          \/ \E n \in BOOLEAN :
               map' = [[[m3 EXCEPT !.at = None] EXCEPT !.restored = FALSE] EXCEPT !.near = n]
          \/ map' = [m3 EXCEPT !.restored = FALSE]
          \/ map' = [[[[m3 EXCEPT !.at = shown] EXCEPT !.near = TRUE] EXCEPT !.restored = FALSE]
                       EXCEPT !.fitted = shown]
      <4>1. m3 = [map EXCEPT !.home = Place!Shown, !.state = Place!ShownState,
                             !.decided = @ \/ Place!Shown # None]
        BY <3>1 DEF Place!Map
      <4>2. (IF map.restored THEN FALSE ELSE map.near) \in BOOLEAN
        BY <3>1
      <4> HIDE DEF m3, state
      <4> QED BY <1>4, <4>1, <4>2 DEF Place!CentreMap
    <3> HIDE DEF shown, state
    <3>4. shown \in Place!Home \cup {None}
      BY <2>2 DEF shown
    <3>5. ASSUME NEW m \in Place!Map
          PROVE  /\ \A x \in Place!Home \cup {None} : /\ [m EXCEPT !.home = x] \in Place!Map
                                                     /\ [m EXCEPT !.at = x] \in Place!Map
                                                     /\ [m EXCEPT !.fitted = x] \in Place!Map
                 /\ \A b \in BOOLEAN : /\ [m EXCEPT !.decided = b] \in Place!Map
                                       /\ [m EXCEPT !.near = b] \in Place!Map
                                       /\ [m EXCEPT !.restored = b] \in Place!Map
                 /\ \A x \in {"loading", "ready", "error"} : [m EXCEPT !.state = x] \in Place!Map
      BY DEF Place!Map
    <3>6. m1 \in Place!Map
      BY <3>1, <3>4, <3>5
    <3> HIDE DEF m1
    <3>7. m2 \in Place!Map
      BY <3>2, <3>5, <3>6
    <3> HIDE DEF m2
    <3>8. m3 \in Place!Map
      <4>1. (map.decided \/ shown # None) \in BOOLEAN
        OBVIOUS
      <4> QED BY <3>5, <3>7, <4>1
    <3> HIDE DEF m3
    <3>9. None \in Place!Home \cup {None} /\ TRUE \in BOOLEAN /\ FALSE \in BOOLEAN
      OBVIOUS
    <3>10. \A n \in BOOLEAN :
             [[[m3 EXCEPT !.at = None] EXCEPT !.restored = FALSE] EXCEPT !.near = n] \in Place!Map
      <4>1. [m3 EXCEPT !.at = None] \in Place!Map
        BY <3>5, <3>8, <3>9
      <4>2. [[m3 EXCEPT !.at = None] EXCEPT !.restored = FALSE] \in Place!Map
        BY <3>5, <3>9, <4>1
      <4> QED BY <3>5, <4>2
    <3>11. [[[[m3 EXCEPT !.at = shown] EXCEPT !.near = TRUE] EXCEPT !.restored = FALSE]
              EXCEPT !.fitted = shown] \in Place!Map
      <4>1. [m3 EXCEPT !.at = shown] \in Place!Map
        BY <3>4, <3>5, <3>8
      <4>2. [[m3 EXCEPT !.at = shown] EXCEPT !.near = TRUE] \in Place!Map
        BY <3>5, <3>9, <4>1
      <4>3. [[[m3 EXCEPT !.at = shown] EXCEPT !.near = TRUE] EXCEPT !.restored = FALSE] \in Place!Map
        BY <3>5, <3>9, <4>2
      <4> QED BY <3>4, <3>5, <4>3
    <3>12. [m3 EXCEPT !.restored = FALSE] \in Place!Map
      BY <3>5, <3>8, <3>9
    <3> QED BY <3>3, <3>8, <3>10, <3>11, <3>12
  <2>5. Place!HomeTypeOK'
    BY <1>1, <2>2, <2>3, <2>4 DEF HomeInv, Place!HomeTypeOK, Devices
  <2>6. HolderOK'
    BY <1>1, <2>2, <2>3 DEF HomeInv, HolderOK, Inherited
  <2> QED BY <1>1, <2>3, <2>5, <2>6 DEF HomeInv, SessionOK, LeftOK, SentOK, PlaceOf, Place!OneAccountPerId
<1> QED BY <1>3, <1>4

LEMMA TrackKeeps == ASSUME Place!HomeAssumption, HomeInv, Place!TrackEvent PROVE HomeInv'
<1>1. /\ UNCHANGED <<rows, auth, behind, session, effect, home, homeLoadState, active, migrated,
                     load, writes, map, disturbed, changes>>
      /\ session = auth /\ ~effect
  BY DEF Place!TrackEvent, Place!tab
<1>2. PICK id : /\ IF device.id # 0 THEN id = device.id ELSE id \in (1..MaxIds) \ Place!Ids
                /\ device' = [device EXCEPT !.id = id]
                /\ records' = records \cup {<<id, auth>>}
  BY DEF Place!TrackEvent
<1>3. MaxIds \in Nat /\ None \notin Users
  BY DEF Place!HomeAssumption
<1>4. id \in 1..MaxIds /\ id \in 0..MaxIds
  BY <1>2, <1>3, DeviceIs, HomeTypes
<1>5. /\ device' \in Devices /\ device'.home = device.home /\ device'.zoom = device.zoom
      /\ device'.id = id
  BY <1>2, <1>4, DeviceIs, HomeTypes
<1>6. Holder' = Holder /\ Holder = auth
  BY <1>1 DEF Holder, HomeInv, SessionOK
<1>7. \A r \in records : r[1] = id => r[2] \in {auth, None} \cup Inherited
  BY <1>2, <1>6 DEF Place!Ids, HomeInv, HolderOK
<1>8. records' \subseteq (1..MaxIds) \X (Users \cup {None})
  BY <1>2, <1>4, HomeTypes DEF HomeInv, Place!HomeTypeOK
<1>9. Place!HomeTypeOK'
  BY <1>1, <1>5, <1>8 DEF HomeInv, Place!HomeTypeOK, Devices
<1>10. HolderOK'
  BY <1>1, <1>2, <1>5, <1>6, <1>7 DEF HomeInv, HolderOK, Inherited
<1>11. Place!OneAccountPerId'
  <2> SUFFICES ASSUME NEW r \in records', NEW s \in records', r[1] = s[1],
                      None \notin {r[2], s[2]}
               PROVE  r[2] = s[2] \/ {r[2], s[2]} \cap behind.ever # {}
    BY <1>1 DEF Place!OneAccountPerId
  <2>1. CASE r \in records /\ s \in records
    BY <2>1 DEF HomeInv, Place!OneAccountPerId
  <2>2. CASE r = <<id, auth>> \/ s = <<id, auth>>
    <3>1. Inherited \subseteq behind.ever
      BY DEF Inherited, HomeInv, LeftOK
    <3> QED BY <1>2, <1>7, <2>2, <3>1
  <2> QED BY <1>2, <2>1, <2>2
<1> QED BY <1>1, <1>9, <1>10, <1>11 DEF HomeInv, SessionOK, LeftOK, SentOK, PlaceOf

\* What belongs to an account in this browser stays with it: for any number of
\* accounts, places, saves, changes of session, seen or unseen, and reopened
\* pages; but for what an unseen end of its session left there (AppContext.tsx
\* 14-22, 64-67, 201-205, 291-294, analytics.ts 13-16).
LEMMA PlacesStayWithAccounts ==
  Place!HomeAssumption => (Place!Spec => [](Place!HomeTypeOK /\ Place!AccountsStayApart))
<1> SUFFICES ASSUME Place!HomeAssumption
             PROVE  Place!Spec => [](Place!HomeTypeOK /\ Place!AccountsStayApart)
  OBVIOUS
<1>1. Place!Init => HomeInv
  BY HomeInit
<1>2. HomeInv /\ [Place!Next]_(Place!vars) => HomeInv'
  <2> SUFFICES ASSUME HomeInv, Place!Next \/ UNCHANGED Place!vars PROVE HomeInv'
    OBVIOUS
  <2>1. CASE UNCHANGED Place!vars
    BY <2>1 DEF Place!vars, Place!browser, Place!tab, HomeInv, Place!HomeTypeOK, SessionOK,
                LeftOK, HolderOK, Holder, Inherited, SentOK, PlaceOf, Place!OneAccountPerId
  <2> QED BY <2>1, SessionKeeps, EffectKeeps, LoadingKeeps, SavingKeeps, SetHomeKeeps, MapKeeps,
             TrackKeeps DEF Place!Next, Place!Person
<1>3. HomeInv => Place!HomeTypeOK /\ Place!AccountsStayApart
  <2> SUFFICES ASSUME HomeInv PROVE Place!AccountsStayApart
    BY DEF HomeInv
  <2>1. Place!PlaceStaysWithItsAccount
    BY DEF HomeInv, HolderOK, Holder, Inherited, SentOK, PlaceOf, SessionOK,
           Place!PlaceStaysWithItsAccount, Place!IsOf, Place!Shown, Place!HomeSessionReady
  <2>2. Place!NothingExactKept
    BY DEF HomeInv, HolderOK, SentOK, Place!NothingExactKept, Place!Shown
  <2>3. Place!NothingLeftBehind
    BY DEF HomeInv, SessionOK, HolderOK, Holder, Inherited, Place!NothingLeftBehind,
           Place!IsOf
  <2> QED BY <2>1, <2>2, <2>3 DEF HomeInv, Place!AccountsStayApart
<1> QED BY <1>1, <1>2, <1>3, PTL DEF Place!Spec

-----------------------------------------------------------------------------
(* The sheet of a school (SheetDrafts); what it shares with UserData is     *)
(* declared there.                                                          *)

CONSTANTS Schools, Invalid, Fields, MaxEdits, MaxSaves

VARIABLES server, owner, notes, school, drafts, dirty, typed, saving, jobs, lost, edits, saves

Sheet == INSTANCE SheetDrafts

\* The fields that hold a text of the user from the start.
Filled == Fields \ {"dept"}

TextOf(u, s) == [by: {u}, at: {s}, n: 0..MaxEdits, quiet: BOOLEAN]

\* A record of a user at a school: his texts, none of which is missing.
RecordOK(r, u, s) ==
  /\ r = [f \in Sheet!AllFields |-> r[f]]
  /\ \A f \in Sheet!AllFields : r[f] \in TextOf(u, s) \cup {None}
  /\ \A f \in Filled : r[f] # None

NotesOK(own, n) ==
  /\ n = [s \in Schools |-> n[s]]
  /\ own = None => n = Sheet!Nothing
  /\ own # None => \A s \in Schools : RecordOK(n[s], own, s)

\* The inputs hold texts typed here, those of the data once they are there,
\* and what was edited.
DraftsOK(d, u, own, s, edited) ==
  /\ d = [f \in Sheet!AllFields |-> d[f]]
  /\ s = None => d = Sheet!Blank
  /\ s # None =>
       \A f \in Sheet!AllFields :
         /\ d[f] \in TextOf(u, s) \cup {None, Invalid}
         /\ d[f] = Invalid => f = "dept"
         /\ f \in Filled /\ (own # None \/ f \in edited) => d[f] # None

JobOK(j) ==
  /\ j \in Sheet!Job
  /\ j.memo \in TextOf(j.user, j.school) \cup {None}
  /\ j.mineNote \in TextOf(j.user, j.school) \cup {None}
  /\ j.dept \in TextOf(j.user, j.school) \cup {None}
  /\ j.prev \in TextOf(j.user, j.school) \cup {None}
  /\ j.kind \in Filled => j.prev # None
  /\ j.kind # "dept" => /\ "memo" \in Filled => j.memo # None
                        /\ "mineNote" \in Filled => j.mineNote # None

ServerOK(sv) ==
  /\ sv = [u \in Users |-> sv[u]]
  /\ \A u \in Users : sv[u] = [s \in Schools |-> sv[u][s]]
  /\ \A u \in Users, s \in Schools : RecordOK(sv[u][s], u, s)

DataOK ==
  /\ session \in Users \cup {None} /\ owner \in {None, session}
  /\ loading \in BOOLEAN /\ failed \in BOOLEAN /\ (loading => session # None)
  /\ NotesOK(owner, notes)

InputsOK ==
  /\ school \in Schools \cup {None} /\ DraftsOK(drafts, session, owner, school, dirty)
  /\ dirty \subseteq Fields /\ typed \subseteq Fields /\ lost \subseteq Sheet!Text

SheetInv ==
  /\ ServerOK(server) /\ DataOK /\ InputsOK
  /\ \A j \in jobs : JobOK(j)
  /\ saving \in BOOLEAN /\ (saving => \E j \in jobs : j.kind # "dept" /\ j.live)
  /\ edits \in 0..MaxEdits /\ saves \in 0..MaxSaves /\ changes \in 0..MaxLoads

LEMMA SheetFacts ==
  ASSUME Sheet!SheetDraftsAssumption
  PROVE  /\ None \notin Users /\ None \notin Schools /\ Invalid # None
         /\ Filled \subseteq {"memo", "mineNote"} /\ Fields \subseteq Sheet!AllFields
         /\ \A u \in Users \cup {None}, s \in Schools :
              /\ TextOf(u, s) \subseteq Sheet!Text
              /\ None \notin TextOf(u, s) /\ Invalid \notin TextOf(u, s)
         /\ MaxEdits \in Nat /\ MaxSaves \in Nat /\ MaxLoads \in Nat
<1>1. \A u \in Users \cup {None}, s \in Schools : TextOf(u, s) \subseteq Sheet!Text
  BY DEF TextOf, Sheet!Text
<1> QED BY <1>1 DEF Sheet!SheetDraftsAssumption, Sheet!AllFields, Filled

\* One field of a record is written.
LEMMA RecordKeeps ==
  ASSUME Sheet!SheetDraftsAssumption, NEW u, NEW s, NEW r, RecordOK(r, u, s),
         NEW f \in Sheet!AllFields, NEW x \in TextOf(u, s) \cup {None}, f \in Filled => x # None
  PROVE  RecordOK([r EXCEPT ![f] = x], u, s)
BY SheetFacts DEF RecordOK

\* So is one in the row of a user, and in what the tab has of it.
LEMMA ServerKeeps ==
  ASSUME Sheet!SheetDraftsAssumption, NEW sv, ServerOK(sv), NEW u \in Users, NEW s \in Schools,
         NEW f \in Sheet!AllFields, NEW x \in TextOf(u, s) \cup {None}, f \in Filled => x # None
  PROVE  ServerOK([sv EXCEPT ![u][s][f] = x])
<1> DEFINE r == [sv[u][s] EXCEPT ![f] = x]
           row == [sv[u] EXCEPT ![s] = r]
           new == [sv EXCEPT ![u] = row]
<1>1. RecordOK(r, u, s)
  BY RecordKeeps DEF ServerOK
<1>2. new = [sv EXCEPT ![u][s][f] = x]
  OBVIOUS
<1> HIDE DEF r
<1>3. row = [t \in Schools |-> IF t = s THEN r ELSE sv[u][t]]
  BY DEF ServerOK
<1> HIDE DEF row
<1>4. new = [v \in Users |-> IF v = u THEN row ELSE sv[v]]
  BY DEF ServerOK
<1> HIDE DEF new
<1>5. ServerOK(new)
  BY <1>1, <1>3, <1>4 DEF ServerOK
<1> QED BY <1>2, <1>5

LEMMA NotesKeep ==
  ASSUME Sheet!SheetDraftsAssumption, NEW own \in Users, NEW n, NotesOK(own, n),
         NEW s \in Schools, NEW f \in Sheet!AllFields,
         NEW x \in TextOf(own, s) \cup {None}, f \in Filled => x # None
  PROVE  NotesOK(own, [n EXCEPT ![s][f] = x])
<1> DEFINE r == [n[s] EXCEPT ![f] = x]
           new == [n EXCEPT ![s] = r]
<1>1. RecordOK(r, own, s) /\ own # None
  BY RecordKeeps, SheetFacts DEF NotesOK
<1>2. new = [n EXCEPT ![s][f] = x]
  OBVIOUS
<1> HIDE DEF r
<1>3. new = [t \in Schools |-> IF t = s THEN r ELSE n[t]]
  BY DEF NotesOK
<1> HIDE DEF new
<1>4. NotesOK(own, new)
  BY <1>1, <1>3 DEF NotesOK
<1> QED BY <1>2, <1>4

\* What the sheet is given of a school.
LEMMA VisibleIs ==
  ASSUME Sheet!SheetDraftsAssumption, NEW u \in Users \cup {None}, NEW own \in {None, u}, NEW n,
         NotesOK(own, n), NEW s \in Schools
  PROVE  LET v == Sheet!Visible(u, own, n)[s]
         IN  /\ v = [f \in Sheet!AllFields |-> v[f]]
             /\ \A f \in Sheet!AllFields :
                  /\ v[f] \in TextOf(u, s) \cup {None} /\ v[f] # Invalid
                  /\ f \in Filled /\ own # None => v[f] # None
<1>1. CASE own = u /\ u # None
  <2>1. Sheet!Visible(u, own, n)[s] = n[s] /\ RecordOK(n[s], u, s)
    BY <1>1 DEF Sheet!Visible, NotesOK
  <2> QED BY <2>1, SheetFacts DEF RecordOK
<1>2. CASE own = None
  <2>1. Sheet!Visible(u, own, n)[s] = Sheet!Blank
    BY <1>2 DEF Sheet!Visible, Sheet!Nothing
  <2> QED BY <1>2, <2>1, SheetFacts DEF Sheet!Blank
<1> QED BY <1>1, <1>2

\* Data arrive: what was edited stays, the rest is filled in.
LEMMA ArriveKeeps ==
  ASSUME Sheet!SheetDraftsAssumption, InputsOK, DataOK, DataOK', Sheet!DataArrive,
         session' = session, school' = school, dirty' = dirty,
         owner' = owner \/ ~Sheet!IsLoading(session', owner', loading', failed')
  PROVE  InputsOK'
<1>1. CASE UNCHANGED <<drafts, typed, lost>>
             /\ (school = None \/ Sheet!IsLoading(session', owner', loading', failed'))
  <2>1. school = None \/ owner' = owner
    BY <1>1
  <2> QED BY <1>1, <2>1 DEF InputsOK, DraftsOK
<1>2. CASE school # None /\ ~Sheet!IsLoading(session', owner', loading', failed')
  <2> DEFINE v == Sheet!Visible(session', owner', notes')[school]
             now == Sheet!Rehydrated(drafts, v, dirty')
  <2>1. /\ drafts' = now /\ typed' \subseteq typed
        /\ lost' \subseteq lost \cup Sheet!Unsaved(drafts)
    BY <1>2 DEF Sheet!DataArrive
  <2>2. now = [f \in Sheet!AllFields |-> IF f \in dirty THEN drafts[f] ELSE v[f]]
    BY DEF Sheet!Rehydrated
  <2>3. school \in Schools /\ session \in Users \cup {None}
    BY <1>2 DEF InputsOK, DataOK
  <2>4. /\ v = [f \in Sheet!AllFields |-> v[f]]
        /\ \A f \in Sheet!AllFields :
             /\ v[f] \in TextOf(session, school) \cup {None} /\ v[f] # Invalid
             /\ f \in Filled /\ owner' # None => v[f] # None
    <3>1. session' \in Users \cup {None} /\ owner' \in {None, session'} /\ NotesOK(owner', notes')
      BY DEF DataOK
    <3> QED BY <2>3, <3>1, VisibleIs
  <2> HIDE DEF v
  <2>5. DraftsOK(now, session, owner', school, dirty)
    BY <1>2, <2>2, <2>4 DEF InputsOK, DraftsOK
  <2>6. Sheet!Unsaved(drafts) \subseteq Sheet!Text
    <3> SUFFICES ASSUME NEW x \in Sheet!Unsaved(drafts) PROVE x \in Sheet!Text
      OBVIOUS
    <3>1. PICK f \in typed : x = drafts[f]
      BY DEF Sheet!Unsaved
    <3>2. x \notin {None, Invalid} /\ f \in Sheet!AllFields
      BY SheetFacts DEF Sheet!Unsaved, InputsOK
    <3> QED BY <1>2, <2>3, <3>1, <3>2, SheetFacts DEF InputsOK, DraftsOK
  <2> HIDE DEF now
  <2> QED BY <2>1, <2>5, <2>6 DEF InputsOK
<1> QED BY <1>1, <1>2 DEF Sheet!DataArrive

LEMMA BlankIs ==
  ASSUME Sheet!SheetDraftsAssumption, NEW u \in Users \cup {None}, NEW s \in Schools \cup {None}
  PROVE  DraftsOK(Sheet!Blank, u, None, s, {})
<1>1. Invalid # None /\ Sheet!Blank = [f \in Sheet!AllFields |-> None]
  BY SheetFacts DEF Sheet!Blank
<1> QED BY <1>1 DEF DraftsOK

LEMMA SheetInit == Sheet!SheetDraftsAssumption /\ Sheet!Init => SheetInv
<1> SUFFICES ASSUME Sheet!SheetDraftsAssumption, Sheet!Init PROVE SheetInv
  OBVIOUS
<1>1. \A n \in {MaxEdits, MaxSaves, MaxLoads} : 0 \in 0..n
  BY SheetFacts
<1>2. ASSUME NEW u \in Users, NEW s \in Schools PROVE RecordOK(Sheet!Stored(u, s), u, s)
  <2> DEFINE text == [by |-> u, at |-> s, n |-> 0, quiet |-> TRUE]
  <2>1. text \in TextOf(u, s)
    BY <1>1 DEF TextOf
  <2>2. text # None
    BY <2>1, SheetFacts
  <2>3. Sheet!Stored(u, s) = [f \in Sheet!AllFields |-> IF f \in Fields \ {"dept"} THEN text ELSE None]
    BY DEF Sheet!Stored
  <2> HIDE DEF text
  <2> DEFINE r == Sheet!Stored(u, s)
  <2>4. /\ r = [f \in Sheet!AllFields |-> r[f]]
        /\ \A f \in Sheet!AllFields : r[f] \in {text, None}
        /\ \A f \in Filled : f \in Sheet!AllFields /\ r[f] = text
    BY <2>3, SheetFacts DEF Filled
  <2> HIDE DEF r
  <2>5. RecordOK(r, u, s)
    BY <2>1, <2>2, <2>4 DEF RecordOK
  <2> QED BY <2>5 DEF r
<1>3. ServerOK(server)
  BY <1>2 DEF Sheet!Init, ServerOK
<1>4. DataOK
  BY DEF Sheet!Init, DataOK, NotesOK, Sheet!Nothing
<1>5. DraftsOK(drafts, session, owner, school, dirty)
  BY BlankIs DEF Sheet!Init
<1> QED BY <1>1, <1>3, <1>4, <1>5 DEF Sheet!Init, SheetInv, InputsOK

\* The session changes, the data are loaded.
LEMMA DataKeeps ==
  ASSUME Sheet!SheetDraftsAssumption, SheetInv,
         (\E u \in Users \cup {None} : Sheet!ChangeSession(u)) \/ Sheet!Reload
           \/ \E ok \in BOOLEAN : Sheet!Load(ok)
  PROVE  SheetInv'
<1>1. None \notin Users /\ MaxLoads \in Nat
  BY SheetFacts
<1>2. ASSUME NEW u \in Users \cup {None}, Sheet!ChangeSession(u) PROVE SheetInv'
  <2>1. /\ session' = u /\ owner' = None /\ notes' = Sheet!Nothing /\ failed' = FALSE
        /\ loading' = (u # None) /\ drafts' = Sheet!Blank /\ dirty' = {} /\ typed' = {}
        /\ saving' = FALSE /\ changes' = changes + 1 /\ changes < MaxLoads
        /\ UNCHANGED <<server, school, jobs, lost, edits, saves>>
    BY <1>2 DEF Sheet!ChangeSession
  <2>2. DataOK'
    BY <1>1, <2>1 DEF DataOK, NotesOK, Sheet!Nothing
  <2>3. DraftsOK(drafts', session', owner', school', dirty')
    BY <2>1, BlankIs DEF SheetInv, InputsOK
  <2>4. changes' \in 0..MaxLoads
    BY <1>1, <2>1 DEF SheetInv
  <2> QED BY <2>1, <2>2, <2>3, <2>4 DEF SheetInv, InputsOK
<1>3. CASE Sheet!Reload
  <2>1. /\ session # None /\ loading' = TRUE /\ changes' = changes + 1 /\ changes < MaxLoads
        /\ UNCHANGED <<server, session, owner, failed, notes, school, drafts, dirty, typed, saving,
                       jobs, lost, edits, saves>>
    BY <1>3 DEF Sheet!Reload, Sheet!sheet
  <2>2. changes' \in 0..MaxLoads
    BY <1>1, <2>1 DEF SheetInv
  <2> QED BY <2>1, <2>2 DEF SheetInv, DataOK, InputsOK
<1>4. ASSUME NEW ok \in BOOLEAN, Sheet!Load(ok) PROVE SheetInv'
  <2>1. /\ loading /\ loading' = FALSE /\ failed' = ~ok /\ session' = session /\ dirty' = dirty
        /\ \/ owner' = session /\ notes' = server[session]
           \/ owner' = owner /\ notes' = notes
        /\ Sheet!DataArrive
        /\ UNCHANGED <<server, school, saving, jobs, edits, saves, changes>>
    BY <1>4 DEF Sheet!Load
  <2>2. session \in Users
    BY <1>1, <2>1 DEF SheetInv, DataOK
  <2>3. NotesOK(owner', notes')
    BY <1>1, <2>1, <2>2 DEF SheetInv, DataOK, ServerOK, NotesOK
  <2>4. DataOK'
    BY <2>1, <2>2, <2>3 DEF SheetInv, DataOK
  <2>5. owner' = owner \/ ~Sheet!IsLoading(session', owner', loading', failed')
    BY <2>1 DEF Sheet!IsLoading
  <2>6. InputsOK'
    BY <2>1, <2>4, <2>5, ArriveKeeps DEF SheetInv
  <2> QED BY <2>1, <2>4, <2>6 DEF SheetInv
<1> QED BY <1>2, <1>3, <1>4

\* Schools are opened and closed, texts typed.
LEMMA TypingKeeps ==
  ASSUME Sheet!SheetDraftsAssumption, SheetInv,
         (\E s \in Schools : Sheet!Open(s)) \/ Sheet!Close \/ \E f \in Fields : Sheet!Type(f)
  PROVE  SheetInv'
<1>1. None \notin Schools /\ MaxEdits \in Nat /\ Invalid # None
  BY SheetFacts
<1>2. ASSUME NEW s \in Schools, Sheet!Open(s) PROVE SheetInv'
  <2> DEFINE v == Sheet!Visible(session, owner, notes)[s]
  <2>1. /\ school' = s /\ dirty' = {} /\ typed' = {} /\ drafts' = v
        /\ saving' \in BOOLEAN /\ (saving' => saving)
        /\ UNCHANGED <<server, session, owner, loading, failed, notes, jobs, lost, edits, saves,
                       changes>>
    BY <1>2 DEF Sheet!Open, Sheet!Refilled, Sheet!data, SheetInv
  <2>2. /\ v = [f \in Sheet!AllFields |-> v[f]]
        /\ \A f \in Sheet!AllFields :
             /\ v[f] \in TextOf(session, s) \cup {None} /\ v[f] # Invalid
             /\ f \in Filled /\ owner # None => v[f] # None
    BY VisibleIs DEF SheetInv, DataOK
  <2> HIDE DEF v
  <2>3. DraftsOK(drafts', session', owner', school', dirty')
    BY <1>1, <2>1, <2>2 DEF DraftsOK
  <2>4. DataOK'
    BY <2>1 DEF SheetInv, DataOK
  <2> QED BY <2>1, <2>3, <2>4 DEF SheetInv, InputsOK
<1>3. CASE Sheet!Close
  <2>1. /\ school' = None /\ drafts' = Sheet!Blank /\ dirty' = {} /\ typed' = {} /\ saving' = FALSE
        /\ jobs' = {[j EXCEPT !.live = FALSE] : j \in jobs}
        /\ UNCHANGED <<server, session, owner, loading, failed, notes, lost, edits, saves, changes>>
    BY <1>3 DEF Sheet!Close, Sheet!data
  <2>2. ASSUME NEW j, JobOK(j) PROVE JobOK([j EXCEPT !.live = FALSE])
    <3> DEFINE k == [j EXCEPT !.live = FALSE]
    <3>1. /\ k \in Sheet!Job /\ k.kind = j.kind /\ k.user = j.user /\ k.school = j.school
          /\ k.memo = j.memo /\ k.mineNote = j.mineNote /\ k.dept = j.dept /\ k.prev = j.prev
      <4>1. j \in Sheet!Job
        BY <2>2 DEF JobOK
      <4> QED BY <4>1 DEF Sheet!Job
    <3> HIDE DEF k
    <3>2. /\ TextOf(k.user, k.school) = TextOf(j.user, j.school)
          /\ JobOK(j)
      BY <2>2, <3>1
    <3>3. JobOK(k)
      BY <3>1, <3>2 DEF JobOK
    <3> QED BY <3>3 DEF k
  <2>3. \A j \in jobs' : JobOK(j)
    BY <2>1, <2>2 DEF SheetInv
  <2>4. DraftsOK(drafts', session', owner', school', dirty')
    BY <2>1 DEF DraftsOK, Sheet!Blank
  <2>5. DataOK'
    BY <2>1 DEF SheetInv, DataOK
  <2> QED BY <2>1, <2>3, <2>4, <2>5 DEF SheetInv, InputsOK
<1>4. ASSUME NEW f \in Fields, Sheet!Type(f) PROVE SheetInv'
  <2>1. PICK t \in {[by |-> session, at |-> school, n |-> edits + 1, quiet |-> jobs = {}]} \cup
                     (IF f = "dept" THEN {Invalid} ELSE {}) : drafts' = [drafts EXCEPT ![f] = t]
    BY <1>4 DEF Sheet!Type
  <2>2. /\ school # None /\ edits < MaxEdits /\ edits' = edits + 1
        /\ dirty' = dirty \cup {f} /\ typed' = typed \cup {f}
        /\ UNCHANGED <<server, session, owner, loading, failed, notes, school, saving, jobs, lost,
                       saves, changes>>
    BY <1>4 DEF Sheet!Type, Sheet!data
  <2>3. school \in Schools /\ session \in Users \cup {None} /\ f \in Sheet!AllFields
    BY <2>2, SheetFacts DEF SheetInv, InputsOK, DataOK
  <2>4. edits' \in 0..MaxEdits
    BY <1>1, <2>2 DEF SheetInv
  <2>5. /\ t \in TextOf(session, school) \cup {Invalid} /\ (t = Invalid => f = "dept") /\ t # None
    <3>1. CASE t = Invalid /\ f = "dept"
      BY <1>1, <3>1
    <3>2. CASE t = [by |-> session, at |-> school, n |-> edits + 1, quiet |-> jobs = {}]
      <4>1. t \in TextOf(session, school)
        BY <2>2, <2>4, <3>2 DEF TextOf
      <4> QED BY <2>3, <4>1, SheetFacts
    <3> QED BY <2>1, <3>1, <3>2
  <2>6. DraftsOK(drafts', session', owner', school', dirty')
    BY <2>1, <2>2, <2>3, <2>5 DEF SheetInv, InputsOK, DraftsOK
  <2>7. DataOK'
    BY <2>2 DEF SheetInv, DataOK
  <2> QED BY <2>2, <2>4, <2>6, <2>7 DEF SheetInv, InputsOK
<1> QED BY <1>2, <1>3, <1>4

\* A save is of what is in the inputs, and those hold the data by then.
LEMMA NewJobIs ==
  ASSUME Sheet!SheetDraftsAssumption, SheetInv, NEW kind \in {"memo", "dept"}, school # None,
         owner = session, session # None, saves < MaxSaves,
         kind = "dept" => drafts["dept"] # Invalid,
         NEW f, f = kind
  PROVE  LET j == Sheet!NewJob(kind, notes[school][f])
         IN  JobOK(j) /\ j.live /\ j.kind = kind
<1> DEFINE j == Sheet!NewJob(kind, notes[school][f])
<1>1. /\ school \in Schools /\ session \in Users /\ saves + 1 \in 1..MaxSaves
  BY SheetFacts DEF SheetInv, InputsOK, DataOK
<1>2. \A g \in Sheet!AllFields :
        /\ notes[school][g] \in TextOf(session, school) \cup {None}
        /\ g \in Filled => notes[school][g] # None
  BY <1>1 DEF SheetInv, DataOK, NotesOK, RecordOK
<1>3. \A g \in Sheet!AllFields :
        /\ drafts[g] \in TextOf(session, school) \cup {None, Invalid}
        /\ drafts[g] = Invalid => g = "dept"
        /\ g \in Filled => drafts[g] # None
  BY <1>1 DEF SheetInv, InputsOK, DraftsOK
<1>4. TextOf(session, school) \subseteq Sheet!Text
  BY <1>1, SheetFacts
<1>5. \A g : g \in Sheet!AllFields <=> g \in {"memo", "mineNote", "dept"}
  BY DEF Sheet!AllFields
<1> DEFINE memo == IF kind = "dept" THEN None ELSE drafts["memo"]
           note == IF kind = "dept" THEN None ELSE drafts["mineNote"]
           dept == IF kind = "dept" THEN drafts["dept"] ELSE None
           known == notes[school]["mineNote"]
           prev == notes[school][f]
<1>6. j = [kind |-> kind, user |-> session, school |-> school, id |-> saves + 1, memo |-> memo,
           mineNote |-> note, dept |-> dept, known |-> known, prev |-> prev, live |-> TRUE]
  BY DEF Sheet!NewJob
<1>7. /\ {memo, note, dept, known, prev} \subseteq TextOf(session, school) \cup {None}
      /\ kind \in Filled => prev # None
      /\ kind # "dept" => /\ "memo" \in Filled => memo # None
                          /\ "mineNote" \in Filled => note # None
  BY <1>2, <1>3, <1>5
<1> HIDE DEF memo, note, dept, known, prev, j
<1>8. /\ j.kind = kind /\ j.user = session /\ j.school = school /\ j.memo = memo
      /\ j.mineNote = note /\ j.dept = dept /\ j.prev = prev /\ j.live
  BY <1>6
<1>9. j \in Sheet!Job
  BY <1>1, <1>4, <1>6, <1>7 DEF Sheet!Job
<1>10. JobOK(j)
  BY <1>7, <1>8, <1>9 DEF JobOK
<1> QED BY <1>8, <1>10 DEF j

\* A save is pressed; other pages change the data.
LEMMA SaveKeeps ==
  ASSUME Sheet!SheetDraftsAssumption, SheetInv, Sheet!Save \/ Sheet!SaveDept \/ Sheet!Consent
  PROVE  SheetInv'
<1>1. school # None /\ session # None /\ owner = session
  BY DEF Sheet!Save, Sheet!SaveDept, Sheet!Consent, Sheet!MaySave, Sheet!Loading, Sheet!IsLoading
<1>2. /\ school \in Schools /\ session \in Users /\ owner \in Users /\ NotesOK(owner, notes)
      /\ DataOK /\ InputsOK /\ {"memo", "dept"} \subseteq Sheet!AllFields
      /\ None \notin Schools /\ MaxSaves \in Nat
  BY <1>1, SheetFacts DEF SheetInv, DataOK, InputsOK, Sheet!AllFields
<1>3. \A g \in Sheet!AllFields :
        /\ drafts[g] \in TextOf(session, school) \cup {None, Invalid}
        /\ drafts[g] = Invalid => g = "dept"
        /\ g \in Filled => drafts[g] # None
  BY <1>1, <1>2 DEF InputsOK, DraftsOK
<1>4. ASSUME NEW kind \in {"memo", "dept"}, saves < MaxSaves,
             kind = "dept" => drafts["dept"] # Invalid, saves' = saves + 1,
             jobs' = jobs \cup {Sheet!NewJob(kind, notes[school][kind])},
             notes' = [notes EXCEPT ![school][kind] = drafts[kind]],
             saving' = saving \/ (saving' = TRUE /\ kind = "memo"),
             UNCHANGED <<session, owner, loading, failed, dirty>>, Sheet!DataArrive,
             UNCHANGED <<server, school, edits, changes>>
      PROVE  SheetInv'
  <2> DEFINE k == Sheet!NewJob(kind, notes[school][kind])
  <2>1. JobOK(k) /\ k.live /\ k.kind = kind
    BY <1>1, <1>4, NewJobIs
  <2>2. NotesOK(owner, notes')
    BY <1>1, <1>2, <1>3, <1>4, NotesKeep
  <2>3. DataOK'
    BY <1>2, <1>4, <2>2 DEF DataOK
  <2>4. InputsOK'
    BY <1>2, <1>4, <2>3, ArriveKeeps
  <2> HIDE DEF k
  <2>5. jobs' = jobs \cup {k}
    BY <1>4 DEF k
  <2>6. (\A j \in jobs' : JobOK(j)) /\ saving' \in BOOLEAN
    BY <1>4, <2>1, <2>5 DEF SheetInv
  <2>7. saving' => \E j \in jobs' : j.kind # "dept" /\ j.live
    BY <1>4, <2>1, <2>5 DEF SheetInv
  <2>8. saves' \in 0..MaxSaves
    BY <1>2, <1>4 DEF SheetInv
  <2> QED BY <1>4, <2>3, <2>4, <2>6, <2>7, <2>8 DEF SheetInv
<1>5. CASE Sheet!Save
  <2>1. /\ saves < MaxSaves /\ saves' = saves + 1 /\ saving' = TRUE
        /\ jobs' = jobs \cup {Sheet!NewJob("memo", notes[school]["memo"])}
        /\ notes' = [notes EXCEPT ![school]["memo"] = drafts["memo"]]
        /\ UNCHANGED <<session, owner, loading, failed, dirty>> /\ Sheet!DataArrive
        /\ UNCHANGED <<server, school, edits, changes>>
    BY <1>5 DEF Sheet!Save
  <2> QED BY <1>4, <2>1
<1>6. CASE Sheet!SaveDept
  <2>1. /\ saves < MaxSaves /\ saves' = saves + 1 /\ drafts["dept"] # Invalid
        /\ jobs' = jobs \cup {Sheet!NewJob("dept", notes[school]["dept"])}
        /\ notes' = [notes EXCEPT ![school]["dept"] = drafts["dept"]]
        /\ UNCHANGED <<session, owner, loading, failed, dirty, saving>> /\ Sheet!DataArrive
        /\ UNCHANGED <<server, school, edits, changes>>
    BY <1>6 DEF Sheet!SaveDept
  <2> QED BY <1>4, <2>1
<1>7. CASE Sheet!Consent
  <2>1. /\ UNCHANGED <<session, owner, loading, failed, notes, dirty>> /\ Sheet!DataArrive
        /\ UNCHANGED <<server, school, saving, jobs, edits, saves, changes>>
    BY <1>7 DEF Sheet!Consent, Sheet!data
  <2>2. DataOK'
    BY <1>2, <2>1 DEF DataOK
  <2>3. InputsOK'
    BY <1>2, <2>1, <2>2, ArriveKeeps
  <2> QED BY <2>1, <2>2, <2>3 DEF SheetInv
<1> QED BY <1>5, <1>6, <1>7

\* What a save carries may be stored where it is sent.
LEMMA JobText ==
  ASSUME Sheet!SheetDraftsAssumption, NEW j, JobOK(j)
  PROVE  /\ j.user \in Users /\ j.school \in Schools /\ j.kind \in Sheet!AllFields
         /\ {j[j.kind], j.prev} \subseteq TextOf(j.user, j.school) \cup {None}
         /\ j.kind \in Filled => j[j.kind] # None /\ j.prev # None
         /\ j.kind = "memo" => j[j.kind] = j.memo
<1>1. j.user \in Users /\ j.school \in Schools /\ j.kind \in {"memo", "mineNote", "dept"}
  BY DEF JobOK, Sheet!Job
<1>2. "dept" \notin Filled
  BY DEF Filled
<1>3. CASE j.kind = "memo"
  BY <1>1, <1>3 DEF JobOK, Sheet!AllFields
<1>4. CASE j.kind = "mineNote"
  BY <1>1, <1>4 DEF JobOK, Sheet!AllFields
<1>5. CASE j.kind = "dept"
  BY <1>1, <1>2, <1>5 DEF JobOK, Sheet!AllFields
<1> QED BY <1>1, <1>3, <1>4, <1>5

\* The answers to what was sent.
LEMMA AnswerKeeps ==
  ASSUME Sheet!SheetDraftsAssumption, SheetInv, NEW j \in jobs,
         Sheet!SaveFails(j) \/ Sheet!SendNote(j) \/ Sheet!NoteRefused(j) \/ Sheet!SaveDone(j)
  PROVE  SheetInv'
<1>1. /\ JobOK(j) /\ j.user \in Users /\ j.school \in Schools /\ j.kind \in Sheet!AllFields
      /\ {j[j.kind], j.prev} \subseteq TextOf(j.user, j.school) \cup {None}
      /\ j.kind \in Filled => j[j.kind] # None /\ j.prev # None
      /\ j.kind = "memo" => j[j.kind] = j.memo
  BY JobText DEF SheetInv
<1>2. ServerOK(server) /\ DataOK /\ InputsOK
  BY DEF SheetInv
<1>3. ServerOK([server EXCEPT ![j.user][j.school][j.kind] = j[j.kind]])
  BY <1>1, <1>2, ServerKeeps
<1>4. Sheet!SavingAfter(j, TRUE) \in BOOLEAN /\ Sheet!SavingAfter(j, FALSE) \in BOOLEAN
  BY DEF Sheet!SavingAfter
<1>5. \A ok : Sheet!SavingAfter(j, ok) => \E i \in jobs \ {j} : i.kind # "dept" /\ i.live
  BY DEF Sheet!SavingAfter, SheetInv
<1>6. CASE Sheet!SaveFails(j)
  <2>1. /\ jobs' = jobs \ {j} /\ saving' = Sheet!SavingAfter(j, FALSE)
        /\ \/ server' = [server EXCEPT ![j.user][j.school][j.kind] = j[j.kind]]
           \/ server' = server
        /\ \/ /\ Sheet!Ready(j) /\ notes' = [notes EXCEPT ![j.school][j.kind] = j.prev]
           \/ notes' = notes
        /\ UNCHANGED <<session, owner, loading, failed, dirty>> /\ Sheet!DataArrive
        /\ UNCHANGED <<school, edits, saves, changes>>
    BY <1>6 DEF Sheet!SaveFails
  <2>2. NotesOK(owner, notes')
    <3>1. CASE Sheet!Ready(j) /\ notes' = [notes EXCEPT ![j.school][j.kind] = j.prev]
      <4>1. owner = j.user
        BY <3>1 DEF Sheet!Ready
      <4> QED BY <1>1, <1>2, <3>1, <4>1, NotesKeep DEF DataOK
    <3> QED BY <1>2, <2>1, <3>1 DEF DataOK
  <2>3. DataOK'
    BY <1>2, <2>1, <2>2 DEF DataOK
  <2>4. InputsOK'
    BY <1>2, <2>1, <2>3, ArriveKeeps
  <2> QED BY <1>2, <1>3, <1>4, <1>5, <2>1, <2>3, <2>4 DEF SheetInv
<1>7. CASE Sheet!SendNote(j)
  <2> DEFINE k == [j EXCEPT !.kind = "mineNote", !.prev = notes[j.school].mineNote]
             p == [j EXCEPT !.kind = "mineNote"]
             q == [p EXCEPT !.prev = notes[j.school]["mineNote"]]
  <2>1. /\ Sheet!Ready(j) /\ Sheet!NoteRemains(j) /\ jobs' = (jobs \ {j}) \cup {k}
        /\ server' = [server EXCEPT ![j.user][j.school]["memo"] = j.memo]
        /\ notes' = [notes EXCEPT ![j.school]["mineNote"] = j.mineNote]
        /\ UNCHANGED <<session, owner, loading, failed, dirty, saving>> /\ Sheet!DataArrive
        /\ UNCHANGED <<school, edits, saves, changes>>
    BY <1>7 DEF Sheet!SendNote
  <2>2. owner = j.user /\ j.kind = "memo"
    BY <2>1 DEF Sheet!Ready, Sheet!NoteRemains
  <2>3. server' = [server EXCEPT ![j.user][j.school][j.kind] = j[j.kind]]
    BY <1>1, <2>1, <2>2
  <2>4. /\ "mineNote" \in Sheet!AllFields
        /\ j.mineNote \in TextOf(j.user, j.school) \cup {None}
        /\ "mineNote" \in Filled => j.mineNote # None
    BY <1>1, <2>2 DEF JobOK, Sheet!AllFields
  <2>5. NotesOK(owner, notes')
    BY <1>1, <1>2, <2>1, <2>2, <2>4, NotesKeep DEF DataOK
  <2>6. DataOK'
    BY <1>2, <2>1, <2>5 DEF DataOK
  <2>7. InputsOK'
    BY <1>2, <2>1, <2>6, ArriveKeeps
  <2>8. /\ notes[j.school]["mineNote"] \in TextOf(j.user, j.school) \cup {None}
        /\ "mineNote" \in Filled => notes[j.school]["mineNote"] # None
    BY <1>1, <1>2, <2>2, <2>4, SheetFacts DEF DataOK, NotesOK, RecordOK
  <2>9. TextOf(j.user, j.school) \subseteq Sheet!Text
    BY <1>1, SheetFacts
  <2> DEFINE old == notes[j.school]["mineNote"]
  <2>10. k = q
    OBVIOUS
  <2> HIDE DEF k, old
  <2>11. /\ p \in Sheet!Job /\ p.kind = "mineNote" /\ p.user = j.user /\ p.school = j.school
         /\ p.memo = j.memo /\ p.mineNote = j.mineNote /\ p.dept = j.dept /\ p.live = j.live
    <3>1. j \in Sheet!Job
      BY <1>1 DEF JobOK
    <3> QED BY <3>1 DEF Sheet!Job
  <2> HIDE DEF p
  <2>12. old \in Sheet!Text \cup {None}
    BY <2>8, <2>9 DEF old
  <2>13. /\ q \in Sheet!Job /\ q.kind = "mineNote" /\ q.user = j.user /\ q.school = j.school
         /\ q.memo = j.memo /\ q.mineNote = j.mineNote /\ q.dept = j.dept /\ q.live = j.live
         /\ q.prev = old
    BY <2>11, <2>12 DEF Sheet!Job, old
  <2> HIDE DEF q
  <2>14. TextOf(q.user, q.school) = TextOf(j.user, j.school)
    BY <2>13
  <2>15. /\ old \in TextOf(j.user, j.school) \cup {None}
         /\ "mineNote" \in Filled => old # None
    BY <2>8 DEF old
  <2>16. JobOK(q)
    BY <1>1, <2>2, <2>13, <2>14, <2>15 DEF JobOK
  <2>17. jobs' = (jobs \ {j}) \cup {q}
    BY <2>1, <2>10
  <2>18. \A i \in jobs' : JobOK(i)
    BY <2>16, <2>17 DEF SheetInv
  <2>19. saving' \in BOOLEAN /\ (saving' => \E i \in jobs' : i.kind # "dept" /\ i.live)
    BY <2>1, <2>13, <2>17 DEF SheetInv
  <2>20. ServerOK(server') /\ edits' \in 0..MaxEdits /\ saves' \in 0..MaxSaves /\ changes' \in 0..MaxLoads
    BY <1>3, <2>1, <2>3 DEF SheetInv
  <2> QED BY <2>6, <2>7, <2>18, <2>19, <2>20 DEF SheetInv
<1>8. CASE Sheet!NoteRefused(j)
  <2>1. /\ Sheet!NoteRemains(j) /\ jobs' = jobs \ {j}
        /\ server' = [server EXCEPT ![j.user][j.school]["memo"] = j.memo]
        /\ saving' = Sheet!SavingAfter(j, TRUE)
        /\ UNCHANGED <<session, owner, loading, failed, notes, school, drafts, dirty, typed, lost,
                       edits, saves, changes>>
    BY <1>8 DEF Sheet!NoteRefused, Sheet!data
  <2>2. server' = [server EXCEPT ![j.user][j.school][j.kind] = j[j.kind]]
    BY <1>1, <2>1 DEF Sheet!NoteRemains
  <2>3. DataOK' /\ InputsOK'
    BY <1>2, <2>1 DEF DataOK, InputsOK
  <2> QED BY <1>3, <1>4, <1>5, <2>1, <2>2, <2>3 DEF SheetInv
<1>9. CASE Sheet!SaveDone(j)
  <2>1. /\ jobs' = jobs \ {j} /\ saving' = Sheet!SavingAfter(j, TRUE)
        /\ server' = [server EXCEPT ![j.user][j.school][j.kind] = j[j.kind]]
        /\ dirty' \subseteq dirty
        /\ UNCHANGED <<session, owner, loading, failed, notes, school, drafts, typed, lost, edits,
                       saves, changes>>
    BY <1>9 DEF Sheet!SaveDone, Sheet!data, Sheet!Cleaned
  <2>2. DataOK' /\ InputsOK'
    BY <1>2, <2>1 DEF DataOK, InputsOK, DraftsOK
  <2> QED BY <1>3, <1>4, <1>5, <2>1, <2>2 DEF SheetInv
<1> QED BY <1>6, <1>7, <1>8, <1>9

LEMMA SheetStep == Sheet!SheetDraftsAssumption /\ SheetInv /\ [Sheet!Next]_(Sheet!vars) => SheetInv'
<1> SUFFICES ASSUME Sheet!SheetDraftsAssumption, SheetInv, [Sheet!Next]_(Sheet!vars) PROVE SheetInv'
  OBVIOUS
<1>1. CASE UNCHANGED Sheet!vars
  BY <1>1 DEF Sheet!vars, Sheet!data, Sheet!sheet, SheetInv, DataOK, InputsOK
<1>2. CASE Sheet!Next
  BY <1>2, DataKeeps, TypingKeeps, SaveKeeps, AnswerKeeps DEF Sheet!Next
<1> QED BY <1>1, <1>2

\* The texts of a user are stored at the school they were typed at, and the
\* save button is disabled only while a save is under way: saves, failures,
\* reloads, other schools and other sessions in any order (162-259, 570-602).
THEOREM TextsStayWhereTyped ==
  Sheet!SheetDraftsAssumption =>
    (Sheet!Spec => [](Sheet!StoredWhereTyped /\ Sheet!ButtonComesBack))
<1> SUFFICES ASSUME Sheet!SheetDraftsAssumption
             PROVE  Sheet!Spec => [](Sheet!StoredWhereTyped /\ Sheet!ButtonComesBack)
  OBVIOUS
<1>1. SheetInv => Sheet!StoredWhereTyped /\ Sheet!ButtonComesBack
  BY DEF SheetInv, ServerOK, RecordOK, TextOf, Sheet!StoredWhereTyped, Sheet!ButtonComesBack
<1> QED BY <1>1, SheetInit, SheetStep, PTL DEF Sheet!Spec

-----------------------------------------------------------------------------
(* The learners of the kanji application (KanjiLearners); what it shares    *)
(* with the components above is declared there.                             *)

CONSTANTS Languages, Device, Rows0, Entries, Fills, MaxId, MaxFaults, MaxHist, MaxRuns

VARIABLES disk, memory, app, ops, stored

Learn == INSTANCE KanjiLearners WITH Langs <- Languages

AppFields == {"phase", "conn", "timer", "store", "dead", "cut", "banner", "got", "list", "last", "cur",
              "ui", "hist", "sheet", "form", "guard", "errors", "saveError", "asking", "born"}
Minors == {"timer", "dead", "cut", "banner", "got", "last", "ui", "sheet", "form", "errors", "saveError",
           "asking"}
IsApp(a) == a = [f \in AppFields |-> a[f]]

\* Two states of the application that tell the invariant the same.
Alike(b, a) ==
  /\ IsApp(b) /\ b.phase = a.phase /\ b.conn = a.conn /\ b.store = a.store /\ b.list = a.list
  /\ b.cur = a.cur /\ b.hist = a.hist /\ b.guard = a.guard /\ b.born = a.born

IsHist(h) == h # <<>> /\ \E S : h \in Seq(S)

OpFields == {"kind", "pc", "id", "prof", "here", "doomed"}
IsOp(o) == o = [f \in OpFields |-> o[f]]
IsOps(q) == (\E S : q \in Seq(S)) /\ \A i \in DOMAIN q : IsOp(q[i])

\* A call the form on the screen waits for.
Busy(o) == o.here /\ o.kind \in {"add", "edit", "remove"} /\ o.pc \notin {"last", "next"}

\* A form waits for one call at most, guarded, and has added at most one.
OpsOK(q, a) ==
  /\ IsOps(q)
  /\ \A i, j \in DOMAIN q : Busy(q[i]) /\ Busy(q[j]) => i = j
  /\ \A i \in DOMAIN q : Busy(q[i]) => a.guard /\ a.born = 0
  /\ a.born \in {0, 1} /\ (a.born = 1 => a.guard)

Quiet(q) == \A i \in DOMAIN q : ~q[i].here

\* What may be rendered.
Fit(a, st) ==
  /\ IsApp(a) /\ a.phase = "up" /\ IsHist(a.hist)
  /\ a.store # "none" /\ (a.conn = "open" => a.store = "disk")
  /\ \A id \in DOMAIN a.list : <<id, a.list[id]>> \in st

KanjiHolds(a, q, st) ==
  /\ IsApp(a) /\ IsHist(a.hist)
  /\ a.store = "none" => a.phase \in {"off", "opening"}
  /\ a.conn = "open" => a.store = "disk"
  /\ OpsOK(q, a)
  /\ a.phase # "up" => q = <<>>
  /\ a.phase = "up" =>
       /\ \A id \in DOMAIN a.list : <<id, a.list[id]>> \in st
       /\ Learn!Top(a) = Learn!Step(Learn!Top(a), a.list, a.cur)
       /\ ~Learn!OnForm(a) => Quiet(q)

\* The inductive invariant: a call the form waits for stands behind the form's
\* guard and before the one learner it adds; no call waits for a form that is
\* gone; what is shown was stored and asks for no redirect.
KanjiInv == KanjiHolds(app, ops, stored)

-----------------------------------------------------------------------------
(* Records and sequences.                                                   *)

LEMMA FieldSet ==
  ASSUME NEW a, IsApp(a), NEW f \in AppFields, NEW v
  PROVE  LET b == [a EXCEPT ![f] = v]
         IN  IsApp(b) /\ b[f] = v /\ \A g \in AppFields : g # f => b[g] = a[g]
<1> DEFINE b == [a EXCEPT ![f] = v]
<1>1. b = [g \in AppFields |-> IF g = f THEN v ELSE a[g]]
  BY DEF IsApp
<1> HIDE DEF b
<1>2. IsApp(b) /\ b[f] = v /\ \A g \in AppFields : g # f => b[g] = a[g]
  BY <1>1 DEF IsApp
<1> QED BY <1>2 DEF b

LEMMA MinorSet ==
  ASSUME NEW a, IsApp(a), NEW f \in Minors, NEW v PROVE Alike([a EXCEPT ![f] = v], a)
<1> DEFINE b == [a EXCEPT ![f] = v]
<1>1. f \in AppFields /\ f \notin {"phase", "conn", "store", "list", "cur", "hist", "guard", "born"}
  BY DEF AppFields, Minors
<1>2. IsApp(b) /\ \A g \in AppFields : g # f => b[g] = a[g]
  BY <1>1, FieldSet
<1> HIDE DEF b
<1>3. Alike(b, a)
  BY <1>1, <1>2 DEF Alike, AppFields
<1> QED BY <1>3 DEF b

Majors == {"phase", "conn", "store", "list", "cur", "hist", "guard", "born"}

\* One field of those that matter is set; the others are as they were.
Kept(b, a, f) == IsApp(b) /\ \A g \in Majors : g # f => b[g] = a[g]

LEMMA MajorSet ==
  ASSUME NEW a, IsApp(a), NEW f \in Majors, NEW v
  PROVE  LET b == [a EXCEPT ![f] = v] IN Kept(b, a, f) /\ b[f] = v
<1>1. Majors \subseteq AppFields
  BY DEF Majors, AppFields
<1> QED BY <1>1, FieldSet DEF Kept

LEMMA PhaseSet ==
  ASSUME NEW a, IsApp(a), NEW v
  PROVE  LET b == [a EXCEPT !.phase = v]
         IN  /\ IsApp(b) /\ b.phase = v /\ b.conn = a.conn /\ b.store = a.store /\ b.list = a.list
             /\ b.cur = a.cur /\ b.hist = a.hist /\ b.guard = a.guard /\ b.born = a.born
<1> DEFINE b == [a EXCEPT !.phase = v]
<1>1. Kept(b, a, "phase") /\ b.phase = v
  BY MajorSet DEF Majors
<1> HIDE DEF b
<1>2. /\ IsApp(b) /\ b.phase = v /\ b.conn = a.conn /\ b.store = a.store /\ b.list = a.list
      /\ b.cur = a.cur /\ b.hist = a.hist /\ b.guard = a.guard /\ b.born = a.born
  BY <1>1 DEF Kept, Majors
<1> QED BY <1>2 DEF b

LEMMA ConnSet ==
  ASSUME NEW a, IsApp(a), NEW v
  PROVE  LET b == [a EXCEPT !.conn = v]
         IN  /\ IsApp(b) /\ b.conn = v /\ b.phase = a.phase /\ b.store = a.store /\ b.list = a.list
             /\ b.cur = a.cur /\ b.hist = a.hist /\ b.guard = a.guard /\ b.born = a.born
<1> DEFINE b == [a EXCEPT !.conn = v]
<1>1. Kept(b, a, "conn") /\ b.conn = v
  BY MajorSet DEF Majors
<1> HIDE DEF b
<1>2. /\ IsApp(b) /\ b.conn = v /\ b.phase = a.phase /\ b.store = a.store /\ b.list = a.list
      /\ b.cur = a.cur /\ b.hist = a.hist /\ b.guard = a.guard /\ b.born = a.born
  BY <1>1 DEF Kept, Majors
<1> QED BY <1>2 DEF b

LEMMA StoreSet ==
  ASSUME NEW a, IsApp(a), NEW v
  PROVE  LET b == [a EXCEPT !.store = v]
         IN  /\ IsApp(b) /\ b.store = v /\ b.phase = a.phase /\ b.conn = a.conn /\ b.list = a.list
             /\ b.cur = a.cur /\ b.hist = a.hist /\ b.guard = a.guard /\ b.born = a.born
<1> DEFINE b == [a EXCEPT !.store = v]
<1>1. Kept(b, a, "store") /\ b.store = v
  BY MajorSet DEF Majors
<1> HIDE DEF b
<1>2. /\ IsApp(b) /\ b.store = v /\ b.phase = a.phase /\ b.conn = a.conn /\ b.list = a.list
      /\ b.cur = a.cur /\ b.hist = a.hist /\ b.guard = a.guard /\ b.born = a.born
  BY <1>1 DEF Kept, Majors
<1> QED BY <1>2 DEF b

LEMMA ListSet ==
  ASSUME NEW a, IsApp(a), NEW v
  PROVE  LET b == [a EXCEPT !.list = v]
         IN  /\ IsApp(b) /\ b.list = v /\ b.phase = a.phase /\ b.conn = a.conn /\ b.store = a.store
             /\ b.cur = a.cur /\ b.hist = a.hist /\ b.guard = a.guard /\ b.born = a.born
<1> DEFINE b == [a EXCEPT !.list = v]
<1>1. Kept(b, a, "list") /\ b.list = v
  BY MajorSet DEF Majors
<1> HIDE DEF b
<1>2. /\ IsApp(b) /\ b.list = v /\ b.phase = a.phase /\ b.conn = a.conn /\ b.store = a.store
      /\ b.cur = a.cur /\ b.hist = a.hist /\ b.guard = a.guard /\ b.born = a.born
  BY <1>1 DEF Kept, Majors
<1> QED BY <1>2 DEF b

LEMMA CurSet ==
  ASSUME NEW a, IsApp(a), NEW v
  PROVE  LET b == [a EXCEPT !.cur = v]
         IN  /\ IsApp(b) /\ b.cur = v /\ b.phase = a.phase /\ b.conn = a.conn /\ b.store = a.store
             /\ b.list = a.list /\ b.hist = a.hist /\ b.guard = a.guard /\ b.born = a.born
<1> DEFINE b == [a EXCEPT !.cur = v]
<1>1. Kept(b, a, "cur") /\ b.cur = v
  BY MajorSet DEF Majors
<1> HIDE DEF b
<1>2. /\ IsApp(b) /\ b.cur = v /\ b.phase = a.phase /\ b.conn = a.conn /\ b.store = a.store
      /\ b.list = a.list /\ b.hist = a.hist /\ b.guard = a.guard /\ b.born = a.born
  BY <1>1 DEF Kept, Majors
<1> QED BY <1>2 DEF b

LEMMA HistSet ==
  ASSUME NEW a, IsApp(a), NEW v
  PROVE  LET b == [a EXCEPT !.hist = v]
         IN  /\ IsApp(b) /\ b.hist = v /\ b.phase = a.phase /\ b.conn = a.conn /\ b.store = a.store
             /\ b.list = a.list /\ b.cur = a.cur /\ b.guard = a.guard /\ b.born = a.born
<1> DEFINE b == [a EXCEPT !.hist = v]
<1>1. Kept(b, a, "hist") /\ b.hist = v
  BY MajorSet DEF Majors
<1> HIDE DEF b
<1>2. /\ IsApp(b) /\ b.hist = v /\ b.phase = a.phase /\ b.conn = a.conn /\ b.store = a.store
      /\ b.list = a.list /\ b.cur = a.cur /\ b.guard = a.guard /\ b.born = a.born
  BY <1>1 DEF Kept, Majors
<1> QED BY <1>2 DEF b

LEMMA GuardSet ==
  ASSUME NEW a, IsApp(a), NEW v
  PROVE  LET b == [a EXCEPT !.guard = v]
         IN  /\ IsApp(b) /\ b.guard = v /\ b.phase = a.phase /\ b.conn = a.conn /\ b.store = a.store
             /\ b.list = a.list /\ b.cur = a.cur /\ b.hist = a.hist /\ b.born = a.born
<1> DEFINE b == [a EXCEPT !.guard = v]
<1>1. Kept(b, a, "guard") /\ b.guard = v
  BY MajorSet DEF Majors
<1> HIDE DEF b
<1>2. /\ IsApp(b) /\ b.guard = v /\ b.phase = a.phase /\ b.conn = a.conn /\ b.store = a.store
      /\ b.list = a.list /\ b.cur = a.cur /\ b.hist = a.hist /\ b.born = a.born
  BY <1>1 DEF Kept, Majors
<1> QED BY <1>2 DEF b

LEMMA BornSet ==
  ASSUME NEW a, IsApp(a), NEW v
  PROVE  LET b == [a EXCEPT !.born = v]
         IN  /\ IsApp(b) /\ b.born = v /\ b.phase = a.phase /\ b.conn = a.conn /\ b.store = a.store
             /\ b.list = a.list /\ b.cur = a.cur /\ b.hist = a.hist /\ b.guard = a.guard
<1> DEFINE b == [a EXCEPT !.born = v]
<1>1. Kept(b, a, "born") /\ b.born = v
  BY MajorSet DEF Majors
<1> HIDE DEF b
<1>2. /\ IsApp(b) /\ b.born = v /\ b.phase = a.phase /\ b.conn = a.conn /\ b.store = a.store
      /\ b.list = a.list /\ b.cur = a.cur /\ b.hist = a.hist /\ b.guard = a.guard
  BY <1>1 DEF Kept, Majors
<1> QED BY <1>2 DEF b

\* What is left when one call is taken out.
LEMMA CutOut ==
  ASSUME NEW S, NEW s \in Seq(S), NEW i \in DOMAIN s
  PROVE  /\ Learn!RemoveAt(s, i) \in Seq(S) /\ DOMAIN Learn!RemoveAt(s, i) = 1..Len(s) - 1
         /\ \A j \in 1..Len(s) - 1 : /\ (IF j < i THEN j ELSE j + 1) \in DOMAIN s
                                     /\ Learn!RemoveAt(s, i)[j] = s[IF j < i THEN j ELSE j + 1]
<1> DEFINE a == SubSeq(s, 1, i - 1)
           b == SubSeq(s, i + 1, Len(s))
<1>1. a \in Seq(S) /\ Len(a) = i - 1 /\ \A j \in 1..i - 1 : a[j] = s[j]
  OBVIOUS
<1>2. b \in Seq(S) /\ Len(b) = Len(s) - i /\ \A j \in 1..Len(s) - i : b[j] = s[i + j]
  OBVIOUS
<1> HIDE DEF a, b
<1>3. a \o b \in Seq(S) /\ Len(a \o b) = Len(s) - 1
  <2>1. a \o b \in Seq(S) /\ Len(a \o b) = Len(a) + Len(b)
    BY <1>1, <1>2, ConcatProperties
  <2>2. Len(s) \in Nat /\ (i - 1) + (Len(s) - i) = Len(s) - 1
    OBVIOUS
  <2> QED BY <1>1, <1>2, <2>1, <2>2
<1>4. \A j \in 1..Len(s) - 1 : (a \o b)[j] = IF j < i THEN a[j] ELSE b[j - (i - 1)]
  <2>1. \A j \in 1..Len(a) + Len(b) : (a \o b)[j] = IF j <= Len(a) THEN a[j] ELSE b[j - Len(a)]
    BY <1>1, <1>2, ConcatProperties
  <2>2. Len(a) + Len(b) = Len(s) - 1 /\ \A j \in 1..Len(s) - 1 : j <= Len(a) <=> j < i
    BY <1>1, <1>2
  <2> QED BY <1>1, <2>1, <2>2
<1>5. ASSUME NEW j \in 1..Len(s) - 1
      PROVE  /\ (IF j < i THEN j ELSE j + 1) \in DOMAIN s
             /\ (a \o b)[j] = s[IF j < i THEN j ELSE j + 1]
  <2>1. CASE j < i
    BY <1>1, <1>4, <2>1
  <2>2. CASE ~(j < i)
    <3>1. j - (i - 1) \in 1..Len(s) - i /\ i + (j - (i - 1)) = j + 1 /\ j + 1 \in DOMAIN s
      BY <2>2
    <3> QED BY <1>2, <1>4, <2>2, <3>1
  <2> QED BY <2>1, <2>2
<1>6. DOMAIN (a \o b) = 1..Len(s) - 1
  BY <1>3
<1> QED BY <1>3, <1>5, <1>6 DEF Learn!RemoveAt, a, b

\* A call ends: the form that waited for it waits for no other.
LEMMA EndedOK ==
  ASSUME NEW q, NEW a, OpsOK(q, a), NEW i \in DOMAIN q
  PROVE  LET r == Learn!RemoveAt(q, i)
         IN  /\ OpsOK(r, a) /\ (Quiet(q) => Quiet(r))
             /\ Busy(q[i]) => \A k \in DOMAIN r : ~Busy(r[k])
<1> DEFINE r == Learn!RemoveAt(q, i)
           at(j) == IF j < i THEN j ELSE j + 1
<1>1. PICK S : q \in Seq(S)
  BY DEF OpsOK, IsOps
<1>2. /\ r \in Seq(S) /\ DOMAIN r = 1..Len(q) - 1
      /\ \A j \in DOMAIN r : at(j) \in DOMAIN q /\ r[j] = q[at(j)]
  BY <1>1, CutOut
<1>3. /\ \A j \in DOMAIN r : at(j) # i
      /\ \A j, k \in DOMAIN r : at(j) = at(k) => j = k
  BY <1>1, <1>2
<1> HIDE DEF r, at
<1>4. IsOps(r)
  BY <1>2 DEF OpsOK, IsOps
<1>5. OpsOK(r, a)
  BY <1>2, <1>3, <1>4 DEF OpsOK
<1>6. Quiet(q) => Quiet(r)
  BY <1>2 DEF Quiet
<1>7. Busy(q[i]) => \A k \in DOMAIN r : ~Busy(r[k])
  BY <1>2, <1>3 DEF OpsOK
<1> QED BY <1>5, <1>6, <1>7 DEF r

\* A call is added.
LEMMA AddedOK ==
  ASSUME NEW q, NEW a, OpsOK(q, a), NEW o, IsOp(o),
         Busy(o) => a.guard /\ a.born = 0 /\ \A k \in DOMAIN q : ~Busy(q[k])
  PROVE  /\ OpsOK(Append(q, o), a)
         /\ Quiet(q) /\ ~o.here => Quiet(Append(q, o))
<1> DEFINE r == Append(q, o)
<1>1. PICK S : q \in Seq(S)
  BY DEF OpsOK, IsOps
<1>2. /\ r \in Seq(S \cup {o}) /\ DOMAIN r = DOMAIN q \cup {Len(q) + 1}
      /\ r[Len(q) + 1] = o /\ \A j \in DOMAIN q : r[j] = q[j]
  BY <1>1
<1> HIDE DEF r
<1>3. IsOps(r)
  BY <1>2 DEF OpsOK, IsOps
<1>4. OpsOK(r, a)
  BY <1>2, <1>3 DEF OpsOK
<1>5. Quiet(q) /\ ~o.here => Quiet(r)
  BY <1>2 DEF Quiet
<1> QED BY <1>4, <1>5 DEF r

LEMMA OpSet ==
  ASSUME NEW o, IsOp(o), NEW f \in OpFields, NEW v
  PROVE  LET p == [o EXCEPT ![f] = v]
         IN  IsOp(p) /\ p[f] = v /\ \A g \in OpFields : g # f => p[g] = o[g]
<1> DEFINE p == [o EXCEPT ![f] = v]
<1>1. p = [g \in OpFields |-> IF g = f THEN v ELSE o[g]]
  BY DEF IsOp
<1> HIDE DEF p
<1>2. IsOp(p) /\ p[f] = v /\ \A g \in OpFields : g # f => p[g] = o[g]
  BY <1>1 DEF IsOp
<1> QED BY <1>2 DEF p

LEMMA MapOps ==
  ASSUME NEW q, IsOps(q), NEW r, r = [i \in DOMAIN q |-> r[i]], \A i \in DOMAIN q : IsOp(r[i])
  PROVE  IsOps(r)
<1> DEFINE T == {r[i] : i \in DOMAIN q}
<1>1. PICK S : q \in Seq(S)
  BY DEF IsOps
<1>2. DOMAIN q = 1..Len(q) /\ Len(q) \in Nat /\ DOMAIN r = DOMAIN q
  BY <1>1
<1>3. \A i \in DOMAIN q : r[i] \in T
  OBVIOUS
<1> HIDE DEF T
<1>4. r \in [1..Len(q) -> T]
  BY <1>2, <1>3
<1>5. r \in Seq(T)
  BY <1>2, <1>4
<1> QED BY <1>2, <1>5 DEF IsOps

\* Every call changes in a way that keeps no form waiting that did not.
LEMMA AllOK ==
  ASSUME NEW q, NEW a, OpsOK(q, a), NEW r, r = [i \in DOMAIN q |-> r[i]],
         \A i \in DOMAIN q : IsOp(r[i]) /\ (Busy(r[i]) => Busy(q[i]))
  PROVE  OpsOK(r, a)
<1>1. DOMAIN r = DOMAIN q
  OBVIOUS
<1>2. IsOps(r)
  BY MapOps DEF OpsOK
<1> QED BY <1>1, <1>2 DEF OpsOK

\* Nothing waits for a form: its guard and count may be those of another one.
LEMMA IdleOK ==
  ASSUME NEW q, IsOps(q), \A k \in DOMAIN q : ~Busy(q[k]), NEW b, b.born \in {0, 1}, b.born = 1 => b.guard
  PROVE  OpsOK(q, b)
BY Zenon DEF OpsOK

LEMMA SameOK ==
  ASSUME NEW q, NEW a, OpsOK(q, a), NEW b, b.born = a.born, b.guard = a.guard
  PROVE  OpsOK(q, b)
BY Zenon DEF OpsOK

\* The tab's history.
LEMMA HistIs ==
  ASSUME NEW h, IsHist(h), NEW path
  PROVE  /\ IsHist(Learn!Push(h, path)) /\ IsHist(Learn!Replace(h, path)) /\ IsHist(Learn!Back(h))
         /\ IsHist(<<path>>) /\ (Len(h) > 1 => IsHist(Learn!Front(h)))
         /\ Learn!Last(Learn!Replace(h, path)) = path
<1>1. PICK S : h \in Seq(S)
  BY DEF IsHist
<1>2. Len(h) \in Nat \ {0}
  BY <1>1 DEF IsHist
<1> DEFINE f == SubSeq(h, 1, Len(h) - 1)
<1>3. f \in Seq(S) /\ Len(f) = Len(h) - 1
  <2> DEFINE n == Len(h) - 1
  <2>1. n \in Nat /\ Len(h) = n + 1
    BY <1>2
  <2>2. \A i \in 1..n : h[i] \in S
    BY <1>1, <2>1
  <2> HIDE DEF n
  <2>3. /\ SubSeq(h, 1, n) \in Seq(S)
        /\ Len(SubSeq(h, 1, n)) = IF 1 <= n THEN n - 1 + 1 ELSE 0
    BY <2>1, <2>2, SubSeqProperties
  <2>4. Len(SubSeq(h, 1, n)) = n
    BY <2>1, <2>3
  <2> QED BY <2>3, <2>4 DEF n
<1>4. Learn!Front(h) = f
  BY DEF Learn!Front
<1> HIDE DEF f
<1>5. Len(h) > 1 => f # <<>>
  BY <1>2, <1>3
<1>6. /\ Append(f, path) \in Seq(S \cup {path}) /\ Len(Append(f, path)) = Len(h)
      /\ Append(f, path)[Len(h)] = path
  BY <1>2, <1>3
<1>7. Append(f, path) # <<>>
  BY <1>2, <1>6
<1>8. IsHist(Learn!Replace(h, path)) /\ Learn!Last(Learn!Replace(h, path)) = path
  BY <1>4, <1>6, <1>7 DEF Learn!Replace, Learn!Last, IsHist
<1>9. IsHist(Learn!Push(h, path))
  <2>1. Append(h, path) \in Seq(S \cup {path}) /\ Append(h, path) # <<>>
    BY <1>1
  <2> QED BY <2>1 DEF Learn!Push, IsHist
<1>10. \A p : IsHist(<<p>>)
  <2>1. \A p : <<p>> \in Seq({p}) /\ <<p>> # <<>>
    OBVIOUS
  <2> QED BY <2>1 DEF IsHist
<1>11. Len(h) > 1 => IsHist(Learn!Front(h))
  BY <1>3, <1>4, <1>5 DEF IsHist
<1>12. IsHist(Learn!Back(h))
  <2> DEFINE n == Len(h)
  <2>1. n = 1 \/ (n > 1 /\ n # 1)
    <3>1. n \in Nat /\ n # 0
      BY <1>2
    <3> HIDE DEF n
    <3> QED BY <3>1
  <2>2. CASE Len(h) = 1
    <3>1. Learn!Back(h) = <<Learn!At("home")>>
      BY <2>2, Zenon DEF Learn!Back
    <3>2. IsHist(<<Learn!At("home")>>)
      BY <1>10, Zenon
    <3> QED BY <3>1, <3>2, Zenon
  <2>3. CASE Len(h) > 1 /\ Len(h) # 1
    <3>2. Learn!Back(h) = Learn!Front(h)
      BY <2>3, Zenon DEF Learn!Back
    <3> QED BY <1>11, <2>3, <3>2, Zenon
  <2> QED BY <2>1, <2>2, <2>3
<1> QED BY <1>8, <1>9, <1>10, <1>11, <1>12

-----------------------------------------------------------------------------
(* A render: redirects are followed, and a form is mounted or left.         *)

\* One redirect always leads to a page that asks for no other.
LEMMA StepIs ==
  ASSUME NEW p, NEW l, NEW c
  PROVE  LET to == Learn!Step(p, l, c)
         IN  /\ to = p \/ to.page \in {"welcome", "profiles", "home"}
             /\ Learn!Step(to, l, c) = to
<1> DEFINE W == Learn!At("welcome")
           P == Learn!At("profiles")
           H == Learn!At("home")
           to == Learn!Step(p, l, c)
<1>1. W.page = "welcome" /\ P.page = "profiles" /\ H.page = "home"
  BY DEF Learn!At
<1>2. /\ Learn!Route("welcome").bare = TRUE /\ Learn!Route("profiles").idle = TRUE
      /\ Learn!Route("edit").bare = FALSE
  BY DEF Learn!Route
<1> HIDE DEF W, P, H
<1>3. CASE l = l /\ DOMAIN l = {}
  <2>1. \A q : Learn!RedirectFor(q, DOMAIN l # {}, c # 0) = IF Learn!Route(q.page).bare THEN q ELSE W
    BY <1>3 DEF Learn!RedirectFor, W
  <2>2. \A q : q.page = "edit" => Learn!RedirectFor(q, DOMAIN l # {}, c # 0) = W
    BY <1>2, <2>1
  <2>3. \A q : q = W => q.page # "edit"
    BY <1>1
  <2>4. \A q : Learn!Step(q, l, c) = Learn!RedirectFor(q, DOMAIN l # {}, c # 0)
    BY <2>2, <2>3 DEF Learn!Step
  <2>5. \A q : Learn!Step(q, l, c) = IF Learn!Route(q.page).bare THEN q ELSE W
    BY <2>1, <2>4
  <2>6. Learn!Step(W, l, c) = W
    BY <1>1, <1>2, <2>5
  <2>7. to = p \/ to = W
    BY <2>5
  <2>8. Learn!Step(to, l, c) = to
    BY <2>5, <2>6, <2>7
  <2> QED BY <1>1, <2>7, <2>8
<1>4. CASE DOMAIN l # {} /\ c = 0
  <2>1. \A q : Learn!RedirectFor(q, DOMAIN l # {}, c # 0) = IF Learn!Route(q.page).idle THEN q ELSE P
    BY <1>4 DEF Learn!RedirectFor, P
  <2>2. \A q : Learn!Step(q, l, c) = q \/ Learn!Step(q, l, c) = P
    BY <2>1 DEF Learn!Step, P
  <2>3. Learn!RedirectFor(P, DOMAIN l # {}, c # 0) = P
    BY <1>1, <1>2, <2>1
  <2>4. Learn!Step(P, l, c) = P
    BY <1>1, <2>3 DEF Learn!Step
  <2>5. CASE to = p
    BY <2>5
  <2>6. CASE to = P
    BY <1>1, <2>4, <2>6
  <2> QED BY <2>2, <2>5, <2>6
<1>5. CASE DOMAIN l # {} /\ c # 0
  <2>1. \A q : Learn!RedirectFor(q, DOMAIN l # {}, c # 0) = IF q.page = "welcome" THEN H ELSE q
    BY <1>5 DEF Learn!RedirectFor, H
  <2>2. \A q : Learn!Step(q, l, c) = q \/ Learn!Step(q, l, c) = P \/ Learn!Step(q, l, c) = H
    BY <2>1 DEF Learn!Step, P
  <2>3. \A q : q = P \/ q = H => Learn!RedirectFor(q, DOMAIN l # {}, c # 0) = q /\ q.page # "edit"
    BY <1>1, <2>1
  <2>4. \A q : q = P \/ q = H => Learn!Step(q, l, c) = q
    BY <2>3 DEF Learn!Step
  <2>5. CASE to = p
    BY <2>5
  <2>6. CASE to = P \/ to = H
    BY <1>1, <2>4, <2>6
  <2> QED BY <2>2, <2>5, <2>6
<1> QED BY <1>3, <1>4, <1>5

\* What a form leaves behind when it is unmounted.
LEMMA ClearedIs ==
  ASSUME NEW a, IsApp(a)
  PROVE  LET b == Learn!Cleared(a)
         IN  /\ IsApp(b) /\ b.phase = a.phase /\ b.conn = a.conn /\ b.store = a.store
             /\ b.list = a.list /\ b.cur = a.cur /\ b.hist = a.hist /\ b.guard = FALSE /\ b.born = 0
<1> DEFINE b1 == [a EXCEPT !.form = Learn!NoForm]
           b2 == [b1 EXCEPT !.guard = FALSE]
           b3 == [b2 EXCEPT !.errors = {}]
           b4 == [b3 EXCEPT !.saveError = FALSE]
           b5 == [b4 EXCEPT !.asking = FALSE]
           b6 == [b5 EXCEPT !.born = 0]
<1>1. Learn!Cleared(a) = b6
  BY DEF Learn!Cleared
<1>2. {"form", "errors", "saveError", "asking"} \subseteq Minors
  BY DEF Minors
<1>3. Alike(b1, a)
  BY <1>2, MinorSet
<1> HIDE DEF b1
<1>4. /\ IsApp(b2) /\ b2.phase = a.phase /\ b2.conn = a.conn /\ b2.store = a.store
      /\ b2.list = a.list /\ b2.cur = a.cur /\ b2.hist = a.hist /\ b2.guard = FALSE
  BY <1>3, GuardSet DEF Alike
<1> HIDE DEF b2
<1>5. Alike(b3, b2)
  BY <1>2, <1>4, MinorSet
<1> HIDE DEF b3
<1>6. Alike(b4, b3)
  BY <1>2, <1>5, MinorSet DEF Alike
<1> HIDE DEF b4
<1>7. Alike(b5, b4)
  BY <1>2, <1>6, MinorSet DEF Alike
<1> HIDE DEF b5
<1>8. /\ IsApp(b6) /\ b6.phase = b5.phase /\ b6.conn = b5.conn /\ b6.store = b5.store
      /\ b6.list = b5.list /\ b6.cur = b5.cur /\ b6.hist = b5.hist /\ b6.guard = b5.guard /\ b6.born = 0
  BY <1>7, BornSet DEF Alike
<1> HIDE DEF b6
<1> QED BY <1>1, <1>4, <1>5, <1>6, <1>7, <1>8 DEF Alike

LEMMA ShownIs ==
  ASSUME NEW a, IsApp(a), IsHist(a.hist)
  PROVE  LET s == Learn!Shown(a)
         IN  /\ IsApp(s) /\ s.phase = a.phase /\ s.conn = a.conn /\ s.store = a.store
             /\ s.list = a.list /\ s.cur = a.cur /\ IsHist(s.hist)
             /\ Learn!Top(s) = Learn!Step(Learn!Top(a), a.list, a.cur)
             /\ \/ s.guard = FALSE /\ s.born = 0
                   /\ (Learn!OnForm(s) => ~(app.phase = "up" /\ Learn!OnForm(app)))
                \/ s.guard = a.guard /\ s.born = a.born /\ Learn!OnForm(s)
                   /\ app.phase = "up" /\ Learn!OnForm(app)
<1> DEFINE to == Learn!Step(Learn!Top(a), a.list, a.cur)
           moved == [a EXCEPT !.hist = Learn!Replace(a.hist, to)]
           left == [moved EXCEPT !.sheet = IF Learn!Routed(a) THEN "none" ELSE a.sheet]
           b == IF to = Learn!Top(a) THEN a ELSE left
           d == Learn!Cleared(b)
           e == [d EXCEPT !.form = Learn!FormFor(b)]
           s == Learn!Shown(a)
<1>1. s = IF ~Learn!OnForm(b) THEN d
          ELSE IF app.phase = "up" /\ Learn!OnForm(app) /\ to = Learn!Top(a) THEN b ELSE e
  <2>1. left = [a EXCEPT !.hist = Learn!Replace(@, to), !.sheet = IF Learn!Routed(a) THEN "none" ELSE @]
    BY FieldSet DEF IsApp, AppFields
  <2> HIDE DEF left
  <2> QED BY <2>1, Zenon DEF Learn!Shown
<1>2. to = Learn!Top(a) \/ to.page \in {"welcome", "profiles", "home"}
  BY StepIs
<1> HIDE DEF s, to
<1>3. /\ IsApp(b) /\ b.phase = a.phase /\ b.conn = a.conn /\ b.store = a.store
      /\ b.list = a.list /\ b.cur = a.cur /\ b.guard = a.guard /\ b.born = a.born
      /\ IsHist(b.hist) /\ Learn!Last(b.hist) = to
  <2>1. CASE to = Learn!Top(a)
    BY <2>1 DEF Learn!Top
  <2>2. CASE to # Learn!Top(a)
    <3> DEFINE h == Learn!Replace(a.hist, to)
               m == [a EXCEPT !.hist = h]
               l == [m EXCEPT !.sheet = IF Learn!Routed(a) THEN "none" ELSE a.sheet]
    <3>1. IsHist(h) /\ Learn!Last(h) = to
      BY HistIs
    <3> HIDE DEF h
    <3>2. /\ IsApp(m) /\ m.hist = h /\ m.phase = a.phase /\ m.conn = a.conn /\ m.store = a.store
          /\ m.list = a.list /\ m.cur = a.cur /\ m.guard = a.guard /\ m.born = a.born
      BY HistSet
    <3> HIDE DEF m
    <3>3. Alike(l, m)
      BY <3>2, MinorSet DEF Minors
    <3> HIDE DEF l
    <3>4. b = l
      BY <2>2 DEF l, m, h
    <3> HIDE DEF b
    <3> QED BY <3>1, <3>2, <3>3, <3>4 DEF Alike
  <2> QED BY <2>1, <2>2
<1>4. Learn!OnForm(b) => to = Learn!Top(a)
  BY <1>2, <1>3 DEF Learn!OnForm, Learn!Page, Learn!Top
<1> HIDE DEF b
<1>5. /\ IsApp(d) /\ d.phase = b.phase /\ d.conn = b.conn /\ d.store = b.store
      /\ d.list = b.list /\ d.cur = b.cur /\ d.hist = b.hist /\ d.guard = FALSE /\ d.born = 0
  BY <1>3, ClearedIs
<1> HIDE DEF d
<1>6. Alike(e, d)
  BY <1>5, MinorSet DEF Minors
<1> HIDE DEF e
<1>7. \A x : x.hist = b.hist => (Learn!OnForm(x) <=> Learn!OnForm(b)) /\ Learn!Top(x) = to
  BY <1>3 DEF Learn!OnForm, Learn!Page, Learn!Top
<1>8. CASE ~Learn!OnForm(b)
  <2>1. s = d
    BY <1>1, <1>8
  <2> QED BY <1>3, <1>5, <1>7, <1>8, <2>1 DEF s, to
<1>9. CASE Learn!OnForm(b) /\ app.phase = "up" /\ Learn!OnForm(app)
  <2>1. s = b
    BY <1>1, <1>4, <1>9
  <2> QED BY <1>3, <1>7, <1>9, <2>1 DEF s, to
<1>10. CASE Learn!OnForm(b) /\ ~(app.phase = "up" /\ Learn!OnForm(app))
  <2>1. s = e
    BY <1>1, <1>10
  <2> QED BY <1>3, <1>5, <1>6, <1>7, <1>10, <2>1 DEF s, to, Alike
<1> QED BY <1>8, <1>9, <1>10

LEMMA DetachedIs ==
  ASSUME NEW q, IsOps(q) PROVE IsOps(Learn!Detached(q)) /\ Quiet(Learn!Detached(q))
<1> DEFINE r == [i \in DOMAIN q |-> [q[i] EXCEPT !.here = FALSE]]
<1>1. \A o : IsOp(o) => IsOp([o EXCEPT !.here = FALSE]) /\ [o EXCEPT !.here = FALSE].here = FALSE
  BY OpSet DEF OpFields
<1>3. \A i \in DOMAIN q : r[i] = [q[i] EXCEPT !.here = FALSE]
  OBVIOUS
<1>4. \A i \in DOMAIN q : IsOp(r[i]) /\ r[i].here = FALSE
  BY <1>1, <1>3 DEF IsOps
<1>2. r = [i \in DOMAIN q |-> r[i]] /\ Learn!Detached(q) = r
  BY DEF Learn!Detached
<1> HIDE DEF r
<1>5. IsOps(r)
  BY <1>2, <1>4, MapOps
<1> QED BY <1>2, <1>4, <1>5 DEF Quiet

\* Whatever is rendered, the invariant holds of it.
LEMMA BecomeKeeps ==
  ASSUME NEW a, NEW q, Learn!Become(a, q), Fit(a, stored'), OpsOK(q, a),
         (app.phase = "up" /\ Learn!OnForm(app)) \/ Quiet(q)
  PROVE  KanjiInv'
<1> DEFINE s == Learn!Shown(a)
<1>1. app' = s /\ ops' = IF Learn!OnForm(app) /\ ~Learn!OnForm(s) THEN Learn!Detached(q) ELSE q
  <2>1. app' = s /\ ops' = IF Learn!OnForm(app) /\ ~Learn!OnForm(app') THEN Learn!Detached(q) ELSE q
    BY DEF Learn!Become
  <2> HIDE DEF s
  <2> QED BY <2>1
<1>2. /\ IsApp(s) /\ s.phase = a.phase /\ s.conn = a.conn /\ s.store = a.store
      /\ s.list = a.list /\ s.cur = a.cur /\ IsHist(s.hist)
      /\ Learn!Top(s) = Learn!Step(Learn!Top(a), a.list, a.cur)
      /\ \/ s.guard = FALSE /\ s.born = 0
            /\ (Learn!OnForm(s) => ~(app.phase = "up" /\ Learn!OnForm(app)))
         \/ s.guard = a.guard /\ s.born = a.born /\ Learn!OnForm(s)
            /\ app.phase = "up" /\ Learn!OnForm(app)
  BY ShownIs DEF Fit
<1> HIDE DEF s
<1>3. Learn!Step(Learn!Top(s), s.list, s.cur) = Learn!Top(s)
  BY <1>2, StepIs
<1>4. IsOps(ops') /\ (~Learn!OnForm(s) => Quiet(ops'))
  BY <1>1, DetachedIs DEF OpsOK
<1>5. OpsOK(ops', s)
  <2>1. CASE s.guard = a.guard /\ s.born = a.born /\ Learn!OnForm(s)
    BY <1>1, <2>1, SameOK
  <2>2. CASE s.guard = FALSE /\ s.born = 0
             /\ (Learn!OnForm(s) => ~(app.phase = "up" /\ Learn!OnForm(app)))
    <3>1. Quiet(ops')
      BY <1>1, <1>4, <2>2
    <3>2. \A k \in DOMAIN ops' : ~Busy(ops'[k])
      BY <3>1 DEF Quiet, Busy
    <3> QED BY <1>4, <2>2, <3>2, IdleOK
  <2> QED BY <1>2, <2>1, <2>2
<1>6. KanjiHolds(s, ops', stored')
  BY <1>2, <1>3, <1>4, <1>5 DEF Fit, KanjiHolds
<1> QED BY <1>1, <1>6 DEF KanjiInv

-----------------------------------------------------------------------------
(* Starting: the store is opened, and what it holds is read.                *)

\* What the invariant asks of a step that renders nothing.
LEMMA SameCore ==
  ASSUME KanjiInv, ops' = ops, stored' = stored, NEW a, app' = a, IsApp(a), a.hist = app.hist,
         a.guard = app.guard, a.born = app.born,
         \/ a.phase = app.phase /\ a.cur = app.cur /\ (app.phase = "up" => a.list = app.list)
         \/ app.phase # "up" /\ a.phase # "up",
         a.store = "none" => a.phase \in {"off", "opening"},
         a.conn = "open" => a.store = "disk"
  PROVE  KanjiInv'
<1>1. OpsOK(ops, a)
  BY SameOK DEF KanjiInv, KanjiHolds
<1>2. Learn!Top(a) = Learn!Top(app) /\ (Learn!OnForm(a) <=> Learn!OnForm(app))
  BY DEF Learn!OnForm, Learn!Page, Learn!Top
<1>3. KanjiHolds(a, ops, stored)
  BY <1>1, <1>2 DEF KanjiInv, KanjiHolds
<1> QED BY <1>3 DEF KanjiInv

LEMMA OffIs ==
  /\ IsApp(Learn!Off) /\ IsHist(Learn!Off.hist) /\ Learn!Off.store = "none" /\ Learn!Off.conn = "none"
  /\ Learn!Off.phase = "off" /\ Learn!Off.guard = FALSE /\ Learn!Off.born = 0
<1>1. IsApp(Learn!Off)
  BY DEF Learn!Off, IsApp, AppFields
<1>2. Learn!Off.hist = <<Learn!At("home")>>
  BY DEF Learn!Off
<1>3. IsHist(<<Learn!At("home")>>)
  <2>1. <<Learn!At("home")>> \in Seq({Learn!At("home")}) /\ <<Learn!At("home")>> # <<>>
    OBVIOUS
  <2> QED BY <2>1 DEF IsHist
<1> QED BY <1>1, <1>2, <1>3 DEF Learn!Off

LEMMA NoOps == ASSUME NEW a, a.guard = FALSE, a.born = 0 PROVE OpsOK(<<>>, a)
<1>1. <<>> \in Seq({}) /\ DOMAIN <<>> = {}
  OBVIOUS
<1>2. IsOps(<<>>)
  BY <1>1 DEF IsOps
<1> QED BY <1>1, <1>2 DEF OpsOK

LEMMA KanjiInit == ASSUME Learn!Init PROVE KanjiInv
<1>1. app = Learn!Off /\ ops = <<>>
  BY DEF Learn!Init
<1>2. OpsOK(<<>>, Learn!Off)
  BY OffIs, NoOps
<1>3. KanjiHolds(Learn!Off, <<>>, stored)
  BY <1>2, OffIs DEF KanjiHolds
<1> QED BY <1>1, <1>3 DEF KanjiInv

LEMMA StartKeeps == ASSUME KanjiInv, NEW path, Learn!Start(path) PROVE KanjiInv'
<1> DEFINE h == IF app.phase = "off" THEN <<path>> ELSE app.hist
           a1 == [Learn!Off EXCEPT !.phase = "opening"]
           a2 == [a1 EXCEPT !.conn = "asking"]
           a3 == [a2 EXCEPT !.timer = TRUE]
           a4 == [a3 EXCEPT !.hist = h]
<1>1. app' = a4 /\ ops' = <<>>
  BY DEF Learn!Start
<1>2. IsHist(h)
  BY HistIs DEF KanjiInv, KanjiHolds
<1> HIDE DEF h
<1>3. /\ IsApp(a1) /\ a1.phase = "opening" /\ a1.conn = "none" /\ a1.store = "none"
      /\ a1.guard = FALSE /\ a1.born = 0
  BY OffIs, PhaseSet
<1> HIDE DEF a1
<1>4. /\ IsApp(a2) /\ a2.phase = "opening" /\ a2.conn = "asking" /\ a2.store = "none"
      /\ a2.guard = FALSE /\ a2.born = 0
  BY <1>3, ConnSet
<1> HIDE DEF a2
<1>5. Alike(a3, a2)
  BY <1>4, MinorSet DEF Minors
<1> HIDE DEF a3
<1>6. /\ IsApp(a4) /\ a4.phase = "opening" /\ a4.conn = "asking" /\ a4.store = "none"
      /\ a4.guard = FALSE /\ a4.born = 0 /\ a4.hist = h
  BY <1>4, <1>5, HistSet DEF Alike
<1> HIDE DEF a4
<1>7. OpsOK(<<>>, a4)
  BY <1>6, NoOps
<1>8. KanjiHolds(a4, <<>>, stored')
  BY <1>2, <1>6, <1>7 DEF KanjiHolds
<1> QED BY <1>1, <1>8 DEF KanjiInv

LEMMA ToMemoryIs ==
  ASSUME NEW a, IsApp(a)
  PROVE  LET b == [Learn!ToMemory(a) EXCEPT !.timer = FALSE]
         IN  /\ IsApp(b) /\ b.hist = a.hist /\ b.list = a.list /\ b.cur = a.cur /\ b.conn = a.conn
             /\ b.guard = a.guard /\ b.born = a.born
             /\ IF a.store = "none" THEN b.store = "memory" /\ b.phase = "reading"
                ELSE b.store = a.store /\ b.phase = a.phase
<1> DEFINE m == Learn!ToMemory(a)
           b == [m EXCEPT !.timer = FALSE]
           s == [a EXCEPT !.store = "memory"]
           r == [s EXCEPT !.phase = "reading"]
<1>1. m = IF a.store = "none" THEN r ELSE a
  BY DEF Learn!ToMemory
<1>2. /\ IsApp(s) /\ s.hist = a.hist /\ s.list = a.list /\ s.cur = a.cur /\ s.conn = a.conn
      /\ s.guard = a.guard /\ s.born = a.born /\ s.store = "memory"
  BY StoreSet
<1> HIDE DEF s
<1>3. /\ IsApp(r) /\ r.hist = a.hist /\ r.list = a.list /\ r.cur = a.cur /\ r.conn = a.conn
      /\ r.guard = a.guard /\ r.born = a.born /\ r.store = "memory" /\ r.phase = "reading"
  BY <1>2, PhaseSet
<1> HIDE DEF r, m
<1>4. IsApp(m)
  BY <1>1, <1>3
<1>5. Alike(b, m)
  BY <1>4, MinorSet DEF Minors
<1> HIDE DEF b
<1>6. /\ IsApp(b) /\ b.hist = a.hist /\ b.list = a.list /\ b.cur = a.cur /\ b.conn = a.conn
      /\ b.guard = a.guard /\ b.born = a.born
      /\ IF a.store = "none" THEN b.store = "memory" /\ b.phase = "reading"
         ELSE b.store = a.store /\ b.phase = a.phase
  BY <1>1, <1>3, <1>5 DEF Alike
<1> QED BY <1>6 DEF b, m

LEMMA OpeningKeeps == ASSUME KanjiInv, Learn!Opening PROVE KanjiInv'
<1> DEFINE m == [Learn!ToMemory(app) EXCEPT !.timer = FALSE]
<1>1. /\ IsApp(app) /\ (app.store = "none" => app.phase \in {"off", "opening"})
      /\ (app.conn = "open" => app.store = "disk")
  BY DEF KanjiInv, KanjiHolds
<1>2. /\ IsApp(m) /\ m.hist = app.hist /\ m.list = app.list /\ m.cur = app.cur /\ m.conn = app.conn
      /\ m.guard = app.guard /\ m.born = app.born
      /\ IF app.store = "none" THEN m.store = "memory" /\ m.phase = "reading"
         ELSE m.store = app.store /\ m.phase = app.phase
  BY <1>1, ToMemoryIs
<1>3. CASE app' = m /\ ops' = ops /\ stored' = stored
  <2> HIDE DEF m
  <2> QED BY <1>1, <1>2, <1>3, SameCore
<1>4. CASE Learn!OpenTimeout
  BY <1>3, <1>4 DEF Learn!OpenTimeout, Learn!UnchangedButApp
<1>5. CASE Learn!OpenBlocked
  BY <1>3, <1>5 DEF Learn!OpenBlocked
<1>6. CASE Learn!OpenError
  <2> DEFINE b == [m EXCEPT !.conn = "none"]
  <2>1. app' = b /\ ops' = ops /\ stored' = stored
    BY <1>6 DEF Learn!OpenError
  <2> HIDE DEF m
  <2>2. /\ IsApp(b) /\ b.phase = m.phase /\ b.store = m.store /\ b.list = m.list /\ b.cur = m.cur
        /\ b.hist = m.hist /\ b.guard = m.guard /\ b.born = m.born /\ b.conn = "none"
    BY <1>2, ConnSet
  <2> HIDE DEF b
  <2> QED BY <1>1, <1>2, <2>1, <2>2, SameCore
<1>7. CASE Learn!OpenUpgrade
  <2> DEFINE a == [app EXCEPT !.conn = "upgrading"]
             b == [a EXCEPT !.timer = FALSE]
  <2>1. app' = b /\ ops' = ops /\ stored' = stored
    BY <1>7 DEF Learn!OpenUpgrade, Learn!UnchangedButApp
  <2>2. /\ IsApp(a) /\ a.phase = app.phase /\ a.store = app.store /\ a.list = app.list /\ a.cur = app.cur
        /\ a.hist = app.hist /\ a.guard = app.guard /\ a.born = app.born /\ a.conn = "upgrading"
    BY <1>1, ConnSet
  <2> HIDE DEF a
  <2>3. Alike(b, a)
    BY <2>2, MinorSet DEF Minors
  <2> HIDE DEF b
  <2> QED BY <1>1, <2>1, <2>2, <2>3, SameCore DEF Alike
<1>8. CASE Learn!OpenSuccess /\ app.store # "none"
  <2> DEFINE a == [app EXCEPT !.conn = "none"]
             b == [a EXCEPT !.timer = FALSE]
  <2>1. app' = b /\ ops' = ops /\ stored' = stored
    BY <1>8 DEF Learn!OpenSuccess, Learn!Connected
  <2>2. /\ IsApp(a) /\ a.phase = app.phase /\ a.store = app.store /\ a.list = app.list /\ a.cur = app.cur
        /\ a.hist = app.hist /\ a.guard = app.guard /\ a.born = app.born /\ a.conn = "none"
    BY <1>1, ConnSet
  <2> HIDE DEF a
  <2>3. Alike(b, a)
    BY <2>2, MinorSet DEF Minors
  <2> HIDE DEF b
  <2> QED BY <1>1, <2>1, <2>2, <2>3, SameCore DEF Alike
<1>9. CASE Learn!OpenSuccess /\ app.store = "none"
  <2> DEFINE a == [app EXCEPT !.conn = "open"]
             b == [a EXCEPT !.timer = FALSE]
             c == [b EXCEPT !.store = "disk"]
             d == [c EXCEPT !.phase = "reading"]
  <2>1. app' = d /\ ops' = ops /\ stored' = stored
    BY <1>9 DEF Learn!OpenSuccess, Learn!Connected
  <2>2. /\ IsApp(a) /\ a.list = app.list /\ a.cur = app.cur
        /\ a.hist = app.hist /\ a.guard = app.guard /\ a.born = app.born
    BY <1>1, ConnSet
  <2> HIDE DEF a
  <2>3. Alike(b, a)
    BY <2>2, MinorSet DEF Minors
  <2> HIDE DEF b
  <2>4. /\ IsApp(c) /\ c.hist = app.hist /\ c.guard = app.guard /\ c.born = app.born /\ c.store = "disk"
    BY <2>2, <2>3, StoreSet DEF Alike
  <2> HIDE DEF c
  <2>5. /\ IsApp(d) /\ d.hist = app.hist /\ d.guard = app.guard /\ d.born = app.born /\ d.store = "disk"
        /\ d.phase = "reading"
    BY <2>4, PhaseSet
  <2> HIDE DEF d
  <2> QED BY <1>1, <1>9, <2>1, <2>5, SameCore
<1> QED BY <1>4, <1>5, <1>6, <1>7, <1>8, <1>9 DEF Learn!Opening

LEMMA ReadingKeeps ==
  ASSUME KanjiInv, Learn!ReadLearners \/ Learn!ReadMeta \/ Learn!ReadFails PROVE KanjiInv'
<1>1. /\ IsApp(app) /\ app.store # "none" /\ app.phase = "reading"
      /\ (app.conn = "open" => app.store = "disk")
  BY DEF KanjiInv, KanjiHolds, Learn!ReadLearners, Learn!ReadMeta, Learn!ReadFails
<1>2. CASE Learn!ReadLearners
  <2> DEFINE a == [app EXCEPT !.got = app.got \cup {"list"}]
             b == [a EXCEPT !.list = Learn!Listed(Learn!Held)]
  <2>1. app' = b /\ ops' = ops /\ stored' = stored
    BY <1>2 DEF Learn!ReadLearners, Learn!UnchangedButApp
  <2>2. Alike(a, app)
    BY <1>1, MinorSet DEF Minors
  <2> HIDE DEF a
  <2>3. /\ IsApp(b) /\ b.phase = app.phase /\ b.conn = app.conn /\ b.store = app.store
        /\ b.hist = app.hist /\ b.guard = app.guard /\ b.born = app.born
    BY <2>2, ListSet DEF Alike
  <2> HIDE DEF b
  <2> QED BY <1>1, <2>1, <2>3, SameCore
<1>3. CASE Learn!ReadMeta
  <2> DEFINE a == [app EXCEPT !.got = app.got \cup {"meta"}]
             b == [a EXCEPT !.last = Learn!Meta.last]
             c == [b EXCEPT !.ui = Learn!ResolveLang(Learn!Meta.ui, Device)]
  <2>1. app' = c /\ ops' = ops /\ stored' = stored
    BY <1>3 DEF Learn!ReadMeta, Learn!UnchangedButApp
  <2>2. Alike(a, app)
    BY <1>1, MinorSet DEF Minors
  <2> HIDE DEF a
  <2>3. Alike(b, a)
    BY <2>2, MinorSet DEF Alike, Minors
  <2> HIDE DEF b
  <2>4. Alike(c, b)
    BY <2>3, MinorSet DEF Alike, Minors
  <2> HIDE DEF c
  <2> QED BY <1>1, <2>1, <2>2, <2>3, <2>4, SameCore DEF Alike
<1>4. CASE Learn!ReadFails
  <2> DEFINE a == [app EXCEPT !.phase = "failed"]
  <2>1. app' = a /\ ops' = ops /\ stored' = stored
    BY <1>4 DEF Learn!ReadFails
  <2>2. /\ IsApp(a) /\ a.phase = "failed" /\ a.conn = app.conn /\ a.store = app.store
        /\ a.hist = app.hist /\ a.guard = app.guard /\ a.born = app.born
    BY <1>1, PhaseSet
  <2> HIDE DEF a
  <2> QED BY <1>1, <2>1, <2>2, SameCore
<1> QED BY <1>2, <1>3, <1>4

LEMMA FirstRenderKeeps == ASSUME KanjiInv, Learn!FirstRender PROVE KanjiInv'
<1> DEFINE a == [app EXCEPT !.phase = "up"]
           b == [a EXCEPT !.cur = Learn!PickInitial(app.list, app.last)]
<1>1. /\ Learn!Become(b, ops) /\ app.phase = "reading"
      /\ stored' = stored \cup {<<id, app.list[id]>> : id \in DOMAIN app.list}
  BY DEF Learn!FirstRender
<1>2. /\ IsApp(app) /\ app.store # "none" /\ (app.conn = "open" => app.store = "disk")
      /\ IsHist(app.hist) /\ OpsOK(ops, app) /\ ops = <<>>
  BY <1>1 DEF KanjiInv, KanjiHolds
<1>3. /\ IsApp(a) /\ a.phase = "up" /\ a.conn = app.conn /\ a.store = app.store /\ a.list = app.list
      /\ a.hist = app.hist /\ a.guard = app.guard /\ a.born = app.born
  BY <1>2, PhaseSet
<1> HIDE DEF a
<1>4. /\ IsApp(b) /\ b.phase = "up" /\ b.conn = app.conn /\ b.store = app.store /\ b.list = app.list
      /\ b.hist = app.hist /\ b.guard = app.guard /\ b.born = app.born
  BY <1>3, CurSet
<1> HIDE DEF b
<1>5. Fit(b, stored')
  BY <1>1, <1>2, <1>4 DEF Fit
<1>6. OpsOK(ops, b)
  BY <1>2, <1>4, SameOK
<1>7. Quiet(ops)
  BY <1>2 DEF Quiet
<1> QED BY <1>1, <1>5, <1>6, <1>7, BecomeKeeps

LEMMA ClosingKeeps == ASSUME KanjiInv, Learn!ConnectionCloses PROVE KanjiInv'
<1>1. /\ IsApp(app) /\ OpsOK(ops, app)
  BY DEF KanjiInv, KanjiHolds
<1>2. PICK dropped \in BOOLEAN :
         /\ app' = [app EXCEPT !.dead = TRUE, !.conn = "none", !.banner = app.phase = "up",
                               !.cut = dropped /\ app.phase = "reading"]
         /\ ops' = [i \in DOMAIN ops |-> [ops[i] EXCEPT !.doomed = @ \/ dropped]]
         /\ stored' = stored
  BY DEF Learn!ConnectionCloses
<1> DEFINE a == [app EXCEPT !.dead = TRUE]
           b == [a EXCEPT !.conn = "none"]
           c == [b EXCEPT !.banner = app.phase = "up"]
           d == [c EXCEPT !.cut = dropped /\ app.phase = "reading"]
           r == [i \in DOMAIN ops |-> [ops[i] EXCEPT !.doomed = @ \/ dropped]]
<1>3. app' = d /\ ops' = r
  BY <1>2
<1>4. Alike(a, app)
  BY <1>1, MinorSet DEF Minors
<1> HIDE DEF a
<1>5. /\ IsApp(b) /\ b.phase = app.phase /\ b.conn = "none" /\ b.store = app.store /\ b.list = app.list
      /\ b.cur = app.cur /\ b.hist = app.hist /\ b.guard = app.guard /\ b.born = app.born
  BY <1>4, ConnSet DEF Alike
<1> HIDE DEF b
<1>6. Alike(c, b)
  BY <1>5, MinorSet DEF Minors
<1> HIDE DEF c
<1>7. Alike(d, c)
  BY <1>6, MinorSet DEF Alike, Minors
<1> HIDE DEF d
<1>8. \A o, v : IsOp(o) =>
        LET p == [o EXCEPT !.doomed = v] IN IsOp(p) /\ (Busy(p) <=> Busy(o)) /\ p.here = o.here
  <2> SUFFICES ASSUME NEW o, NEW v, IsOp(o)
               PROVE  LET p == [o EXCEPT !.doomed = v]
                      IN IsOp(p) /\ (Busy(p) <=> Busy(o)) /\ p.here = o.here
    OBVIOUS
  <2> DEFINE p == [o EXCEPT !.doomed = v]
  <2>1. IsOp(p) /\ \A g \in OpFields : g # "doomed" => p[g] = o[g]
    BY OpSet DEF OpFields
  <2> HIDE DEF p
  <2>2. IsOp(p) /\ p.here = o.here /\ p.kind = o.kind /\ p.pc = o.pc
    BY <2>1 DEF OpFields
  <2>3. Busy(p) <=> Busy(o)
    BY <2>2 DEF Busy
  <2> QED BY <2>2, <2>3 DEF p
<1>9. \A i \in DOMAIN ops : IsOp(r[i]) /\ (Busy(r[i]) => Busy(ops[i])) /\ r[i].here = ops[i].here
  <2>1. \A i \in DOMAIN ops : r[i] = [ops[i] EXCEPT !.doomed = ops[i].doomed \/ dropped]
    OBVIOUS
  <2> HIDE DEF r
  <2>2. \A i \in DOMAIN ops : \E v : r[i] = [ops[i] EXCEPT !.doomed = v]
    BY <2>1, Zenon
  <2>3. \A i \in DOMAIN ops : IsOp(ops[i])
    BY <1>1 DEF OpsOK, IsOps
  <2> SUFFICES ASSUME NEW i \in DOMAIN ops
               PROVE  IsOp(r[i]) /\ (Busy(r[i]) => Busy(ops[i])) /\ r[i].here = ops[i].here
    OBVIOUS
  <2>4. PICK v : r[i] = [ops[i] EXCEPT !.doomed = v]
    BY <2>2
  <2> DEFINE o == ops[i]
             p == [o EXCEPT !.doomed = v]
  <2>5. IsOp(p) /\ (Busy(p) <=> Busy(o)) /\ p.here = o.here
    BY <1>8, <2>3
  <2>6. r[i] = p
    BY <2>4
  <2> HIDE DEF p
  <2> QED BY <2>5, <2>6
<1>10. r = [i \in DOMAIN ops |-> r[i]] /\ DOMAIN r = DOMAIN ops /\ (ops = <<>> => r = <<>>)
  OBVIOUS
<1> HIDE DEF r
<1>11. OpsOK(r, app) /\ (Quiet(ops) => Quiet(r))
  BY <1>1, <1>9, <1>10, AllOK DEF Quiet
<1>12. /\ IsApp(d) /\ d.phase = app.phase /\ d.conn = "none" /\ d.store = app.store /\ d.list = app.list
       /\ d.cur = app.cur /\ d.hist = app.hist /\ d.guard = app.guard /\ d.born = app.born
  BY <1>5, <1>6, <1>7 DEF Alike
<1>13. OpsOK(r, d)
  BY <1>11, <1>12, SameOK
<1>14. Learn!Top(d) = Learn!Top(app) /\ (Learn!OnForm(d) <=> Learn!OnForm(app))
  BY <1>12 DEF Learn!OnForm, Learn!Page, Learn!Top
<1>15. KanjiHolds(d, r, stored)
  BY <1>10, <1>11, <1>12, <1>13, <1>14 DEF KanjiInv, KanjiHolds
<1> QED BY <1>2, <1>3, <1>15 DEF KanjiInv

-----------------------------------------------------------------------------
(* The transactions of the calls.                                           *)

\* The application that is up, or has a call waiting.
LEMMA Running ==
  ASSUME KanjiInv, app.phase = "up" \/ \E i : i \in DOMAIN ops
  PROVE  /\ app.phase = "up" /\ Fit(app, stored) /\ OpsOK(ops, app)
         /\ Learn!OnForm(app) \/ Quiet(ops)
<1>1. DOMAIN <<>> = {}
  OBVIOUS
<1>2. app.phase = "up"
  BY <1>1 DEF KanjiInv, KanjiHolds
<1> QED BY <1>2 DEF KanjiInv, KanjiHolds, Fit

LEMMA AlikeFits ==
  ASSUME NEW a, NEW b, NEW st, Fit(a, st), Alike(b, a) PROVE Fit(b, st)
BY DEF Fit, Alike

LEMMA HistFits ==
  ASSUME NEW a, NEW st, Fit(a, st), NEW h, IsHist(h)
  PROVE  LET b == [a EXCEPT !.hist = h] IN Fit(b, st) /\ b.guard = a.guard /\ b.born = a.born
<1> DEFINE b == [a EXCEPT !.hist = h]
<1>1. /\ IsApp(b) /\ b.phase = a.phase /\ b.conn = a.conn /\ b.store = a.store /\ b.list = a.list
      /\ b.hist = h /\ b.guard = a.guard /\ b.born = a.born
  BY HistSet DEF Fit
<1> HIDE DEF b
<1>2. Fit(b, st) /\ b.guard = a.guard /\ b.born = a.born
  BY <1>1 DEF Fit
<1> QED BY <1>2 DEF b

LEMMA GuardFits ==
  ASSUME NEW a, NEW st, Fit(a, st), NEW v
  PROVE  LET b == [a EXCEPT !.guard = v]
         IN  Fit(b, st) /\ b.guard = v /\ b.born = a.born /\ b.hist = a.hist
<1> DEFINE b == [a EXCEPT !.guard = v]
<1>1. /\ IsApp(b) /\ b.phase = a.phase /\ b.conn = a.conn /\ b.store = a.store /\ b.list = a.list
      /\ b.hist = a.hist /\ b.guard = v /\ b.born = a.born
  BY GuardSet DEF Fit
<1> HIDE DEF b
<1>2. Fit(b, st) /\ b.guard = v /\ b.born = a.born /\ b.hist = a.hist
  BY <1>1 DEF Fit
<1> QED BY <1>2 DEF b

LEMMA BornFits ==
  ASSUME NEW a, NEW st, Fit(a, st), NEW v
  PROVE  LET b == [a EXCEPT !.born = v]
         IN  Fit(b, st) /\ b.born = v /\ b.guard = a.guard /\ b.hist = a.hist
<1> DEFINE b == [a EXCEPT !.born = v]
<1>1. /\ IsApp(b) /\ b.phase = a.phase /\ b.conn = a.conn /\ b.store = a.store /\ b.list = a.list
      /\ b.hist = a.hist /\ b.born = v /\ b.guard = a.guard
  BY BornSet DEF Fit
<1> HIDE DEF b
<1>2. Fit(b, st) /\ b.born = v /\ b.guard = a.guard /\ b.hist = a.hist
  BY <1>1 DEF Fit
<1> QED BY <1>2 DEF b

\* The reducer shows what was just stored, or less than before.
LEMMA DispatchFits ==
  ASSUME NEW a, NEW st, Fit(a, st), NEW more, st \subseteq more,
         NEW kind \in {"add", "update", "switch", "setUi", "remove"}, NEW id, NEW p,
         kind \in {"add", "update"} => <<id, p>> \in more
  PROVE  LET b == Learn!Dispatch(a, kind, id, p)
         IN  Fit(b, more) /\ b.guard = a.guard /\ b.born = a.born /\ b.hist = a.hist
<1> DEFINE b == Learn!Dispatch(a, kind, id, p)
           up == Learn!Upsert(a.list, id, p)
           rest == Learn!Restrict(a.list, DOMAIN a.list \ {id})
           left == IF a.cur # id THEN a.cur ELSE IF DOMAIN rest = {} THEN 0 ELSE Learn!Min(DOMAIN rest)
<1>1. \A j \in DOMAIN up : <<j, up[j]>> \in st \cup {<<id, p>>}
  <2>1. \A j \in DOMAIN up : IF j = id THEN up[j] = p ELSE j \in DOMAIN a.list /\ up[j] = a.list[j]
    BY DEF Learn!Upsert
  <2> HIDE DEF up
  <2> QED BY <2>1 DEF Fit
<1>2. \A j \in DOMAIN rest : <<j, rest[j]>> \in st
  <2>1. \A j \in DOMAIN rest : j \in DOMAIN a.list /\ rest[j] = a.list[j]
    BY DEF Learn!Restrict
  <2> HIDE DEF rest
  <2> QED BY <2>1 DEF Fit
<1>3. ASSUME NEW l, \A j \in DOMAIN l : <<j, l[j]>> \in more
      PROVE  LET d == [a EXCEPT !.list = l]
             IN  Fit(d, more) /\ d.guard = a.guard /\ d.born = a.born /\ d.hist = a.hist
  <2> DEFINE d == [a EXCEPT !.list = l]
  <2>1. /\ IsApp(d) /\ d.phase = a.phase /\ d.conn = a.conn /\ d.store = a.store /\ d.list = l
        /\ d.hist = a.hist /\ d.guard = a.guard /\ d.born = a.born
    BY ListSet DEF Fit
  <2> HIDE DEF d
  <2>2. Fit(d, more) /\ d.guard = a.guard /\ d.born = a.born /\ d.hist = a.hist
    BY <1>3, <2>1 DEF Fit
  <2> QED BY <2>2 DEF d
<1>4. ASSUME NEW e, Fit(e, more), NEW c
      PROVE  LET d == [e EXCEPT !.cur = c]
             IN  Fit(d, more) /\ d.guard = e.guard /\ d.born = e.born /\ d.hist = e.hist
  <2> DEFINE d == [e EXCEPT !.cur = c]
  <2>1. /\ IsApp(d) /\ d.phase = e.phase /\ d.conn = e.conn /\ d.store = e.store /\ d.list = e.list
        /\ d.hist = e.hist /\ d.guard = e.guard /\ d.born = e.born
    BY <1>4, CurSet DEF Fit
  <2> HIDE DEF d
  <2>2. Fit(d, more) /\ d.guard = e.guard /\ d.born = e.born /\ d.hist = e.hist
    BY <1>4, <2>1 DEF Fit
  <2> QED BY <2>2 DEF d
<1>5. Fit(a, more)
  BY DEF Fit
<1>6. CASE kind = "add"
  <2> DEFINE d == [a EXCEPT !.list = up]
             e == [d EXCEPT !.cur = id]
  <2>1. b = e
    BY <1>6 DEF Learn!Dispatch
  <2> HIDE DEF up, b
  <2>2. Fit(d, more) /\ d.guard = a.guard /\ d.born = a.born /\ d.hist = a.hist
    BY <1>1, <1>3, <1>6
  <2> HIDE DEF d
  <2>3. Fit(e, more) /\ e.guard = d.guard /\ e.born = d.born /\ e.hist = d.hist
    BY <1>4, <2>2
  <2> HIDE DEF e
  <2> QED BY <2>1, <2>2, <2>3 DEF b
<1>7. CASE kind = "update"
  <2> DEFINE d == [a EXCEPT !.list = up]
  <2>1. b = d
    BY <1>7 DEF Learn!Dispatch
  <2> HIDE DEF up, b
  <2>2. Fit(d, more) /\ d.guard = a.guard /\ d.born = a.born /\ d.hist = a.hist
    BY <1>1, <1>3, <1>7
  <2> HIDE DEF d
  <2> QED BY <2>1, <2>2 DEF b
<1>8. CASE kind = "switch"
  <2> DEFINE d == [a EXCEPT !.cur = id]
  <2>1. b = d
    BY <1>8 DEF Learn!Dispatch
  <2> HIDE DEF b
  <2>2. Fit(d, more) /\ d.guard = a.guard /\ d.born = a.born /\ d.hist = a.hist
    BY <1>4, <1>5
  <2> HIDE DEF d
  <2> QED BY <2>1, <2>2 DEF b
<1>9. CASE kind = "setUi"
  <2> DEFINE d == [a EXCEPT !.ui = p.lang]
  <2>1. b = d
    BY <1>9 DEF Learn!Dispatch
  <2> HIDE DEF b
  <2>2. Alike(d, a)
    BY MinorSet DEF Minors, Fit
  <2> HIDE DEF d
  <2>3. Fit(d, more) /\ d.guard = a.guard /\ d.born = a.born /\ d.hist = a.hist
    BY <1>5, <2>2, AlikeFits DEF Alike
  <2> QED BY <2>1, <2>3 DEF b
<1>10. CASE kind = "remove"
  <2> DEFINE d == [a EXCEPT !.list = rest]
             e == [d EXCEPT !.cur = left]
  <2>1. b = e
    BY <1>10 DEF Learn!Dispatch
  <2> HIDE DEF rest, left, b
  <2>2. Fit(d, more) /\ d.guard = a.guard /\ d.born = a.born /\ d.hist = a.hist
    BY <1>2, <1>3, <1>10
  <2> HIDE DEF d
  <2>3. Fit(e, more) /\ e.guard = d.guard /\ e.born = d.born /\ e.hist = d.hist
    BY <1>4, <2>2
  <2> HIDE DEF e
  <2> QED BY <2>1, <2>2, <2>3 DEF b
<1> QED BY <1>6, <1>7, <1>8, <1>9, <1>10

LEMMA EndedIs ==
  ASSUME KanjiInv, NEW i \in DOMAIN ops
  PROVE  LET q == Learn!Ended(i)
         IN  /\ OpsOK(q, app) /\ (Quiet(ops) => Quiet(q))
             /\ Busy(ops[i]) => \A b : b.born \in {0, 1} /\ (b.born = 1 => b.guard) => OpsOK(q, b)
<1> DEFINE q == Learn!RemoveAt(ops, i)
<1>1. /\ OpsOK(q, app) /\ (Quiet(ops) => Quiet(q))
      /\ Busy(ops[i]) => \A k \in DOMAIN q : ~Busy(q[k])
  BY Running, EndedOK
<1>2. Learn!Ended(i) = q
  BY DEF Learn!Ended
<1> HIDE DEF q
<1>3. ASSUME Busy(ops[i]), NEW b, b.born \in {0, 1}, b.born = 1 => b.guard PROVE OpsOK(q, b)
  BY <1>1, <1>3, IdleOK DEF OpsOK
<1> QED BY <1>1, <1>2, <1>3

\* A call goes on to its next transaction.
LEMMA ThenIs ==
  ASSUME KanjiInv, NEW i \in DOMAIN ops, NEW pc, NEW id,
         \/ pc \in {"last", "next"} \/ ops[i].pc \notin {"last", "next"}
         \/ ops[i].kind \notin {"add", "edit", "remove"}
  PROVE  LET q == Learn!Then(i, pc, id)
         IN  /\ OpsOK(q, app) /\ (Quiet(ops) => Quiet(q))
             /\ Busy(ops[i]) /\ pc \in {"last", "next"}
                  => \A b : b.born \in {0, 1} /\ (b.born = 1 => b.guard) => OpsOK(q, b)
<1> DEFINE r == Learn!RemoveAt(ops, i)
           o1 == [ops[i] EXCEPT !.pc = pc]
           o2 == [o1 EXCEPT !.id = id]
           o3 == [o2 EXCEPT !.doomed = app.dead]
           q == Append(r, o3)
<1>1. Learn!Then(i, pc, id) = q
  BY DEF Learn!Then
<1>2. OpsOK(ops, app) /\ IsOp(ops[i])
  BY Running DEF OpsOK, IsOps
<1>3. /\ OpsOK(r, app) /\ (Quiet(ops) => Quiet(r))
      /\ Busy(ops[i]) => \A k \in DOMAIN r : ~Busy(r[k])
  BY <1>2, EndedOK
<1>4. /\ IsOp(o1) /\ o1.pc = pc /\ o1.kind = ops[i].kind /\ o1.here = ops[i].here
  BY <1>2, OpSet DEF OpFields
<1> HIDE DEF r, o1
<1>5. /\ IsOp(o2) /\ o2.pc = pc /\ o2.kind = ops[i].kind /\ o2.here = ops[i].here
  BY <1>4, OpSet DEF OpFields
<1> HIDE DEF o2
<1>6. /\ IsOp(o3) /\ o3.pc = pc /\ o3.kind = ops[i].kind /\ o3.here = ops[i].here
  BY <1>5, OpSet DEF OpFields
<1> HIDE DEF o3
<1>7. Busy(o3) => Busy(ops[i])
  BY <1>6 DEF Busy
<1>8. Busy(ops[i]) => app.guard /\ app.born = 0
  BY <1>2 DEF OpsOK
<1>9. OpsOK(q, app) /\ (Quiet(r) /\ ~o3.here => Quiet(q))
  BY <1>3, <1>6, <1>7, <1>8, AddedOK
<1>10. Quiet(ops) => Quiet(q)
  BY <1>3, <1>6, <1>9 DEF Quiet
<1>11. ASSUME Busy(ops[i]), pc \in {"last", "next"}, NEW b, b.born \in {0, 1}, b.born = 1 => b.guard
       PROVE  OpsOK(q, b)
  <2>1. OpsOK(r, b)
    BY <1>3, <1>11, IdleOK DEF OpsOK
  <2>2. ~Busy(o3)
    BY <1>6, <1>11 DEF Busy
  <2> QED BY <1>6, <2>1, <2>2, AddedOK
<1> HIDE DEF q
<1> QED BY <1>1, <1>9, <1>10, <1>11

LEMMA CallMade ==
  ASSUME NEW kind, NEW pc, NEW id, NEW p
  PROVE  LET o == Learn!Call(kind, pc, id, p)
         IN  IsOp(o) /\ o.kind = kind /\ o.pc = pc /\ o.id = id /\ o.prof = p /\ o.here = Learn!OnForm(app)
<1> DEFINE o == Learn!Call(kind, pc, id, p)
<1>1. o = [kind |-> kind, pc |-> pc, id |-> id, prof |-> p, here |-> Learn!OnForm(app), doomed |-> app.dead]
  BY DEF Learn!Call
<1>2. IsOp(o)
  BY <1>1 DEF IsOp, OpFields
<1> QED BY <1>1, <1>2

\* The form learns that its save failed: it may be pressed again.
LEMMA FailedIs ==
  ASSUME NEW st, Fit(app, st)
  PROVE  LET b == [app EXCEPT !.guard = FALSE, !.errors = {}, !.saveError = TRUE]
             c == [app EXCEPT !.guard = FALSE, !.saveError = TRUE]
         IN  /\ Fit(b, st) /\ b.guard = FALSE /\ b.born = app.born
             /\ Fit(c, st) /\ c.guard = FALSE /\ c.born = app.born
<1> DEFINE g == [app EXCEPT !.guard = FALSE]
           e == [g EXCEPT !.errors = {}]
           b == [e EXCEPT !.saveError = TRUE]
           c == [g EXCEPT !.saveError = TRUE]
<1>1. Fit(g, st) /\ g.guard = FALSE /\ g.born = app.born
  BY GuardFits
<1> HIDE DEF g
<1>2. Alike(e, g) /\ Alike(c, g)
  BY <1>1, MinorSet DEF Minors, Fit
<1> HIDE DEF e
<1>3. Alike(b, e)
  BY <1>2, MinorSet DEF Minors, Alike
<1> HIDE DEF b, c
<1>4. /\ Fit(b, st) /\ b.guard = FALSE /\ b.born = app.born
      /\ Fit(c, st) /\ c.guard = FALSE /\ c.born = app.born
  BY <1>1, <1>2, <1>3, AlikeFits DEF Alike
<1> QED BY <1>4 DEF b, c, e, g

\* A call goes on, and nothing of the form changes.
LEMMA ThenKeeps ==
  ASSUME KanjiInv, NEW i \in DOMAIN ops, NEW pc, NEW id,
         \/ pc \in {"last", "next"} \/ ops[i].pc \notin {"last", "next"}
         \/ ops[i].kind \notin {"add", "edit", "remove"},
         NEW a, Learn!Become(a, Learn!Then(i, pc, id)), Fit(a, stored'), a.guard = app.guard, a.born = app.born
  PROVE  KanjiInv'
<1> DEFINE q == Learn!Then(i, pc, id)
<1>1. app.phase = "up" /\ (Learn!OnForm(app) \/ Quiet(ops))
  BY Running
<1>2. OpsOK(q, app) /\ (Quiet(ops) => Quiet(q))
  BY ThenIs
<1> HIDE DEF q
<1>3. OpsOK(q, a)
  BY <1>2, SameOK
<1>4. KanjiInv'
  <2>1. Learn!Become(a, q)
    BY DEF q
  <2> QED BY <1>1, <1>2, <1>3, <2>1, BecomeKeeps
<1> QED BY <1>4

\* A call ends, and nothing of the form changes.
LEMMA EndedKeeps ==
  ASSUME KanjiInv, NEW i \in DOMAIN ops,
         NEW a, Learn!Become(a, Learn!Ended(i)), Fit(a, stored'), a.guard = app.guard, a.born = app.born
  PROVE  KanjiInv'
<1> DEFINE q == Learn!Ended(i)
<1>1. app.phase = "up" /\ (Learn!OnForm(app) \/ Quiet(ops))
  BY Running
<1>2. OpsOK(q, app) /\ (Quiet(ops) => Quiet(q))
  BY EndedIs
<1> HIDE DEF q
<1>3. OpsOK(q, a)
  BY <1>2, SameOK
<1>4. KanjiInv'
  <2>1. Learn!Become(a, q)
    BY DEF q
  <2> QED BY <1>1, <1>2, <1>3, <2>1, BecomeKeeps
<1> QED BY <1>4

\* A call of the form fails: the form may start another one.
LEMMA FailedKeeps ==
  ASSUME KanjiInv, NEW i \in DOMAIN ops, ops[i].kind \in {"add", "edit"}, ops[i].pc = "put",
         Learn!Become(Learn!Failed(i), Learn!Ended(i)), stored' = stored
  PROVE  KanjiInv'
<1> DEFINE o == ops[i]
           f == Learn!Failed(i)
           q == Learn!Ended(i)
<1>1. /\ app.phase = "up" /\ Fit(app, stored) /\ OpsOK(ops, app) /\ (Learn!OnForm(app) \/ Quiet(ops))
  BY Running
<1>2. (o.here => Busy(o)) /\ (Busy(o) => app.guard /\ app.born = 0)
  BY <1>1 DEF Busy, OpsOK
<1>3. OpsOK(q, app) /\ (Quiet(ops) => Quiet(q))
      /\ (Busy(o) => \A d : d.born \in {0, 1} /\ (d.born = 1 => d.guard) => OpsOK(q, d))
  BY EndedIs
<1>4. Fit(f, stored) /\ OpsOK(q, f)
  <2>1. CASE o.here
    <3>1. f = [app EXCEPT !.guard = FALSE, !.errors = {}, !.saveError = TRUE]
      BY <2>1 DEF Learn!Failed
    <3> HIDE DEF f
    <3>2. Fit(f, stored) /\ f.guard = FALSE /\ f.born = app.born
      BY <1>1, <3>1, FailedIs
    <3>3. Busy(o) /\ f.born = 0
      BY <1>2, <2>1, <3>2
    <3>4. OpsOK(q, f)
      BY <1>3, <3>2, <3>3
    <3> QED BY <3>2, <3>4
  <2>2. CASE ~o.here
    BY <1>1, <1>3, <2>2 DEF Learn!Failed
  <2> QED BY <2>1, <2>2
<1> HIDE DEF q, f
<1>5. Learn!Become(f, q)
  BY DEF q, f
<1> QED BY <1>1, <1>3, <1>4, <1>5, BecomeKeeps

LEMMA AddPutKeeps ==
  ASSUME KanjiInv, NEW i \in DOMAIN ops, NEW ok \in BOOLEAN, Learn!AddPut(i, ok) PROVE KanjiInv'
<1> DEFINE o == ops[i]
<1>1. /\ app.phase = "up" /\ Fit(app, stored) /\ OpsOK(ops, app) /\ (Learn!OnForm(app) \/ Quiet(ops))
  BY Running
<1>2. o.kind = "add" /\ o.pc = "put"
  BY DEF Learn!AddPut, Learn!Answers
<1>3. /\ o.here => Busy(o)
      /\ Busy(o) => app.guard /\ app.born = 0
  BY <1>1, <1>2 DEF Busy, OpsOK
<1>4. CASE ok
  <2> DEFINE v == IF o.here THEN app.born + 1 ELSE app.born
             a == [app EXCEPT !.born = v]
             b == Learn!Dispatch(a, "add", o.id, o.prof)
             q == Learn!Then(i, "last", o.id)
  <2>1. Learn!Become(b, q) /\ stored' = stored \cup {<<o.id, o.prof>>}
    BY <1>4 DEF Learn!AddPut
  <2>2. OpsOK(q, app) /\ (Quiet(ops) => Quiet(q))
        /\ (Busy(o) => \A d : d.born \in {0, 1} /\ (d.born = 1 => d.guard) => OpsOK(q, d))
    BY ThenIs
  <2>4. (Busy(o) => v = 1) /\ (~o.here => v = app.born)
    BY <1>3 DEF Busy
  <2> HIDE DEF q, v
  <2>3. Fit(a, stored) /\ a.guard = app.guard /\ a.born = v
    BY <1>1, BornFits
  <2> HIDE DEF a
  <2>7. stored \subseteq stored' /\ <<o.id, o.prof>> \in stored'
    BY <2>1
  <2> HIDE DEF o
  <2>5. Fit(b, stored') /\ b.guard = a.guard /\ b.born = a.born
    BY <2>3, <2>7, DispatchFits
  <2> HIDE DEF b
  <2>6. OpsOK(q, b)
    <3>1. CASE o.here
      BY <1>3, <2>2, <2>3, <2>4, <2>5, <3>1
    <3>2. CASE ~o.here
      BY <2>2, <2>3, <2>4, <2>5, <3>2, SameOK
    <3> QED BY <3>1, <3>2
  <2> QED BY <1>1, <2>1, <2>2, <2>5, <2>6, BecomeKeeps
<1>5. CASE ~ok
  BY <1>2, <1>5, FailedKeeps DEF Learn!AddPut
<1> QED BY <1>4, <1>5

LEMMA AddLastKeeps ==
  ASSUME KanjiInv, NEW i \in DOMAIN ops, NEW ok \in BOOLEAN, Learn!AddLast(i, ok) PROVE KanjiInv'
<1> DEFINE h == Learn!Replace(app.hist, Learn!At("home"))
           a == [app EXCEPT !.hist = h]
           r == Learn!Ended(i)
           c == Learn!Call("persist", "asked", 0, Learn!Unset)
           q == Append(r, c)
<1>1. Learn!Become(a, q) /\ stored' = stored
  BY DEF Learn!AddLast
<1>2. app.phase = "up" /\ Fit(app, stored) /\ (Learn!OnForm(app) \/ Quiet(ops))
  BY Running
<1>3. OpsOK(r, app) /\ (Quiet(ops) => Quiet(r))
  BY EndedIs
<1>4. IsOp(c) /\ c.kind = "persist" /\ c.here = Learn!OnForm(app)
  BY CallMade
<1> HIDE DEF r, c
<1>5. ~Busy(c)
  BY <1>4 DEF Busy
<1>6. OpsOK(q, app) /\ (Quiet(r) /\ ~c.here => Quiet(q))
  BY <1>3, <1>4, <1>5, AddedOK
<1> HIDE DEF q
<1>7. Learn!OnForm(app) \/ Quiet(q)
  BY <1>2, <1>3, <1>4, <1>6
<1>8. IsHist(h)
  BY <1>2, HistIs DEF Fit
<1> HIDE DEF h
<1>9. Fit(a, stored) /\ a.guard = app.guard /\ a.born = app.born
  BY <1>2, <1>8, HistFits
<1> HIDE DEF a
<1>10. OpsOK(q, a)
  BY <1>6, <1>9, SameOK
<1> QED BY <1>1, <1>2, <1>7, <1>9, <1>10, BecomeKeeps

LEMMA PersistKeeps ==
  ASSUME KanjiInv, NEW i \in DOMAIN ops, NEW ok \in BOOLEAN, Learn!Persist(i, ok) \/ Learn!Asked(i)
  PROVE  KanjiInv'
<1>1. ops[i].kind = "persist" /\ stored' = stored
  BY DEF Learn!Persist, Learn!Asked
<1>2. Fit(app, stored)
  BY Running
<1>3. CASE \E pc : Learn!Become(app, Learn!Then(i, pc, 0))
  <2> PICK pc : Learn!Become(app, Learn!Then(i, pc, 0))
    BY <1>3
  <2> QED BY <1>1, <1>2, ThenKeeps
<1>4. CASE Learn!Become(app, Learn!Ended(i))
  BY <1>1, <1>2, <1>4, EndedKeeps
<1>5. CASE Learn!Persist(i, ok)
  <2>1. PICK pc \in {"asked", "setAsked", "setKept"} :
           Learn!Become(app, IF ~ok \/ pc = "setKept" \/ (pc = "asked" /\ Learn!Meta.asked) THEN Learn!Ended(i)
                             ELSE Learn!Then(i, IF pc = "asked" THEN "ask" ELSE "setKept", 0))
    BY <1>5 DEF Learn!Persist
  <2>2. CASE ~ok \/ pc = "setKept" \/ (pc = "asked" /\ Learn!Meta.asked)
    BY <1>4, <2>1, <2>2
  <2>3. CASE ~(~ok \/ pc = "setKept" \/ (pc = "asked" /\ Learn!Meta.asked))
    BY <1>3, <2>1, <2>3
  <2> QED BY <2>2, <2>3
<1>6. CASE Learn!Asked(i)
  BY <1>3, <1>6 DEF Learn!Asked
<1> QED BY <1>5, <1>6

LEMMA EditPutKeeps ==
  ASSUME KanjiInv, NEW i \in DOMAIN ops, NEW ok \in BOOLEAN, Learn!EditPut(i, ok) PROVE KanjiInv'
<1> DEFINE o == ops[i]
<1>1. Fit(app, stored)
  BY Running
<1>2. o.kind = "edit" /\ o.pc = "put"
  BY DEF Learn!EditPut, Learn!Answers
<1>3. CASE ok
  <2> DEFINE e == [app EXCEPT !.errors = {}]
             f == [e EXCEPT !.saveError = FALSE]
             s == Learn!Saved(i)
             h == Learn!Back(s.hist)
             a == [s EXCEPT !.hist = h]
             b == Learn!Dispatch(a, "update", o.id, o.prof)
  <2>1. Learn!Become(b, Learn!Ended(i)) /\ stored' = stored \cup {<<o.id, o.prof>>}
    BY <1>3 DEF Learn!EditPut
  <2>2. s = IF o.here THEN f ELSE app
    BY DEF Learn!Saved
  <2>3. Alike(e, app)
    BY <1>1, MinorSet DEF Minors, Fit
  <2> HIDE DEF e
  <2>4. Alike(f, e)
    BY <2>3, MinorSet DEF Minors, Alike
  <2> HIDE DEF f, s
  <2>5. Fit(s, stored) /\ s.guard = app.guard /\ s.born = app.born
    <3>1. Fit(f, stored) /\ f.guard = app.guard /\ f.born = app.born
      BY <1>1, <2>3, <2>4, AlikeFits DEF Alike
    <3> QED BY <1>1, <2>2, <3>1
  <2>6. IsHist(h)
    BY <2>5, HistIs DEF Fit
  <2> HIDE DEF h
  <2>7. Fit(a, stored) /\ a.guard = app.guard /\ a.born = app.born
    BY <2>5, <2>6, HistFits
  <2> HIDE DEF a
  <2>8. stored \subseteq stored' /\ <<o.id, o.prof>> \in stored'
    BY <2>1
  <2> HIDE DEF o
  <2>9. Fit(b, stored') /\ b.guard = app.guard /\ b.born = app.born
    BY <2>7, <2>8, DispatchFits
  <2> HIDE DEF b
  <2> QED BY <2>1, <2>9, EndedKeeps
<1>4. CASE ~ok
  BY <1>2, <1>4, FailedKeeps DEF Learn!EditPut
<1> QED BY <1>3, <1>4

LEMMA LangKeeps ==
  ASSUME KanjiInv, NEW i \in DOMAIN ops, NEW ok \in BOOLEAN, Learn!LangPut(i, ok) \/ Learn!LangMeta(i, ok)
  PROVE  KanjiInv'
<1> DEFINE o == ops[i]
<1>1. Fit(app, stored)
  BY Running
<1>2. CASE Learn!Become(app, Learn!Ended(i)) /\ stored' = stored
  BY <1>1, <1>2, EndedKeeps
<1>3. CASE Learn!LangPut(i, ok) /\ ok
  <2> DEFINE b == Learn!Dispatch(app, "update", o.id, o.prof)
  <2>1. Learn!Become(b, Learn!Ended(i)) /\ stored' = stored \cup {<<o.id, o.prof>>}
    BY <1>3 DEF Learn!LangPut
  <2>2. stored \subseteq stored' /\ <<o.id, o.prof>> \in stored'
    BY <2>1
  <2> HIDE DEF o
  <2>3. Fit(b, stored') /\ b.guard = app.guard /\ b.born = app.born
    BY <1>1, <2>2, DispatchFits
  <2> HIDE DEF b
  <2> QED BY <2>1, <2>3, EndedKeeps
<1>4. CASE Learn!LangMeta(i, ok) /\ ok
  <2> DEFINE b == Learn!Dispatch(app, "setUi", 0, o.prof)
  <2>1. Learn!Become(b, Learn!Ended(i)) /\ stored' = stored
    BY <1>4 DEF Learn!LangMeta
  <2>2. Fit(b, stored) /\ b.guard = app.guard /\ b.born = app.born
    BY <1>1, DispatchFits
  <2> HIDE DEF b
  <2> QED BY <2>1, <2>2, EndedKeeps
<1>5. CASE Learn!LangPut(i, ok) /\ ~ok
  BY <1>2, <1>5 DEF Learn!LangPut
<1>6. CASE Learn!LangMeta(i, ok) /\ ~ok
  BY <1>2, <1>6 DEF Learn!LangMeta
<1> QED BY <1>3, <1>4, <1>5, <1>6

LEMMA SwitchKeeps ==
  ASSUME KanjiInv, NEW i \in DOMAIN ops, NEW ok \in BOOLEAN, Learn!SwitchLast(i, ok) PROVE KanjiInv'
<1> DEFINE h == Learn!Push(app.hist, Learn!At("home"))
           a == [app EXCEPT !.hist = h]
           s == IF ops[i].kind = "pick" THEN a ELSE app
           b == Learn!Dispatch(s, "switch", ops[i].id, Learn!Unset)
<1>1. Learn!Become(IF ~ok THEN app ELSE b, Learn!Ended(i)) /\ stored' = stored
  BY DEF Learn!SwitchLast
<1>2. Fit(app, stored)
  BY Running
<1>3. IsHist(h)
  BY <1>2, HistIs DEF Fit
<1> HIDE DEF h
<1>4. Fit(a, stored) /\ a.guard = app.guard /\ a.born = app.born
  BY <1>2, <1>3, HistFits
<1> HIDE DEF a
<1>5. Fit(s, stored) /\ s.guard = app.guard /\ s.born = app.born
  BY <1>2, <1>4
<1> HIDE DEF s
<1>6. Fit(b, stored) /\ b.guard = app.guard /\ b.born = app.born
  BY <1>5, DispatchFits
<1> HIDE DEF b
<1>7. CASE ok
  BY <1>1, <1>6, <1>7, EndedKeeps
<1>8. CASE ~ok
  BY <1>1, <1>2, <1>8, EndedKeeps
<1> QED BY <1>7, <1>8

\* The learner is gone from the store: it goes from the screen, and when it was
\* the current one the call goes on to name the next.
LEMMA RemovedKeeps ==
  ASSUME KanjiInv, NEW i \in DOMAIN ops, Learn!Removed(i), stored' = stored
  PROVE  KanjiInv'
<1> DEFINE gone == Learn!Dispatch(app, "remove", ops[i].id, Learn!Unset)
           h == Learn!Replace(Learn!Shown(gone).hist, Learn!At("profiles"))
           a == [gone EXCEPT !.hist = h]
<1>1. \/ Learn!Become(gone, Learn!Then(i, "next", gone.cur))
      \/ Learn!Become(a, Learn!Ended(i))
  BY DEF Learn!Removed
<1>2. Fit(app, stored)
  BY Running
<1>3. Fit(gone, stored) /\ gone.guard = app.guard /\ gone.born = app.born
  BY <1>2, DispatchFits
<1> HIDE DEF gone
<1>4. IsHist(Learn!Shown(gone).hist)
  BY <1>3, ShownIs DEF Fit
<1>5. IsHist(h)
  BY <1>4, HistIs
<1> HIDE DEF h
<1>6. Fit(a, stored) /\ a.guard = app.guard /\ a.born = app.born
  BY <1>3, <1>5, HistFits
<1> HIDE DEF a
<1>7. CASE Learn!Become(gone, Learn!Then(i, "next", gone.cur))
  BY <1>3, <1>7, ThenKeeps
<1>8. CASE Learn!Become(a, Learn!Ended(i))
  BY <1>6, <1>8, EndedKeeps
<1> QED BY <1>1, <1>7, <1>8

LEMMA RemoveKeeps ==
  ASSUME KanjiInv, NEW i \in DOMAIN ops, NEW ok \in BOOLEAN,
         \/ Learn!RemoveDel(i, ok) \/ Learn!RemoveReadLast(i, ok) \/ Learn!RemoveDelLast(i, ok)
         \/ Learn!RemoveCheck(i, ok) \/ Learn!RemoveNext(i, ok)
  PROVE  KanjiInv'
<1> DEFINE o == ops[i]
<1>1. /\ app.phase = "up" /\ Fit(app, stored) /\ OpsOK(ops, app) /\ (Learn!OnForm(app) \/ Quiet(ops))
  BY Running
<1>2. stored' = stored /\ o.kind = "remove"
  BY DEF Learn!RemoveDel, Learn!RemoveReadLast, Learn!RemoveDelLast, Learn!RemoveCheck, Learn!RemoveNext,
         Learn!Answers
<1>3. ASSUME o.pc \notin {"last", "next"}, NEW pc, Learn!Become(app, Learn!Then(i, pc, o.id))
      PROVE  KanjiInv'
  BY <1>1, <1>2, <1>3, ThenKeeps
<1>4. CASE Learn!RemoveDel(i, ok)
  <2>1. o.pc = "del" /\ Learn!Become(app, Learn!Then(i, IF ok THEN "readLast" ELSE "check", o.id))
    BY <1>4 DEF Learn!RemoveDel, Learn!Answers
  <2> QED BY <1>3, <2>1
<1>5. CASE Learn!RemoveReadLast(i, ok)
  <2>1. /\ o.pc = "readLast"
        /\ IF ok /\ Learn!Meta.last # o.id THEN Learn!Removed(i)
           ELSE Learn!Become(app, Learn!Then(i, IF ok THEN "delLast" ELSE "check", o.id))
    BY <1>5 DEF Learn!RemoveReadLast, Learn!Answers
  <2> QED BY <1>2, <1>3, <2>1, RemovedKeeps
<1>6. CASE Learn!RemoveDelLast(i, ok)
  <2>1. /\ o.pc = "delLast"
        /\ IF ok THEN Learn!Removed(i) ELSE Learn!Become(app, Learn!Then(i, "check", o.id))
    BY <1>6 DEF Learn!RemoveDelLast, Learn!Answers
  <2> QED BY <1>2, <1>3, <2>1, RemovedKeeps
<1>7. CASE Learn!RemoveCheck(i, ok)
  <2> DEFINE f == [app EXCEPT !.guard = FALSE, !.saveError = TRUE]
             a == IF o.here THEN f ELSE app
             q == Learn!Ended(i)
  <2>1. o.pc = "check" /\ (Learn!Removed(i) \/ Learn!Become(a, q))
    BY <1>7 DEF Learn!RemoveCheck, Learn!Answers
  <2>2. Fit(f, stored) /\ f.guard = FALSE /\ f.born = app.born
    BY <1>1, FailedIs
  <2> HIDE DEF f
  <2>3. OpsOK(q, app) /\ (Quiet(ops) => Quiet(q))
        /\ (Busy(o) => \A d : d.born \in {0, 1} /\ (d.born = 1 => d.guard) => OpsOK(q, d))
    BY EndedIs
  <2>4. (o.here => Busy(o)) /\ (Busy(o) => app.born = 0)
    BY <1>1, <1>2, <2>1 DEF Busy, OpsOK
  <2>5. Fit(a, stored) /\ OpsOK(q, a)
    <3>1. CASE o.here
      <4>1. f.born \in {0, 1} /\ (f.born = 1 => f.guard)
        BY <2>2, <2>4, <3>1
      <4>2. OpsOK(q, f)
        BY <2>3, <2>4, <3>1, <4>1
      <4> QED BY <2>2, <3>1, <4>2
    <3>2. CASE ~o.here
      BY <1>1, <2>3, <3>2
    <3> QED BY <3>1, <3>2
  <2> HIDE DEF a, q
  <2>6. CASE Learn!Become(a, q)
    BY <1>1, <1>2, <2>3, <2>5, <2>6, BecomeKeeps
  <2> QED BY <1>2, <2>1, <2>6, RemovedKeeps
<1>8. CASE Learn!RemoveNext(i, ok)
  <2> DEFINE h == Learn!Replace(app.hist, Learn!At("profiles"))
             a == [app EXCEPT !.hist = h]
  <2>1. Learn!Become(a, Learn!Ended(i))
    BY <1>8 DEF Learn!RemoveNext
  <2>2. IsHist(h)
    BY <1>1, HistIs DEF Fit
  <2> HIDE DEF h
  <2>3. Fit(a, stored) /\ a.guard = app.guard /\ a.born = app.born
    BY <1>1, <2>2, HistFits
  <2> HIDE DEF a
  <2> QED BY <1>2, <2>1, <2>3, EndedKeeps
<1> QED BY <1>4, <1>5, <1>6, <1>7, <1>8

LEMMA TransactionKeeps == ASSUME KanjiInv, Learn!Transaction PROVE KanjiInv'
<1>1. PICK i \in DOMAIN ops :
        \/ Learn!Asked(i)
        \/ \E ok \in BOOLEAN :
             \/ Learn!AddPut(i, ok) \/ Learn!AddLast(i, ok) \/ Learn!Persist(i, ok) \/ Learn!EditPut(i, ok)
             \/ Learn!LangPut(i, ok) \/ Learn!LangMeta(i, ok) \/ Learn!SwitchLast(i, ok)
             \/ Learn!RemoveDel(i, ok) \/ Learn!RemoveReadLast(i, ok) \/ Learn!RemoveDelLast(i, ok)
             \/ Learn!RemoveCheck(i, ok) \/ Learn!RemoveNext(i, ok)
  BY DEF Learn!Transaction
<1>2. CASE Learn!Asked(i)
  BY <1>2, PersistKeeps
<1> QED BY <1>1, <1>2, AddPutKeeps, AddLastKeeps, PersistKeeps, EditPutKeeps, LangKeeps, SwitchKeeps,
           RemoveKeeps

-----------------------------------------------------------------------------
(* What a user does.                                                        *)

LEMMA SeeKeeps ==
  ASSUME KanjiInv, Learn!Up, NEW a, Learn!See(a), Fit(a, stored), a.guard = app.guard, a.born = app.born
  PROVE  KanjiInv'
<1>1. app.phase = "up" /\ Learn!Become(a, ops) /\ stored' = stored
  BY DEF Learn!See, Learn!Up
<1>2. OpsOK(ops, app) /\ (Learn!OnForm(app) \/ Quiet(ops))
  BY <1>1, Running
<1>3. OpsOK(ops, a)
  BY <1>2, SameOK
<1> QED BY <1>1, <1>2, <1>3, BecomeKeeps

\* The sheet, the form's fields and its errors are nothing to the invariant.
LEMMA SeeMinor ==
  ASSUME KanjiInv, Learn!Up, NEW f \in Minors, NEW v, Learn!See([app EXCEPT ![f] = v]) PROVE KanjiInv'
<1> DEFINE a == [app EXCEPT ![f] = v]
<1>1. Fit(app, stored)
  BY Running DEF Learn!Up
<1>2. Alike(a, app)
  BY <1>1, MinorSet DEF Fit
<1> HIDE DEF a
<1>3. Fit(a, stored) /\ a.guard = app.guard /\ a.born = app.born
  BY <1>1, <1>2, AlikeFits DEF Alike
<1>4. Learn!See(a)
  BY DEF a
<1> QED BY <1>3, <1>4, SeeKeeps

LEMMA SeeHist ==
  ASSUME KanjiInv, Learn!Up, NEW h, IsHist(h), Learn!See([app EXCEPT !.hist = h]) PROVE KanjiInv'
<1> DEFINE a == [app EXCEPT !.hist = h]
<1>1. Fit(app, stored)
  BY Running DEF Learn!Up
<1>2. Fit(a, stored) /\ a.guard = app.guard /\ a.born = app.born
  BY <1>1, HistFits
<1> HIDE DEF a
<1>3. Learn!See(a)
  BY DEF a
<1> QED BY <1>2, <1>3, SeeKeeps

LEMMA GoKeeps == ASSUME KanjiInv, Learn!Up, NEW path, Learn!Go(path) \/ Learn!Follow(path) PROVE KanjiInv'
<1>1. CASE Learn!Go(path)
  <2> DEFINE h == Learn!Push(app.hist, path)
             a == [app EXCEPT !.hist = h]
             b == [a EXCEPT !.sheet = "none"]
  <2>1. Learn!See(b)
    BY <1>1 DEF Learn!Go
  <2>2. Fit(app, stored)
    BY Running DEF Learn!Up
  <2>3. IsHist(h)
    BY <2>2, HistIs DEF Fit
  <2> HIDE DEF h
  <2>4. Fit(a, stored) /\ a.guard = app.guard /\ a.born = app.born
    BY <2>2, <2>3, HistFits
  <2> HIDE DEF a
  <2>5. Alike(b, a)
    BY <2>4, MinorSet DEF Minors, Fit
  <2> HIDE DEF b
  <2>6. Fit(b, stored) /\ b.guard = app.guard /\ b.born = app.born
    BY <2>4, <2>5, AlikeFits DEF Alike
  <2> QED BY <2>1, <2>6, SeeKeeps
<1>2. CASE Learn!See([app EXCEPT !.sheet = "none"])
  BY <1>2, SeeMinor DEF Minors
<1> QED BY <1>1, <1>2 DEF Learn!Follow

\* The form starts a call: nothing else of it waits, and its guard is set.
LEMMA FormCallKeeps ==
  ASSUME KanjiInv, Learn!Up, ~app.guard, NEW kind, NEW pc, NEW id, NEW p,
         Learn!Become(Learn!Guarded(app), Append(ops, Learn!Call(kind, pc, id, p))), stored' = stored
  PROVE  KanjiInv'
<1> DEFINE c == Learn!Call(kind, pc, id, p)
           a == [app EXCEPT !.guard = TRUE]
           q == Append(ops, c)
<1>1. Learn!Become(a, q)
  BY DEF Learn!Guarded
<1>2. app.phase = "up" /\ Fit(app, stored) /\ OpsOK(ops, app) /\ (Learn!OnForm(app) \/ Quiet(ops))
  BY Running DEF Learn!Up
<1>3. IsOp(c) /\ c.here = Learn!OnForm(app)
  BY CallMade
<1> HIDE DEF c
<1>4. Fit(a, stored) /\ a.guard = TRUE /\ a.born = app.born
  BY <1>2, GuardFits
<1> HIDE DEF a
<1>5. app.born = 0 /\ IsOps(ops) /\ \A k \in DOMAIN ops : ~Busy(ops[k])
  BY <1>2 DEF OpsOK
<1>6. OpsOK(ops, a)
  BY <1>4, <1>5, IdleOK
<1>7. OpsOK(q, a) /\ (Quiet(ops) /\ ~c.here => Quiet(q))
  BY <1>3, <1>4, <1>5, <1>6, AddedOK
<1> HIDE DEF q
<1>8. (app.phase = "up" /\ Learn!OnForm(app)) \/ Quiet(q)
  BY <1>2, <1>3, <1>7
<1> QED BY <1>1, <1>4, <1>7, <1>8, BecomeKeeps

\* A call the form has no part in.
LEMMA SideCallKeeps ==
  ASSUME KanjiInv, Learn!Up, NEW kind, kind \notin {"add", "edit", "remove"}, NEW pc, NEW id, NEW p,
         NEW a, Alike(a, app),
         Learn!Become(a, Append(ops, Learn!Call(kind, pc, id, p))), stored' = stored
  PROVE  KanjiInv'
<1> DEFINE c == Learn!Call(kind, pc, id, p)
           q == Append(ops, c)
<1>1. app.phase = "up" /\ Fit(app, stored) /\ OpsOK(ops, app) /\ (Learn!OnForm(app) \/ Quiet(ops))
  BY Running DEF Learn!Up
<1>2. IsOp(c) /\ c.kind = kind /\ c.here = Learn!OnForm(app)
  BY CallMade
<1>3. Learn!Become(a, q)
  OBVIOUS
<1> HIDE DEF c
<1>4. ~Busy(c)
  BY <1>2 DEF Busy
<1>5. OpsOK(q, app) /\ (Quiet(ops) /\ ~c.here => Quiet(q))
  BY <1>1, <1>2, <1>4, AddedOK
<1> HIDE DEF q
<1>6. Fit(a, stored) /\ a.guard = app.guard /\ a.born = app.born
  BY <1>1, AlikeFits DEF Alike
<1>7. OpsOK(q, a)
  BY <1>5, <1>6, SameOK
<1>8. (app.phase = "up" /\ Learn!OnForm(app)) \/ Quiet(q)
  BY <1>1, <1>2, <1>5
<1> QED BY <1>3, <1>6, <1>7, <1>8, BecomeKeeps

LEMMA UserKeeps == ASSUME KanjiInv, Learn!User PROVE KanjiInv'
<1>1. Learn!Up
  BY DEF Learn!User, Learn!PressTab, Learn!PressBack, Learn!BrowserBack, Learn!PressStart, Learn!PressHome,
         Learn!OpenSheet, Learn!CloseSheet, Learn!PressMore, Learn!SheetAdds, Learn!Fill,
         Learn!SubmitRefused, Learn!SubmitNew, Learn!SubmitEdit, Learn!AskDelete, Learn!Delete,
         Learn!PickLearner, Learn!PickLang, Learn!Free
<1>2. IsApp(app) /\ IsHist(app.hist)
  BY DEF KanjiInv, KanjiHolds
<1>3. CASE Learn!PressTab \/ Learn!PressStart \/ Learn!PressHome \/ Learn!PressMore \/ Learn!SheetAdds
  <2>1. \E path : Learn!Go(path) \/ Learn!Follow(path)
    BY <1>3 DEF Learn!PressTab, Learn!PressStart, Learn!PressHome, Learn!PressMore, Learn!SheetAdds
  <2> QED BY <1>1, <2>1, GoKeeps
<1>4. CASE Learn!PressBack \/ Learn!BrowserBack
  <2>1. PICK h \in {Learn!Back(app.hist), Learn!Front(app.hist)} : IsHist(h) /\ Learn!See([app EXCEPT !.hist = h])
    <3>1. CASE Learn!PressBack
      <4>1. IsHist(Learn!Back(app.hist))
        BY <1>2, HistIs
      <4>2. Learn!See([app EXCEPT !.hist = Learn!Back(app.hist)])
        BY <3>1 DEF Learn!PressBack
      <4> QED BY <4>1, <4>2
    <3>2. CASE Learn!BrowserBack
      <4>1. Learn!See([app EXCEPT !.hist = Learn!Front(app.hist)]) /\ Len(app.hist) > 1
        BY <3>2 DEF Learn!BrowserBack
      <4>2. IsHist(Learn!Front(app.hist))
        BY <1>2, <4>1, HistIs
      <4> QED BY <4>1, <4>2
    <3> QED BY <1>4, <3>1, <3>2
  <2> QED BY <1>1, <2>1, SeeHist
<1>5. CASE (\E s \in {"more", "lang", "learners"} : Learn!OpenSheet(s)) \/ Learn!CloseSheet
  <2>1. \E v : Learn!See([app EXCEPT !.sheet = v])
    BY <1>5 DEF Learn!OpenSheet, Learn!CloseSheet
  <2>2. "sheet" \in Minors
    BY DEF Minors
  <2> QED BY <1>1, <2>1, <2>2, SeeMinor
<1>6. CASE Learn!Fill
  <2>1. PICK fill \in Fills : Learn!See([app EXCEPT !.form = [app.form EXCEPT ![fill[1]] = fill[2]]])
    BY <1>6 DEF Learn!Fill
  <2>2. "form" \in Minors
    BY DEF Minors
  <2> QED BY <1>1, <2>1, <2>2, SeeMinor
<1>7. CASE Learn!AskDelete
  <2>1. \E b : Learn!See([app EXCEPT !.asking = b])
    BY <1>7 DEF Learn!AskDelete
  <2>2. "asking" \in Minors
    BY DEF Minors
  <2> QED BY <1>1, <2>1, <2>2, SeeMinor
<1>8. CASE Learn!SubmitRefused
  <2> DEFINE e == [app EXCEPT !.errors = Learn!FormErrors(app.form)]
             f == [e EXCEPT !.saveError = FALSE]
  <2>1. Learn!See(f)
    BY <1>8 DEF Learn!SubmitRefused
  <2>2. Alike(e, app)
    BY <1>2, MinorSet DEF Minors
  <2> HIDE DEF e
  <2>3. Alike(f, e)
    BY <2>2, MinorSet DEF Minors, Alike
  <2> HIDE DEF f
  <2>4. Fit(app, stored)
    BY <1>1, Running DEF Learn!Up
  <2>5. Fit(f, stored) /\ f.guard = app.guard /\ f.born = app.born
    BY <2>2, <2>3, <2>4, AlikeFits DEF Alike
  <2> QED BY <1>1, <2>1, <2>5, SeeKeeps
<1>9. CASE Learn!SubmitNew
  <2>1. /\ ~app.guard /\ stored' = stored
        /\ Learn!Become(Learn!Guarded(app),
                        Append(ops, Learn!Call("add", "put", Learn!NextId, Learn!FormToProfile(app.form))))
    BY <1>9 DEF Learn!SubmitNew
  <2> QED BY <1>1, <2>1, FormCallKeeps
<1>10. CASE Learn!SubmitEdit
  <2>1. /\ ~app.guard /\ stored' = stored
        /\ Learn!Become(Learn!Guarded(app),
              Append(ops, Learn!Call("edit", "put", Learn!Top(app).id, Learn!FormToProfile(app.form))))
    BY <1>10 DEF Learn!SubmitEdit, Learn!Started
  <2> QED BY <1>1, <2>1, FormCallKeeps
<1>11. CASE Learn!Delete
  <2>1. /\ ~app.guard /\ stored' = stored
        /\ Learn!Become(Learn!Guarded(app),
                        Append(ops, Learn!Call("remove", "del", Learn!Top(app).id, Learn!Unset)))
    BY <1>11 DEF Learn!Delete, Learn!Started
  <2> QED BY <1>1, <2>1, FormCallKeeps
<1>12. Alike(app, app) /\ Alike([app EXCEPT !.sheet = "none"], app)
  BY <1>2, MinorSet DEF Minors, Alike
<1>13. CASE Learn!PickLearner
  <2>1. PICK id \in DOMAIN app.list :
           \/ Learn!Started(Learn!Call("pick", "last", id, Learn!Unset), app)
           \/ Learn!Started(Learn!Call("switch", "last", id, Learn!Unset), [app EXCEPT !.sheet = "none"])
    BY <1>13 DEF Learn!PickLearner
  <2>2. CASE Learn!Started(Learn!Call("pick", "last", id, Learn!Unset), app)
    <3>1. /\ Learn!Become(app, Append(ops, Learn!Call("pick", "last", id, Learn!Unset)))
          /\ stored' = stored
      BY <2>2 DEF Learn!Started
    <3> QED BY <1>1, <1>12, <3>1, SideCallKeeps
  <2>3. CASE Learn!Started(Learn!Call("switch", "last", id, Learn!Unset), [app EXCEPT !.sheet = "none"])
    <3>1. /\ Learn!Become([app EXCEPT !.sheet = "none"],
                          Append(ops, Learn!Call("switch", "last", id, Learn!Unset)))
          /\ stored' = stored
      BY <2>3 DEF Learn!Started
    <3> QED BY <1>1, <1>12, <3>1, SideCallKeeps
  <2> QED BY <2>1, <2>2, <2>3
<1>14. CASE Learn!PickLang
  <2> DEFINE a == [app EXCEPT !.sheet = "none"]
  <2>1. PICK lang \in Languages :
          Learn!Started(IF app.cur \in DOMAIN app.list
                        THEN Learn!Call("lang", "put", app.cur, [Learn!Current(app) EXCEPT !.lang = lang])
                        ELSE Learn!Call("lang", "ui", 0, [Learn!Unset EXCEPT !.lang = lang]), a)
    BY <1>14 DEF Learn!PickLang
  <2> HIDE DEF a
  <2>2. \E pc, id, p : Learn!Started(Learn!Call("lang", pc, id, p), a)
    BY <2>1, Zenon
  <2>3. PICK pc, id, p : Learn!Started(Learn!Call("lang", pc, id, p), a)
    BY <2>2
  <2>4. Learn!Become(a, Append(ops, Learn!Call("lang", pc, id, p))) /\ stored' = stored
    BY <2>3 DEF Learn!Started
  <2>5. Alike(a, app)
    BY <1>12 DEF a
  <2> QED BY <1>1, <2>4, <2>5, SideCallKeeps
<1> QED BY <1>3, <1>4, <1>5, <1>6, <1>7, <1>8, <1>9, <1>10, <1>11, <1>13, <1>14 DEF Learn!User

LEMMA KanjiStep == ASSUME KanjiInv, [Learn!Next]_(Learn!vars) PROVE KanjiInv'
<1>1. CASE Learn!Open \/ Learn!Reload
  <2>1. \E path : Learn!Start(path)
    BY <1>1 DEF Learn!Open, Learn!Reload
  <2> QED BY <2>1, StartKeeps
<1>2. CASE UNCHANGED Learn!vars
  <2>1. app' = app /\ ops' = ops /\ stored' = stored
    BY <1>2 DEF Learn!vars
  <2>2. KanjiHolds(app', ops', stored')
    BY <2>1 DEF KanjiInv
  <2> QED BY <2>2 DEF KanjiInv
<1>3. CASE Learn!Next
  BY <1>1, <1>3, OpeningKeeps, ReadingKeeps, FirstRenderKeeps, ClosingKeeps, TransactionKeeps, UserKeeps
     DEF Learn!Next
<1> QED BY <1>2, <1>3

LEMMA ShownFollows == KanjiInv => Learn!ShownIsStored
<1> SUFFICES ASSUME KanjiInv PROVE Learn!ShownIsStored
  OBVIOUS
<1>1. Learn!ShownWasStored /\ Learn!PageIsAllowed
  BY DEF KanjiInv, KanjiHolds, Learn!ShownWasStored, Learn!PageIsAllowed, Learn!Up
<1>2. Learn!FormAddsOnce
  <2>1. app.born \in {0, 1}
    BY DEF KanjiInv, KanjiHolds, OpsOK
  <2> QED BY <2>1 DEF Learn!FormAddsOnce
<1>3. Learn!NoConnectionLeft
  BY DEF KanjiInv, KanjiHolds, Learn!NoConnectionLeft
<1> QED BY <1>1, <1>2, <1>3 DEF Learn!ShownIsStored

\* Every learner on the screen of the kanji application was stored as it is
\* shown; the page asks for no redirect; one visit of the form adds one learner
\* however often it is sent; and a tab that works in memory holds no connection
\* (store.ts, profileState.ts, ProfileEditPage.tsx and routing.ts of
\* src/web/src/kanji), whatever the languages, entries, faults and history are.
THEOREM LearnersShownAreStored == Learn!Spec => []Learn!ShownIsStored
<1>1. Learn!Init => KanjiInv
  BY KanjiInit
<1>2. KanjiInv /\ [Learn!Next]_(Learn!vars) => KanjiInv'
  BY KanjiStep
<1> QED BY <1>1, <1>2, ShownFollows, PTL DEF Learn!Spec

-----------------------------------------------------------------------------
(* The place and the texts together; they run apart, as in MCAccountData.   *)

VARIABLE part     \* the component a behaviour is of

Keeping ==
  /\ [][FALSE]_part
  /\ (part = "device" /\ Place!Spec) \/ (part = "saves" /\ Sheet!Spec)

KeepingAssumption == Place!HomeAssumption /\ Sheet!SheetDraftsAssumption

keepingVars == <<part, Place!vars, Sheet!vars>>

\* Nothing of one account reaches another one or a guest: not its place, the
\* keys it leaves on the device or its analytics id (AppContext.tsx 201-221,
\* analytics.ts 13-16), but for what was on the device when its session ended
\* with no page open, which the next page takes for a guest's (205); and no text
\* is stored for anybody but who typed it, nor at another school
\* (SchoolDetailSheet.tsx 162-231); exact coordinates of older versions are never
\* kept, shown or written (AppContext.tsx 64-67).
AccountsStayApart ==
  /\ part = "device" => Place!HomeTypeOK /\ Place!AccountsStayApart
  /\ part = "saves" => Sheet!SheetDraftsTypeOK /\ Sheet!StoredWhereTyped

\* Nobody empties a text here, so no save erases a stored one: not when it was
\* pressed before the data came, nor after a failed load (SchoolDetailSheet.tsx
\* 244-259, 582-586).
TextsRemain ==
  \A u \in Users, s \in Schools, f \in Fields \ {"dept"} :
    server[u][s][f] # None => server'[u][s][f] # None
SavesNeverErase == [][part = "saves" => TextsRemain]_keepingVars

LEMMA SheetTyped ==
  Sheet!SheetDraftsAssumption /\ SheetInv => Sheet!SheetDraftsTypeOK /\ Sheet!StoredWhereTyped
<1> SUFFICES ASSUME Sheet!SheetDraftsAssumption, SheetInv
             PROVE  Sheet!SheetDraftsTypeOK /\ Sheet!StoredWhereTyped
  OBVIOUS
<1>1. ASSUME NEW u \in Users, NEW s \in Schools, NEW r, RecordOK(r, u, s)
      PROVE  r \in Sheet!Record
  BY <1>1, SheetFacts DEF RecordOK, Sheet!Record
<1>2. server \in [Users -> [Schools -> Sheet!Record]]
  <2>1. ASSUME NEW u \in Users PROVE server[u] \in [Schools -> Sheet!Record]
    BY <1>1 DEF SheetInv, ServerOK
  <2> QED BY <2>1 DEF SheetInv, ServerOK
<1>3. Sheet!StoredWhereTyped
  BY DEF SheetInv, ServerOK, RecordOK, TextOf, Sheet!StoredWhereTyped
<1>4. notes \in [Schools -> Sheet!Record]
  <2>1. notes = [s \in Schools |-> notes[s]] /\ owner \in Users \cup {None}
    BY DEF SheetInv, DataOK, NotesOK
  <2>2. CASE owner = None
    <3>1. notes = [s \in Schools |-> Sheet!Blank]
      BY <2>2 DEF SheetInv, DataOK, NotesOK, Sheet!Nothing
    <3>2. Sheet!Blank \in Sheet!Record
      BY DEF Sheet!Record, Sheet!Blank
    <3> QED BY <3>1, <3>2
  <2>3. CASE owner # None
    <3>1. \A s \in Schools : RecordOK(notes[s], owner, s)
      BY <2>3 DEF SheetInv, DataOK, NotesOK
    <3> QED BY <1>1, <2>1, <2>3, <3>1
  <2> QED BY <2>2, <2>3
<1>5. drafts \in Sheet!Record
  <2>1. /\ drafts = [f \in Sheet!AllFields |-> drafts[f]]
        /\ school \in Schools \cup {None} /\ session \in Users \cup {None}
    BY DEF SheetInv, DataOK, InputsOK, DraftsOK
  <2>2. CASE school = None
    BY <2>2 DEF SheetInv, InputsOK, DraftsOK, Sheet!Record, Sheet!Blank
  <2>3. CASE school # None
    <3>1. \A f \in Sheet!AllFields : drafts[f] \in TextOf(session, school) \cup {None, Invalid}
      BY <2>3 DEF SheetInv, InputsOK, DraftsOK
    <3>2. TextOf(session, school) \subseteq Sheet!Text
      BY <2>1, <2>3, SheetFacts
    <3> QED BY <2>1, <3>1, <3>2 DEF Sheet!Record
  <2> QED BY <2>2, <2>3
<1>6. jobs \subseteq Sheet!Job
  BY DEF SheetInv, JobOK
<1> QED BY <1>2, <1>3, <1>4, <1>5, <1>6 DEF SheetInv, DataOK, InputsOK, Sheet!SheetDraftsTypeOK

LEMMA OneComponent ==
  /\ part = "device" => part # "saves"
  /\ part = "saves" => part # "device"
  /\ part # "device" /\ [FALSE]_part => (part # "device")'
  /\ part # "saves" /\ [FALSE]_part => (part # "saves")'
OBVIOUS

\* Places, keys and ids stay with their account, texts with their user and
\* school: for any accounts, places, schools, saves, events, and sessions that end
\* before the page is opened again.
THEOREM AccountsAreApart == KeepingAssumption => (Keeping => []AccountsStayApart)
<1> SUFFICES ASSUME KeepingAssumption
             PROVE  Keeping => []AccountsStayApart
  OBVIOUS
<1>1. /\ Place!HomeTypeOK /\ Place!AccountsStayApart /\ part # "saves" => AccountsStayApart
      /\ SheetInv /\ part # "device" => AccountsStayApart
  BY SheetTyped DEF AccountsStayApart, KeepingAssumption
<1>2. /\ Place!Spec => [](Place!HomeTypeOK /\ Place!AccountsStayApart)
      /\ Sheet!Spec => []SheetInv
  BY PlacesStayWithAccounts, SheetInit, SheetStep, PTL DEF KeepingAssumption, Sheet!Spec
<1> QED BY <1>1, <1>2, OneComponent, PTL DEF Keeping

\* No save takes a stored text away: not one pressed before the data came nor
\* one after a failed load, and no rollback of a refused save (582-586).
THEOREM NoTextIsErased == KeepingAssumption => (Keeping => SavesNeverErase)
<1> SUFFICES ASSUME KeepingAssumption
             PROVE  Keeping => SavesNeverErase
  OBVIOUS
<1> DEFINE Held == \A u \in Users, s \in Schools, f \in Filled : server[u][s][f] # None
           Goal == [part = "saves" => TextsRemain]_keepingVars
<1>1. SheetInv => Held
  BY DEF SheetInv, ServerOK, RecordOK
<1>2. Held' => TextsRemain
  BY DEF Filled, TextsRemain
<1>3. /\ Held' => Goal
      /\ part # "saves" => Goal
  BY <1>2
<1>4. Sheet!Spec => []SheetInv
  BY SheetInit, SheetStep, PTL DEF KeepingAssumption, Sheet!Spec
<1> HIDE DEF Held
<1> QED BY <1>1, <1>3, <1>4, OneComponent, PTL DEF Keeping, SavesNeverErase
=============================================================================
