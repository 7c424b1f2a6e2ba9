---- MODULE SchoolGeneration ----
(***************************************************************************)
(* One run of the generator of school JSON with an output of its own       *)
(* (gen-schools-json.mjs, lib/school-source.mjs, lib/school-candidate.mjs):*)
(* from the database in pages, from a snapshot pair of the SQLite source,  *)
(* or from a synthetic pair by way of a private stage.  Others write to    *)
(* the database, the pair, the generator's own files and the output.  A    *)
(* check of a path and the write behind it are one step; the process may   *)
(* be killed after any step.                                               *)
(***************************************************************************)
EXTENDS Integers, Sequences, SequencesExt, FiniteSets, FiniteSetsExt
CONSTANTS Null,
          Kinds,      \* of run: "supabase", "sqlite", "synthetic"
          Leased,     \* the caller holds the lease it names
          Schools,    \* of the database at first: [id, key, active, before]
          Units,      \* admission units at first: [id, school]
          Contents,   \* of the snapshot, by version: [schools, units], sequences
          Arrivals,   \* [schools, units] that others may add
          PageSize, UnitPage,
          MaxTries,   \* attempts of runWithRetry
          MaxWrites,  \* bound: writes to the database
          MaxEdits    \* bound: other interference

\* The files of an output; a stray one is none of the generator's.
Public == {"full", "detail", "manifest"}
Names == Public \cup {"rows", "payload", "receipt", "stray"}

SchoolGenerationAssumption ==
  /\ Kinds \subseteq {"supabase", "sqlite", "synthetic"} /\ Leased \in BOOLEAN
  /\ PageSize \in Nat \ {0} /\ UnitPage \in Nat \ {0} /\ MaxTries \in Nat \ {0}
  /\ \A s \in Schools \cup Arrivals.schools : s.id \in Nat /\ s.key \in Nat /\ s.active \in BOOLEAN
  /\ Contents # <<>> /\ \A c \in ToSet(Contents) : \A s \in ToSet(c.schools) : s.active \in BOOLEAN
  /\ \A u \in Units \cup Arrivals.units : u.id \in Nat \ {0}
  /\ DOMAIN Contents \subseteq Nat \ {0}
  /\ Null \notin [mine: BOOLEAN, files: [Names -> {"absent", "made", "edited", "other"}]]

VARIABLES source,  \* the database
          pair,    \* the two files of the snapshot, by their versions
          code,    \* version of the generator's files on disk
          out,     \* the output directory
          job,     \* the process
          writes, edits,
          steady,  \* history: units that were there all the time
          during,  \* history: pair and code when the files were complete
          theirs   \* history: files others made in the output
world == <<source, pair, code>>
history == <<steady, during, theirs>>
vars == <<source, pair, code, out, job, writes, edits, steady, during, theirs>>

NoFiles == [n \in Names |-> "absent"]
Refused == job' = [job EXCEPT !.at = "refused"]
Goto(step) == job' = [job EXCEPT !.at = step]
Mine == out # Null /\ out.mine

(* The database in pages. *)
SchoolOrder == SetToSortSeq({s \in source.schools : s.active}, LAMBDA a, b : a.key < b.key \/ (a.key = b.key /\ a.id < b.id))
\* schools, those that are active: by offset.
SchoolPage(from) == SubSeq(SchoolOrder, from + 1, Min({from + PageSize, Len(SchoolOrder)}))
\* admission_recruitment_units: by key, from where the last page ended.
UnitPageAfter(cursor) ==
  LET behind == SetToSortSeq({u \in source.units : u.id > cursor}, LAMBDA a, b : a.id < b.id)
  IN SubSeq(behind, 1, Min({UnitPage, Len(behind)}))

ReadSchools ==
  /\ job.at = "schools"
  /\ LET page == SchoolPage(job.from)
     IN job' = [job EXCEPT !.rows = @ \o page, !.tries = 1, !.from = @ + PageSize,
                           !.at = IF Len(page) < PageSize THEN "units" ELSE @]
  /\ UNCHANGED <<world, out, writes, edits, history>>
ReadUnits ==
  /\ job.at = "units"
  /\ LET page == UnitPageAfter(job.cursor)
     IN job' = [job EXCEPT !.units = @ \o page, !.tries = 1,
                           !.cursor = IF page = <<>> THEN @ ELSE page[Len(page)].id,
                           !.at = IF Len(page) < UnitPage THEN "checked" ELSE @]
  /\ UNCHANGED <<world, out, writes, edits, history>>
\* A page that timed out is asked for again, not for ever.
RetryPage ==
  /\ job.at \in {"schools", "units"} /\ job.tries < MaxTries
  /\ job' = [job EXCEPT !.tries = @ + 1]
  /\ UNCHANGED <<world, out, writes, edits, history>>

(* The snapshot pair. *)
\* Both files are read at once.
ReadPair(f) ==
  /\ job.at = "read" /\ job.read[f] = 0
  /\ job' = [job EXCEPT !.read[f] = pair[f]]
  /\ UNCHANGED <<world, out, writes, edits, history>>
\* The manifest names the hash of the snapshot; a pair that calls itself
\* synthetic is not parsed as observed, and the other way round.
Parses == /\ job.read.snapshot = job.read.manifest
          /\ pair.synthetic = (job.kind = "synthetic")
ParsePair ==
  /\ job.at = "read" /\ job.read.snapshot # 0 /\ job.read.manifest # 0
  /\ IF Parses THEN Goto("checked") ELSE Refused
  /\ UNCHANGED <<world, out, writes, edits, history>>

(* The rows. *)
\* snapshotToGeneratorRows: no school and no unit twice, no unit and no
\* predecessor that is not there, no school its own predecessor.
Coherent(c) ==
  LET ids == {s.id : s \in ToSet(c.schools)}
  IN /\ Cardinality(ids) = Len(c.schools)
     /\ Cardinality({u.id : u \in ToSet(c.units)}) = Len(c.units)
     /\ \A u \in ToSet(c.units) : u.school \in ids
     /\ \A s \in ToSet(c.schools) : s.before \subseteq ids \ {s.id}
Active(s) == s.active
Read == IF job.kind = "supabase" THEN [schools |-> job.rows, units |-> job.units]
        ELSE Contents[job.read.snapshot]
\* An active school with its units, and with those of the schools it came from,
\* active or not.
Rows ==
  LET units(id) == SelectSeq(Read.units, LAMBDA u : u.school = id)
      schools == SelectSeq(Read.schools, Active)
  IN [i \in DOMAIN schools |->
        [id |-> schools[i].id, units |-> units(schools[i].id),
         before |-> [p \in schools[i].before |-> units(p)]]]

(* The run. *)
\* checkedOutput: nothing is there yet.
Fresh == out = Null
\* Destination and code come before any source; a synthetic run makes its
\* output later.
Start ==
  /\ job.at = "start"
  /\ IF ~Fresh \/ (job.kind # "synthetic" /\ code # job.code) THEN Refused
     ELSE Goto(IF job.kind = "synthetic" THEN "read" ELSE "mkdir")
  /\ UNCHANGED <<world, out, writes, edits, history>>
\* mkdir of an existing directory fails.
MakeOutput ==
  /\ job.at = "mkdir"
  /\ IF ~Fresh THEN Refused /\ UNCHANGED out
     ELSE /\ out' = [mine |-> TRUE, files |-> NoFiles]
          /\ job' = [job EXCEPT !.at = CASE job.kind = "supabase" -> "schools"
                                         [] job.kind = "sqlite" -> "read"
                                         [] job.kind = "synthetic" -> "write"]
  /\ UNCHANGED <<world, writes, edits, history>>
\* No school, or one that came twice; only a synthetic run may have none.
RowsAreSound ==
  /\ job.kind # "supabase" => Coherent(Read)
  /\ job.kind # "synthetic" =>
       Rows # <<>> /\ \A i, j \in DOMAIN Rows : Rows[i].id = Rows[j].id => i = j
\* writeSchoolFiles: the whole, its parts, and the manifest last.
PublicFiles == <<"full", "detail", "manifest">>
\* A synthetic run takes the identity of the generator now, the others have
\* that of the code they loaded.
CheckRows ==
  /\ job.at = "checked"
  /\ IF ~RowsAreSound THEN Refused
     ELSE job' = IF job.kind = "synthetic" THEN [job EXCEPT !.at = "build", !.code = code]
                 ELSE [job EXCEPT !.at = "write", !.todo = <<"rows">> \o PublicFiles]
  /\ UNCHANGED <<world, out, writes, edits, history>>

\* Create-only, in a directory that is still the own one.
Writable(name) == Mine /\ out.files[name] = "absent"
Complete == during' = [pair |-> pair, code |-> code]
Write ==
  /\ job.at \in {"write", "finish"} /\ job.todo # <<>>
  /\ LET name == Head(job.todo)
     IN IF ~Writable(name)
        THEN /\ Goto(IF job.kind = "synthetic" THEN "cleanup" ELSE "refused") /\ UNCHANGED <<out, during>>
        ELSE /\ out' = [out EXCEPT !.files[name] = "made"]
             /\ job' = [job EXCEPT !.todo = Tail(@), !.owned = Append(@, name)]
             /\ IF name = "manifest" /\ job.kind # "synthetic" THEN Complete ELSE UNCHANGED during
  /\ UNCHANGED <<world, writes, edits, steady, theirs>>

\* Every file that is there is read and becomes an artifact; what the rows
\* determine is compared with them (verifySchoolProjection).
TakeInventory ==
  /\ job.at = "write" /\ job.todo = <<>> /\ job.kind # "synthetic"
  /\ IF ~Mine \/ out.files["full"] # "made" \/ out.files["manifest"] # "made" THEN Refused
     ELSE job' = [job EXCEPT !.at = "recheck-code", !.inventory = out.files]
  /\ UNCHANGED <<world, out, writes, edits, history>>
RecheckCode ==
  /\ job.at = "recheck-code"
  /\ IF code # job.code THEN Refused ELSE Goto("recheck-files")
  /\ UNCHANGED <<world, out, writes, edits, history>>
RecheckFiles ==
  /\ job.at = "recheck-files"
  /\ IF ~Mine \/ out.files["rows"] # "made"
        \/ \E n \in Public \cup {"stray"} : job.inventory[n] # "absent" /\ out.files[n] # job.inventory[n]
     THEN Refused ELSE Goto("recheck-pair")
  /\ UNCHANGED <<world, out, writes, edits, history>>
PairUnchanged == pair.snapshot = job.read.snapshot /\ pair.manifest = job.read.manifest
RecheckPair ==
  /\ job.at = "recheck-pair"
  /\ IF job.kind = "sqlite" /\ ~PairUnchanged THEN Refused
     ELSE job' = [job EXCEPT !.at = "finish", !.todo = <<"payload", "receipt">>]
  /\ UNCHANGED <<world, out, writes, edits, history>>
Finish ==
  /\ job.at = "finish" /\ job.todo = <<>> /\ Goto("done")
  /\ UNCHANGED <<world, out, writes, edits, history>>

(* A synthetic run. *)
\* Everything is written into the private stage, receipt and all.
Build ==
  /\ job.at = "build" /\ Goto("staged") /\ Complete
  /\ UNCHANGED <<world, out, writes, edits, steady, theirs>>
RecheckInputs ==
  /\ job.at = "staged"
  /\ IF ~PairUnchanged \/ code # job.code THEN Refused
     ELSE job' = [job EXCEPT !.at = "mkdir", !.todo = Append(PublicFiles, "receipt")]
  /\ UNCHANGED <<world, out, writes, edits, history>>
\* verifySchoolCandidate: exactly these files, each of them as in the receipt.
Verify ==
  /\ job.at = "write" /\ job.todo = <<>> /\ job.kind = "synthetic"
  /\ IF Mine /\ \A n \in Names : out.files[n] = IF n \in ToSet(job.owned) THEN "made" ELSE "absent"
     THEN Goto("done") ELSE Goto("cleanup")
  /\ UNCHANGED <<world, out, writes, edits, history>>
\* The file that was created, changed or not.
Owned(name) == out.files[name] \in {"made", "edited"}
\* Once the output is known to be the own one, its files go in reverse order,
\* the receipt first, and then the directory that has the name, if it is empty.
CleanUp ==
  /\ job.at = "cleanup" /\ Goto(IF Mine THEN "remove" ELSE "refused")
  /\ UNCHANGED <<world, out, writes, edits, history>>
RemoveOwn ==
  /\ job.at = "remove" /\ job.owned # <<>>
  /\ LET name == job.owned[Len(job.owned)]
     IN out' = IF Mine /\ Owned(name) THEN [out EXCEPT !.files[name] = "absent"] ELSE out
  /\ job' = [job EXCEPT !.owned = Front(@)]
  /\ UNCHANGED <<world, writes, edits, history>>
RemoveOutput ==
  /\ job.at = "remove" /\ job.owned = <<>> /\ Refused
  /\ out' = IF out # Null /\ out.files = NoFiles THEN Null ELSE out
  /\ UNCHANGED <<world, writes, edits, history>>

\* A timeout, a limit, an error of the disk, rows that make no sense.
Fail ==
  /\ job.at \notin {"done", "refused", "cleanup", "remove"}
  /\ Goto(IF job.kind = "synthetic" /\ job.at = "write" THEN "cleanup" ELSE "refused")
  /\ UNCHANGED <<world, out, writes, edits, history>>

(* Others. *)
\* Nobody writes to the database under the lease.
WriteDatabase ==
  /\ job.at \in {"schools", "units"} /\ ~Leased /\ writes < MaxWrites /\ writes' = writes + 1
  /\ \/ \E s \in source.schools : source' = [source EXCEPT !.schools = @ \ {s}]
     \/ \E s \in Arrivals.schools : source' = [source EXCEPT !.schools = {t \in @ : t.id # s.id} \cup {s}]
     \/ \E u \in source.units : source' = [source EXCEPT !.units = @ \ {u}]
     \/ \E u \in Arrivals.units : source' = [source EXCEPT !.units = {t \in @ : t.id # u.id} \cup {u}]
  /\ steady' = steady \cap source'.units
  /\ UNCHANGED <<pair, code, out, job, edits, during, theirs>>
Edit == edits < MaxEdits /\ edits' = edits + 1 /\ UNCHANGED <<source, job, writes, steady, during>>
EditPair == /\ Edit
            /\ \E f \in {"snapshot", "manifest"} :
                 pair[f] + 1 \in DOMAIN Contents /\ pair' = [pair EXCEPT ![f] = @ + 1]
            /\ UNCHANGED <<code, out, theirs>>
EditCode == Edit /\ code' = code + 1 /\ UNCHANGED <<pair, out, theirs>>
\* A file is changed in place, replaced, or made where none was.
Meddle(name) ==
  /\ Edit /\ out # Null
  /\ \/ out.files[name] = "made" /\ out' = [out EXCEPT !.files[name] = "edited"] /\ UNCHANGED theirs
     \/ out' = [out EXCEPT !.files[name] = "other"] /\ theirs' = theirs \cup {name}
  /\ UNCHANGED <<pair, code>>
\* The directory is made by somebody else, or put in place of the own one.
TakeOutput == /\ Edit /\ (out # Null => out.mine)
              /\ out' = [mine |-> FALSE, files |-> NoFiles] /\ theirs' = {}
              /\ UNCHANGED <<pair, code>>

Init ==
  /\ source = [schools |-> Schools, units |-> Units]
  /\ \E synthetic \in BOOLEAN, v \in DOMAIN Contents :
       pair = [snapshot |-> v, manifest |-> v, synthetic |-> synthetic]
  /\ code = 1 /\ out = Null /\ writes = 0 /\ edits = 0
  /\ steady = Units /\ during = Null /\ theirs = {}
  /\ \E kind \in Kinds :
       job = [kind |-> kind, at |-> "start", code |-> code, read |-> [snapshot |-> 0, manifest |-> 0],
              rows |-> <<>>, units |-> <<>>, from |-> 0, cursor |-> 0, tries |-> 1,
              todo |-> <<>>, owned |-> <<>>, inventory |-> NoFiles]

Next == \/ Start \/ MakeOutput \/ ReadSchools \/ ReadUnits \/ RetryPage
        \/ ReadPair("snapshot") \/ ReadPair("manifest") \/ ParsePair \/ CheckRows
        \/ Write \/ TakeInventory \/ RecheckCode \/ RecheckFiles \/ RecheckPair \/ Finish
        \/ Build \/ RecheckInputs \/ Verify \/ CleanUp \/ RemoveOwn \/ RemoveOutput \/ Fail
        \/ WriteDatabase \/ EditPair \/ EditCode \/ TakeOutput
        \/ \E name \in Names : Meddle(name)
Spec == Init /\ [][Next]_vars
----
\* The variables keep their shape.
GenerationTypeOK ==
  /\ out # Null => out.mine \in BOOLEAN /\ DOMAIN out.files = Names
  /\ job.tries \in 1..MaxTries /\ job.kind \in Kinds
  /\ ToSet(job.todo) \cup ToSet(job.owned) \subseteq Names

Receipt == Mine /\ out.files["receipt"] \in {"made", "edited"}

\* Where there is a receipt, every file it speaks of is there, and the pair it
\* names is one pair, of the kind the run was asked for, and was the one on
\* disk when the last file was complete, with the generator it names, although
\* both may be edited at any time (gen-schools-json.mjs 829-838, 896-900).
ReceiptIsTrue ==
  Receipt =>
    /\ \A n \in Public \cup (IF job.kind = "synthetic" THEN {} ELSE {"rows", "payload"}) : out.files[n] # "absent"
    /\ during.code = job.code
    /\ job.kind # "supabase" =>
         /\ job.read.snapshot = job.read.manifest
         /\ during.pair.snapshot = job.read.snapshot /\ during.pair.manifest = job.read.manifest
         /\ pair.synthetic = (job.kind = "synthetic")

\* Whatever is written to the database meanwhile, no unit that was there all
\* the time is missed and none is read twice; a school that came twice is never
\* written; and under the lease, or from a snapshot, the rows are what was
\* there: every active school once, with exactly its units, and no unit is
\* left over but those of schools that are gone (gen-schools-json.mjs 150-211,
\* 800, school-source.mjs 184-253).
RowsAreTheDatabase ==
  LET ids == [i \in DOMAIN Rows |-> Rows[i].id]
      Are(schools, units) ==
        /\ ToSet(ids) = {s.id : s \in {s \in schools : s.active}}
        /\ Len(ids) = Cardinality(ToSet(ids))
        /\ \A r \in ToSet(Rows) : ToSet(r.units) = {u \in units : u.school = r.id}
  IN job.at \notin {"start", "mkdir", "schools", "units", "read", "refused"} =>
       /\ job.kind = "supabase" =>
            /\ steady \subseteq ToSet(job.units)
            /\ \A i, j \in DOMAIN job.units : job.units[i].id = job.units[j].id => i = j
            /\ job.at # "checked" => IsInjective(ids)
            /\ Leased => Are(Schools, Units)
       /\ job.kind # "supabase" /\ job.at # "checked" =>
            LET c == Contents[job.read.snapshot]
            IN /\ Are(ToSet(c.schools), ToSet(c.units))
               /\ \A u \in ToSet(c.units) :
                    \/ \E r \in ToSet(Rows) : u \in ToSet(r.units)
                    \/ \E s \in ToSet(c.schools) : s.id = u.school /\ ~s.active

\* A file that somebody else put into the output is neither overwritten nor
\* removed, also when a run cleans up behind itself (school-candidate.mjs
\* 112-180).
OthersFilesSurvive == \A n \in theirs : out # Null /\ out.files[n] = "other"
====
