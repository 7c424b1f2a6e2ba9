-------------------------- MODULE ReleaseCompletion --------------------------
(***************************************************************************)
(* Joining a finished observed build, the producer's field gate and the    *)
(* compiled Functions worker into one release candidate                    *)
(* (finalize-school-release.mjs with lib/school-release-producer.mjs and   *)
(* lib/school-functions-package.mjs).  Each part is read at its own        *)
(* moment from the directory ObservedBuild made, which other programs go   *)
(* on editing; the parts fit together by the hashes their receipts carry.  *)
(***************************************************************************)
EXTENDS ObservedBuild

CONSTANT Finalizers

\* A directory is built once: a build refuses one that is there, and who clears
\* it does not build the next candidate under the same name.
CompletionAssumption ==
  BuildAssumption /\ "none" \notin Finalizers /\ \A a, b \in Builders : a = b

VARIABLES candidate,   \* functions-candidate/ exists
          worker,      \* what dist/_worker.js was compiled from
          fat, seen,   \* each finalizer's place and what it has read
          completion   \* school-release-completion.json

fvars == <<candidate, worker, fat, seen, completion>>

NoSources == [f \in Files |-> None]
Unread == [receipt |-> NoReceipt, generation |-> None, snapshot |-> None, functions |-> NoSources,
           dist |-> None, extra |-> FALSE, before |-> NoSources, compiled |-> NoSources]
NoCompletion == [by |-> "none"]

FInit ==
  /\ Init
  /\ candidate = FALSE /\ worker = NoSources
  /\ fat = [f \in Finalizers |-> "start"]
  /\ seen = [f \in Finalizers |-> Unread]
  /\ completion = NoCompletion

FGoto(f, s) == fat' = [fat EXCEPT ![f] = s]
Saw(f, field, value) == seen' = [seen EXCEPT ![f] = [@ EXCEPT ![field] = value]]

-----------------------------------------------------------------------------
(* finalizeObservedSchoolBuild reads the parts one after the other.        *)

ReadReceipt(f) ==
  /\ fat[f] = "start" /\ receipt.owner # "none"
  /\ Saw(f, "receipt", receipt) /\ FGoto(f, "generation")
  /\ UNCHANGED <<candidate, worker, completion>>

ReadGeneration(f) ==
  /\ fat[f] = "generation" /\ tree.generation # None
  /\ Saw(f, "generation", tree.generation) /\ FGoto(f, "snapshot")
  /\ UNCHANGED <<candidate, worker, completion>>

ReadSnapshot(f) ==
  /\ fat[f] = "snapshot" /\ tree.generation # None
  /\ Saw(f, "snapshot", tree.generation) /\ FGoto(f, "functions")
  /\ UNCHANGED <<candidate, worker, completion>>

ReadFunctions(f) ==
  /\ fat[f] = "functions" /\ tree.src # NoSources
  /\ Saw(f, "functions", tree.src) /\ FGoto(f, "produce")
  /\ UNCHANGED <<candidate, worker, completion>>

\* verifySchoolProjection: the files are the public projection of the snapshot.
Projects(f) == tree.dist = seen[f].snapshot

\* produceSchoolRelease: the whole of dist is read once, projected against the
\* snapshot and gated from a private copy.
Produce(f) ==
  /\ fat[f] = "produce" /\ tree.dist # None
  /\ Projects(f)
  /\ seen' = [seen EXCEPT ![f].dist = tree.dist, ![f].extra = (worker # NoSources)]
  /\ FGoto(f, "make")
  /\ UNCHANGED <<candidate, worker, completion>>

\* compileSchoolFunctionsCandidate: the directory of its output is made
\* exclusively, and a worker must not be there already.
MakeCandidate(f) ==
  /\ fat[f] = "make" /\ ~candidate /\ output # "none"
  /\ candidate' = TRUE /\ FGoto(f, "before")
  /\ UNCHANGED <<worker, seen, completion>>

Before(f) ==
  /\ fat[f] = "before"
  /\ tree.src = seen[f].receipt.sources /\ worker = NoSources
  /\ Saw(f, "before", tree.src) /\ FGoto(f, "compile")
  /\ UNCHANGED <<candidate, worker, completion>>

Compile(f) ==
  /\ fat[f] = "compile" /\ tree.src # NoSources
  /\ Saw(f, "compiled", tree.src) /\ FGoto(f, "after")
  /\ UNCHANGED <<candidate, worker, completion>>

SourcesHeld(f) == tree.src = seen[f].before

WriteWorker(f) ==
  /\ fat[f] = "after" /\ SourcesHeld(f)
  /\ worker = NoSources /\ worker' = seen[f].compiled
  /\ FGoto(f, "join")
  /\ UNCHANGED <<candidate, seen, completion>>

\* createSchoolReleaseCompletion: the build receipt names the generation, whose
\* receipt names the snapshot and the artifacts.
Joins(r) ==
  /\ r.generation = r.receipt.input /\ r.snapshot = r.generation
  /\ r.dist = r.generation /\ r.dist = r.receipt.dist

\* The compiled candidate is of the sources inventoried first.
JoinsFunctions(r) ==
  /\ r.before = r.functions /\ r.before = r.receipt.sources
  /\ worker = r.compiled

\* createSchoolFunctionsPackage takes the worker apart from the files of dist,
\* which must not hold one.
Packs(r) == ~r.extra

Join(f) ==
  /\ fat[f] = "join"
  /\ Joins(seen[f]) /\ JoinsFunctions(seen[f]) /\ Packs(seen[f])
  /\ completion = NoCompletion
  /\ completion' = [by |-> f, seen |-> seen[f]]
  /\ FGoto(f, "done")
  /\ UNCHANGED <<candidate, worker, seen>>

FStop(f) ==
  /\ fat[f] \notin {"done", "stopped"}
  /\ FGoto(f, "stopped")
  /\ UNCHANGED <<candidate, worker, seen, completion>>

Finalize(f) ==
  \/ ReadReceipt(f) \/ ReadGeneration(f) \/ ReadSnapshot(f) \/ ReadFunctions(f)
  \/ Produce(f) \/ MakeCandidate(f) \/ Before(f) \/ Compile(f) \/ WriteWorker(f)
  \/ Join(f) \/ FStop(f)

\* Another program edits the worker that was written.
EditWorker ==
  /\ worker # NoSources /\ edits < EditMax /\ edits' = edits + 1
  /\ worker' = [f \in Files |-> 9]
  /\ UNCHANGED <<repo, input, output, tree, receipt, at, pin, copied, listed, states>>
  /\ UNCHANGED <<candidate, fat, seen, completion>>

FClear == Clear /\ candidate' = FALSE /\ worker' = NoSources
                /\ completion' = NoCompletion /\ UNCHANGED <<fat, seen>>

FNext ==
  \/ \E b \in Builders :
       /\ \/ ReadInputs(b) \/ Make(b) \/ CopyFile(b) \/ Generate(b) \/ Accept(b)
          \/ Client(b) \/ ClientArtifacts(b) \/ Pages(b) \/ PageArtifacts(b)
          \/ Inventory(b) \/ Recheck(b) \/ Complete(b) \/ Stop(b)
       /\ UNCHANGED fvars
  \/ Edit /\ UNCHANGED fvars
  \/ FClear \/ EditWorker
  \/ \E f \in Finalizers : Finalize(f) /\ UNCHANGED vars

FSpec == FInit /\ [][FNext]_<<vars, fvars>>

-----------------------------------------------------------------------------
CompletionTypeOK ==
  /\ BuildTypeOK
  /\ candidate \in BOOLEAN
  /\ fat \in [Finalizers -> {"start", "generation", "snapshot", "functions", "produce", "make",
                             "before", "compile", "after", "join", "done", "stopped"}]
  /\ completion.by \in Finalizers \union {"none"}

\* What a completion packages is one generation: the files of dist are those of
\* the snapshot the build pinned, though the build itself never compared its
\* inventory with the generation and the parts were read at six moments.
CompletionIsOneSnapshot ==
  completion.by # "none" => completion.seen.dist = completion.seen.receipt.input

\* The worker of a completion was compiled from the sources of that build, which
\* the repository held all together at one moment.
WorkerIsOfTheBuild ==
  completion.by # "none" =>
    /\ completion.seen.compiled = completion.seen.receipt.sources
    /\ completion.seen.receipt.sources \in states

\* A completion joins what belongs together: the two above.
CompletionIsOfTheBuild == CompletionIsOneSnapshot /\ WorkerIsOfTheBuild
=============================================================================
