-------------------- MODULE MCDelivery --------------------
(* How a school build becomes what the origins serve: the generation of its
   JSON, the build from one snapshot, its completion, the gate before the publication, packages, their
   upload and observation.  Each part is one component alone; a behaviour
   stays in its part. *)
EXTENDS WorkersPublishProofs, Integers, Sequences, FiniteSets, TLC

CONSTANTS Absent, pa, pb, sk, d1, d2, oa, ob, g1, g2, good1, good2, bad1, b1, b2, l1, l2

VARIABLES source, pair, code, out, job, writes, edits, steady, during, theirs, repo, input,
          output, tree, receipt, at, pin, copied, listed, states, candidate, worker, fat, seen,
          completion, dist, env, builds, exists, touches

Off == "off"

School(id, key, open, from) == [id |-> id, key |-> key, active |-> open, before |-> from]
Unit(id, school) == [id |-> id, school |-> school]

\* Three schools, one of them the successor of a closed one, three units with
\* room for others between them; a school comes, moves or is closed.
SomeSchools == {School(1, 1, TRUE, {9}), School(2, 1, TRUE, {}), School(3, 2, TRUE, {}), School(9, 0, FALSE, {})}
SomeUnits == {Unit(1, 1), Unit(3, 9), Unit(5, 3)}
OtherRows == [schools |-> {School(4, 0, TRUE, {}), School(3, 0, TRUE, {}), School(2, 1, FALSE, {})},
              units |-> {Unit(2, 2), Unit(4, 2)}]

\* Snapshots: sound ones, one with an orphan, one with a school twice, one
\* without an active school.
OneContent == <<[schools |-> <<School(1, 1, TRUE, {2}), School(2, 2, FALSE, {})>>,
                 units |-> <<Unit(1, 1), Unit(2, 2)>>]>>
SomeContents == OneContent \o
    <<[schools |-> <<School(1, 1, TRUE, {})>>, units |-> <<Unit(1, 2)>>],
      [schools |-> <<School(1, 1, TRUE, {}), School(1, 1, TRUE, {})>>, units |-> <<>>],
      [schools |-> <<School(1, 1, FALSE, {})>>, units |-> <<>>]>>

\* The second package has the script of the first.
OneScript == [p \in {pa, pb} |-> pa]

File(path, suffix) == [path |-> path, suffix |-> suffix]
FewFiles == {File(<<"index">>, ".html"), File(<<"a">>, ".html"), File(<<"_headers">>, "")}
SomeFiles == {File(<<"index">>, ".html"), File(<<"404">>, ".html"), File(<<"a">>, ".html"),
              File(<<"a">>, ""), File(<<"_headers">>, "")}
OldPath == {<<"old">>}
MapPage == {<<"map">>}
AnyRoute == {<<"*">>}

ThreeRequests == [p1 |-> "r1", p2 |-> "r2", p3 |-> "r3"]
TwoCandidates == [p1 |-> "c1", p2 |-> "c2", p3 |-> "c1"]

Paging == INSTANCE SchoolGeneration WITH Kinds <- {"supabase"}, Leased <- FALSE,
                                         Schools <- SomeSchools, Units <- SomeUnits,
                                         Arrivals <- OtherRows, Contents <- OneContent,
                                         PageSize <- 2, UnitPage <- 2, MaxTries <- 2,
                                         MaxWrites <- 2, MaxEdits <- 0
Generating == INSTANCE SchoolGeneration WITH Kinds <- {"supabase", "sqlite", "synthetic"},
                                             Leased <- TRUE, Schools <- SomeSchools,
                                             Units <- SomeUnits, Arrivals <- OtherRows,
                                             Contents <- SomeContents, PageSize <- 2,
                                             UnitPage <- 2, MaxTries <- 1, MaxWrites <- 0,
                                             MaxEdits <- 2

Building == INSTANCE ObservedBuild WITH Builders <- {"a", "b"}, Files <- {"app", "site"},
                                        EditMax <- 3

Completing == INSTANCE ReleaseCompletion WITH Builders <- {"a"}, Files <- {"app"},
                                              EditMax <- 3, Finalizers <- {"f", "g"}

StubGate == INSTANCE PublicationGate WITH Requests <- {"r1", "r2", "r3"},
                                          Proposals <- {"p1", "p2"},
                                          Candidates <- {"c1", "c2"},
                                          RequestOf <- [p1 |-> "r1", p2 |-> "r2"],
                                          CandidateOf <- [p1 |-> "c1", p2 |-> "c2"],
                                          Bound <- FALSE, disk <- directory, active <- shown,
                                          previous <- before

Packaging == INSTANCE WorkersPackage WITH Assets <- {"f1", "f2"}, Generations <- {g1, g2},
                                          Envs <- {good1, good2, bad1},
                                          ValidEnvs <- {good1, good2}, Builders <- {b1, b2},
                                          HasWorker <- TRUE, MaxTouches <- 3, None <- Null

Patching == INSTANCE WorkersPublish WITH Packages <- {pa}, Script <- [p \in {pa} |-> pa],
                                         Declared <- {sk}, HasWorker <- TRUE, Dirs <- {d1, d2},
                                         Ops <- {oa, ob}, MaxVersions <- 4, MaxFaults <- 1,
                                         Foreign <- Foreign

Planning == INSTANCE WorkersObserve WITH Files <- SomeFiles, Rules <- {},
                                         Redirects <- {<<"old">>, <<"a">>},
                                         Shells <- {<<"map">>},
                                         Routes <- {<<"*">>, <<"a", "*">>, <<":x">>, <<"a">>},
                                         Lanes <- {}, Attempts <- 3, MaxFailures <- 1,
                                         next <- coming, None <- Nothing

restOfGeneration == <<part, repo, input, output, tree, receipt, at, pin, copied, listed,
                      states, candidate, worker, fat, seen, completion, directory, index,
                      consent, permit, cached, shown, before, requests, call, verified,
                      consented, dist, env, builds, exists, touches, versions, active, disk,
                      dirs, observed, ops, accepted, faults, package, expected, coming, lanes,
                      passed, failed, recorded, result, served>>
GenerationAlone ==
    /\ repo = Off /\ input = Off /\ output = Off /\ tree = Off /\ receipt = Off /\ at = Off /\
       pin = Off /\ copied = Off /\ listed = Off /\ states = Off /\ candidate = Off /\
       worker = Off /\ fat = Off /\ seen = Off /\ completion = Off /\ directory = Off /\
       index = Off /\ consent = Off /\ permit = Off /\ cached = Off /\ shown = Off /\
       before = Off /\ requests = Off /\ call = Off /\ verified = Off /\ consented = Off /\
       dist = Off /\ env = Off /\ builds = Off /\ exists = Off /\ touches = Off /\
       versions = Off /\ active = Off /\ disk = Off /\ dirs = [d \in Dirs |-> EmptyDir] /\
       observed = Off /\ ops = Off /\ accepted = {} /\ faults = Off /\ package = Off /\
       expected = Off /\ coming = Off /\ lanes = Off /\ passed = Off /\ failed = Off /\
       recorded = Off /\ result = Off /\ served = Off

restOfBuild == <<part, source, pair, code, out, job, writes, steady, during, theirs, candidate,
                 worker, fat, seen, completion, directory, index, consent, permit, cached,
                 shown, before, requests, call, verified, consented, dist, env, builds, exists,
                 touches, versions, active, disk, dirs, observed, ops, accepted, faults,
                 package, expected, coming, lanes, passed, failed, recorded, result, served>>
BuildAlone ==
    /\ source = Off /\ pair = Off /\ code = Off /\ out = Off /\ job = Off /\ writes = Off /\
       steady = Off /\ during = Off /\ theirs = Off /\ candidate = Off /\ worker = Off /\
       fat = Off /\ seen = Off /\ completion = Off /\ directory = Off /\ index = Off /\
       consent = Off /\ permit = Off /\ cached = Off /\ shown = Off /\ before = Off /\
       requests = Off /\ call = Off /\ verified = Off /\ consented = Off /\ dist = Off /\
       env = Off /\ builds = Off /\ exists = Off /\ touches = Off /\ versions = Off /\
       active = Off /\ disk = Off /\ dirs = [d \in Dirs |-> EmptyDir] /\ observed = Off /\
       ops = Off /\ accepted = {} /\ faults = Off /\ package = Off /\ expected = Off /\
       coming = Off /\ lanes = Off /\ passed = Off /\ failed = Off /\ recorded = Off /\
       result = Off /\ served = Off

restOfCompletion == <<part, source, pair, code, out, job, writes, steady, during, theirs,
                      directory, index, consent, permit, cached, shown, before, requests, call,
                      verified, consented, dist, env, builds, exists, touches, versions,
                      active, disk, dirs, observed, ops, accepted, faults, package, expected,
                      coming, lanes, passed, failed, recorded, result, served>>
CompletionAlone ==
    /\ source = Off /\ pair = Off /\ code = Off /\ out = Off /\ job = Off /\ writes = Off /\
       steady = Off /\ during = Off /\ theirs = Off /\ directory = Off /\ index = Off /\
       consent = Off /\ permit = Off /\ cached = Off /\ shown = Off /\ before = Off /\
       requests = Off /\ call = Off /\ verified = Off /\ consented = Off /\ dist = Off /\
       env = Off /\ builds = Off /\ exists = Off /\ touches = Off /\ versions = Off /\
       active = Off /\ disk = Off /\ dirs = [d \in Dirs |-> EmptyDir] /\ observed = Off /\
       ops = Off /\ accepted = {} /\ faults = Off /\ package = Off /\ expected = Off /\
       coming = Off /\ lanes = Off /\ passed = Off /\ failed = Off /\ recorded = Off /\
       result = Off /\ served = Off

restOfGate == <<part, source, pair, code, out, job, writes, edits, steady, during, theirs,
                repo, input, output, tree, receipt, at, pin, copied, listed, states, candidate,
                worker, fat, seen, completion, dist, env, builds, exists, touches, versions,
                active, disk, dirs, observed, ops, accepted, faults, package, expected, coming,
                lanes, passed, failed, recorded, result, served>>
GateAlone ==
    /\ source = Off /\ pair = Off /\ code = Off /\ out = Off /\ job = Off /\ writes = Off /\
       edits = Off /\ steady = Off /\ during = Off /\ theirs = Off /\ repo = Off /\
       input = Off /\ output = Off /\ tree = Off /\ receipt = Off /\ at = Off /\ pin = Off /\
       copied = Off /\ listed = Off /\ states = Off /\ candidate = Off /\ worker = Off /\
       fat = Off /\ seen = Off /\ completion = Off /\ dist = Off /\ env = Off /\
       builds = Off /\ exists = Off /\ touches = Off /\ versions = Off /\ active = Off /\
       disk = Off /\ dirs = [d \in Dirs |-> EmptyDir] /\ observed = Off /\ ops = Off /\
       accepted = {} /\ faults = Off /\ package = Off /\ expected = Off /\ coming = Off /\
       lanes = Off /\ passed = Off /\ failed = Off /\ recorded = Off /\ result = Off /\
       served = Off

restOfPackage == <<part, source, pair, code, job, writes, edits, steady, during, theirs, repo,
                   input, output, tree, at, pin, copied, listed, states, candidate, worker,
                   fat, seen, completion, directory, index, consent, permit, cached, shown,
                   before, requests, call, verified, consented, versions, active, disk, dirs,
                   observed, ops, accepted, faults, package, expected, coming, lanes, passed,
                   failed, recorded, result, served>>
PackageAlone ==
    /\ source = Off /\ pair = Off /\ code = Off /\ job = Off /\ writes = Off /\ edits = Off /\
       steady = Off /\ during = Off /\ theirs = Off /\ repo = Off /\ input = Off /\
       output = Off /\ tree = Off /\ at = Off /\ pin = Off /\ copied = Off /\ listed = Off /\
       states = Off /\ candidate = Off /\ worker = Off /\ fat = Off /\ seen = Off /\
       completion = Off /\ directory = Off /\ index = Off /\ consent = Off /\ permit = Off /\
       cached = Off /\ shown = Off /\ before = Off /\ requests = Off /\ call = Off /\
       verified = Off /\ consented = Off /\ versions = Off /\ active = Off /\ disk = Off /\
       dirs = [d \in Dirs |-> EmptyDir] /\ observed = Off /\ ops = Off /\ accepted = {} /\
       faults = Off /\ package = Off /\ expected = Off /\ coming = Off /\ lanes = Off /\
       passed = Off /\ failed = Off /\ recorded = Off /\ result = Off /\ served = Off

restOfPublish == <<part, source, pair, code, out, job, writes, edits, steady, during, theirs,
                   repo, input, output, tree, receipt, at, pin, copied, listed, states,
                   candidate, worker, fat, seen, completion, directory, index, consent, permit,
                   cached, shown, before, requests, call, verified, consented, dist, env,
                   builds, exists, touches, package, expected, coming, lanes, passed, failed,
                   recorded, result, served>>
PublishAlone ==
    /\ source = Off /\ pair = Off /\ code = Off /\ out = Off /\ job = Off /\ writes = Off /\
       edits = Off /\ steady = Off /\ during = Off /\ theirs = Off /\ repo = Off /\
       input = Off /\ output = Off /\ tree = Off /\ receipt = Off /\ at = Off /\ pin = Off /\
       copied = Off /\ listed = Off /\ states = Off /\ candidate = Off /\ worker = Off /\
       fat = Off /\ seen = Off /\ completion = Off /\ directory = Off /\ index = Off /\
       consent = Off /\ permit = Off /\ cached = Off /\ shown = Off /\ before = Off /\
       requests = Off /\ call = Off /\ verified = Off /\ consented = Off /\ dist = Off /\
       env = Off /\ builds = Off /\ exists = Off /\ touches = Off /\ package = Off /\
       expected = Off /\ coming = Off /\ lanes = Off /\ passed = Off /\ failed = Off /\
       recorded = Off /\ result = Off /\ served = Off

restOfObserve == <<part, source, pair, code, out, job, writes, edits, steady, during, theirs,
                   repo, input, output, tree, receipt, at, pin, copied, listed, states,
                   candidate, worker, fat, seen, completion, directory, index, consent, permit,
                   cached, shown, before, requests, call, verified, consented, dist, env,
                   builds, exists, touches, versions, active, disk, dirs, observed, ops,
                   accepted, faults>>
ObserveAlone ==
    /\ source = Off /\ pair = Off /\ code = Off /\ out = Off /\ job = Off /\ writes = Off /\
       edits = Off /\ steady = Off /\ during = Off /\ theirs = Off /\ repo = Off /\
       input = Off /\ output = Off /\ tree = Off /\ receipt = Off /\ at = Off /\ pin = Off /\
       copied = Off /\ listed = Off /\ states = Off /\ candidate = Off /\ worker = Off /\
       fat = Off /\ seen = Off /\ completion = Off /\ directory = Off /\ index = Off /\
       consent = Off /\ permit = Off /\ cached = Off /\ shown = Off /\ before = Off /\
       requests = Off /\ call = Off /\ verified = Off /\ consented = Off /\ dist = Off /\
       env = Off /\ builds = Off /\ exists = Off /\ touches = Off /\ versions = Off /\
       active = Off /\ disk = Off /\ dirs = [d \in Dirs |-> EmptyDir] /\ observed = Off /\
       ops = Off /\ accepted = {} /\ faults = Off

SuiteInit ==
    \/ part = "pages" /\ Paging!Init /\ GenerationAlone
    \/ part = "generation" /\ Generating!Init /\ GenerationAlone
    \/ part = "build" /\ Building!Init /\ BuildAlone
    \/ part = "completion" /\ Completing!FInit /\ CompletionAlone
    \/ part = "queue" /\ Gate!Init /\ GateAlone
    \/ part = "stub" /\ StubGate!Init /\ GateAlone
    \/ part = "package" /\ Packaging!Init /\ PackageAlone
    \/ part = "upload" /\ Init /\ PublishAlone
    \/ part = "secrets" /\ Patching!Init /\ PublishAlone
    \/ part = "plan" /\ Planning!Init /\ ObserveAlone
    \/ part = "lanes" /\ Obs!Init /\ ObserveAlone

SuiteNext ==
    \/ part = "pages" /\ Paging!Next /\ UNCHANGED restOfGeneration
    \/ part = "generation" /\ Generating!Next /\ UNCHANGED restOfGeneration
    \/ part = "build" /\ Building!Next /\ UNCHANGED restOfBuild
    \/ part = "completion" /\ Completing!FNext /\ UNCHANGED restOfCompletion
    \/ part = "queue" /\ Gate!Next /\ UNCHANGED restOfGate
    \/ part = "stub" /\ StubGate!Next /\ UNCHANGED restOfGate
    \/ part = "package" /\ Packaging!Next /\ UNCHANGED restOfPackage
    \/ part = "upload" /\ Next /\ UNCHANGED restOfPublish
    \/ part = "secrets" /\ Patching!Next /\ UNCHANGED restOfPublish
    \/ part = "plan" /\ Planning!Next /\ UNCHANGED restOfObserve
    \/ part = "lanes" /\ Obs!Next /\ UNCHANGED restOfObserve

suiteVars == <<part, source, pair, code, out, job, writes, edits, steady, during, theirs, repo,
               input, output, tree, receipt, at, pin, copied, listed, states, candidate,
               worker, fat, seen, completion, directory, index, consent, permit, cached, shown,
               before, requests, call, verified, consented, dist, env, builds, exists, touches,
               versions, active, disk, dirs, observed, ops, accepted, faults, package,
               expected, coming, lanes, passed, failed, recorded, result, served>>

SuiteSpec == SuiteInit /\ [][SuiteNext]_suiteVars

ASSUME Bounds ==
    /\ Paging!SchoolGenerationAssumption /\ Generating!SchoolGenerationAssumption
    /\ Building!BuildAssumption /\ Completing!CompletionAssumption
    /\ Gate!QueueRecords /\ StubGate!QueueRecords
    /\ Packaging!WorkersPackageAssumption
    /\ WorkersPublishAssumption /\ Patching!WorkersPublishAssumption
    /\ Planning!WorkersObserveAssumption /\ Obs!WorkersObserveAssumption

\* Operators and their directories are alike; no other part knows them.
AnyDirAnyOperator == Permutations({d1, d2}) \cup Permutations({oa, ob})

-----------------------------------------------------------------------------
(* Properties.                                                             *)

\* What is packaged belongs together, though it was read and written one file
\* at a time while others edited: the rows of a generation are what the database or the
\* snapshot held, its receipt names one pair, one generator and files that are
\* there, and no file of another is touched (gen-schools-json.mjs 150-211,
\* 747-866, school-candidate.mjs 108-181); a build receipt names sources the repository
\* held all at one moment, from which both bundles were compiled
\* (build-observed 285-290); a completion holds the snapshot and the Worker of
\* that build; a package with a receipt holds one candidate with a validated
\* env.json, and nothing is half written (workers-package.mjs 130-285); no two
\* files of it are at one URL, and the Worker is asked first for exactly what
\* _routes.json names (workers-observe.mjs 66-72, 116-121).  The version to go
\* back to is another one, also where no queue is asked (school-publish-gate.mjs).
OneStateThroughout ==
    /\ part = "pages" => Paging!GenerationTypeOK /\ Paging!RowsAreTheDatabase
    /\ part = "generation" => /\ Generating!ReceiptIsTrue /\ Generating!RowsAreTheDatabase
                              /\ Generating!OthersFilesSurvive
    /\ part = "build" => /\ Building!BuildTypeOK /\ Building!OneStateThroughout
    /\ part = "completion" => /\ Completing!CompletionTypeOK /\ Completing!CompletionIsOfTheBuild
    /\ part = "upload" => PublishTypeOK
    /\ part = "package" => /\ Packaging!PackageTypeOK /\ Packaging!PackageIsOneCandidate
                           /\ Packaging!EnvWasValidated /\ Packaging!NoHalfPackage
    /\ part = "plan" => Planning!OneRequestForOneUrl /\ Planning!RoutesKept
    /\ part = "stub" => StubGate!PreviousIsAnother
============================================================
