# Verification of manabi-map

manabi-map is a map of high schools, with a companion application for kanji.
This directory holds TLA+ modules of the parts of it where orders of events
matter, the TLC configurations that check them on small instances, and proofs
that TLAPS checks for every size: about the pipeline of school corrections,
family sharing and maintenance, what is kept for a user and his learners, public data and
the move of the site, the publication of Workers, the generated site, its build and the
release of two origins.

Paths below are those of the repository.  "SQL" is
`web/supabase/migrations/202609280102_school_change_queue.sql`, and "apply",
"controller", "runner" and "publish" are the `school_live_*.py` of
`scripts/local-data`.

1. [The system](#1-the-system)
2. [The modules](#2-the-modules)
3. [What the runs check](#3-what-the-runs-check)
4. [What is proved](#4-what-is-proved)
5. [Where the code and its words differ](#5-where-the-code-and-its-words-differ)
6. [What is not modelled, and the plan](#6-what-is-not-modelled-and-the-plan)

## 1. The system

Official school data lives in a SQLite file on one owner's machine; the public
site is generated from it and deployed to Cloudflare.  An administrator asks for
a correction in the browser; the request is stored in Postgres, and a command
the owner runs applies it to SQLite, generates a candidate, deploys it, fetches
every public byte and only then confirms it.  Visitors read the generated site;
who signs in keeps favourites, notes and a place in Postgres, and may share them
with a family.  The kanji application keeps its learners in the browser.

### Components

| Component | State it keeps | Operations | Here |
|---|---|---|---|
| School change queue (SQL) | requests, their events, the audit log | request, claim, renew, ack, preflight, reject, fail | `SchoolChangeQueue` |
| SQLite apply worker (apply) | the school tables, receipts | adopt, cancel, reconcile | `SchoolLiveSource` |
| Controller (controller) | an append-only journal per request | `run_request`, `reject_request` | `SchoolLivePipeline` |
| Runner (runner) | `state.json`, a lock file | `run-one`, `reject`, `batch`, `list` | `SchoolLivePipeline`; the scan of `batch` is "any request" |
| Publisher (publish) | a candidate directory with its evidence | generate, deploy, recover, observe | `SchoolLivePipeline`, assembly abstracted |
| Admin client (`schoolAdminIntake.ts`) | the generation shown | builds requests | the generations it can name |
| User data (`useUserData.ts`) | favourites, notes, own values | optimistic writes, loads | `UserData` |
| Place and session (`AppContext.tsx`, `AuthContext.tsx`, `mapView.ts`) | the place, three keys on the device | load, migrate, save | `HomeLocation` |
| School sheet (`SchoolDetailSheet.tsx`) | drafts and their dirty marks | hydrate, type, save | `SheetDrafts`: the user's texts |
| Maintenance flag (`maintenance.ts`, `useMaintenanceMode.tsx`, admin API, command line) | a row of `app_config`, a copy per tab | watch, switch | `MaintenanceFlag` |
| Family sharing (`useFamilyShare.ts`, four migrations) | groups, memberships, invitations | create, invite, accept, leave, remove, share | `FamilyGroups`, `FamilyShare` |
| Page of an invitation (`FamilyJoinPage.tsx`) | the token in link, memory and storage | preview, confirm, accept | `FamilyJoin` |
| Public data (`useSchools.ts`, `useSchoolDetail.ts`) | lists by generation, one school | load, subscribe, fall back | `PublicSchools` |
| Lists of schools (`PrefecturePage.tsx`, `CityPage.tsx`, `prefIndex.ts`) | one page's list, its chips and text | navigate, load, fail, filter | `ListPages` |
| Place search (`HomePage.tsx`, `geo.ts`, `searchIndex.ts`) | the text, the timer, searches that are out | type, clear, search, locate | `PlaceSearch`: the places and the municipalities |
| Move of the address (`_middleware.ts`, `_school-migration.ts`, `siteMove*.ts`) | the phase, cookies, dismissed notices | redirect, rescue a login, announce | `SiteMove` |
| CSP reports (`csp-report.ts`) | none | read within a limit, sanitize | `CspReport` |
| Kanji application (`kanji/`) | IndexedDB or memory: learners, the current one | open, add, edit, remove, choose a language | `KanjiLearners`, `KanjiLanguage`, `KanjiMarkup` |
| School build (`build-school-observed.mjs`, `finalize-school-release.mjs`) | a build directory and its receipts | pin, copy, generate, recheck, complete | `ObservedBuild`, `ReleaseCompletion` |
| Publication gate (`school-publish-gate.mjs`, `school_review_queue.py`) | permits, active and previous version | publish, restore, confirm | `PublicationGate` |
| Two-origin release (`school-release.mjs`, its adapter) | the two origins | deploy, verify, roll back | `SchoolRelease` |
| Workers package (`workers-package.mjs`, `-observe`, `-publish`) | packages, versions, secrets, evidence | package, observe, upload, deploy | `WorkersPackage`, `WorkersObserve`, `WorkersPublish` |
| School data and pages, static gate (`gen-schools-json.mjs`, `gen-seo-pages.mjs`, `verify-static-output.mjs`) | files | read, generate, recheck, render, verify | `SchoolGeneration` (the run), `SchoolSiteData`, `SchoolSitePages`, `SchoolSite` (the files) |
| Owner transport, source export | none | bounded psql calls, a read-only export | not modelled |
| Synthetic store, review queue, preparation tools | a rehearsal database | the same life cycle on synthetic data | not modelled |
| Backups and restore drills | generations on disk and in R2 | archive, verify, prune | not modelled |
| Rate limits, PIN lockout, consent RPC | counters | single statements | not modelled |
| Portal and verification workers; admission generator, snapshots, tooling | none that is shared | packaging, offline generation | not modelled |

`components` of `PROJECT.json` names the sources of each part, its status, and
what exactly is left out.

### How they interact

*The pipeline.*  The queue is the only thing the browser and the owner share.
The owner's side never listens: a command is started by hand, takes the lock
file, and works through four stores that share no transaction:

1. the *queue*, by RPCs, each one a Postgres transaction.  A claim gives a lease
   (token and expiry); every later RPC names the token or the revision;
2. the *source*, one SQLite transaction per worker operation: the change and its
   receipt are committed together;
3. the owner's *own files*: the job journal, written record by record, and
   `state.json`, replaced at the end of a request;
4. the *site*: an upload that is started by a subprocess and whose effect becomes
   visible some time later, or never.

The process can stop between any two of these effects.  Recovery is running the
command again: it reads the row, verifies the chain of receipts from the anchor
to the present content, and goes on where the journal says it was.  Meanwhile
the row changes under it: a publication freezes its cohort, consent to a
submission is withdrawn, the lease lapses.

*The web client.*  Every hook sends requests whose answers come late, out of
order, or not at all, while React renders some time after a state was set, the
session changes, and other tabs and devices write the same rows.

*Delivery.*  Scripts read many files one by one while other programs write
them, call services whose answers say less than what happened, and leave
receipts the next script believes.

### What must be right

* A correction is adopted at most once, is never both adopted and cancelled, and
  becomes public only with its audit log row and with the cohort it was frozen
  in.  A publication contains what the admin saw plus its cohort, nothing else;
  once it may have been uploaded it is never given up, and it is confirmed only
  on what production really showed.
* Restarting resumes the same work, and what `state.json` says is true.
* Nothing of one account reaches another.  What is shown, typed and stored agree
  once all is answered; the last input counts; a save erases nothing.
* A membership belongs to one person; a switch changes what it says.
* What is packaged was the state of the sources at one moment; what passed the
  acceptance is what is served; what a release reports is so.
* The gate accepts a right site and refuses a misleading one.
* A visitor is shown the school that was opened and the list that was asked for,
  and the move of the address loses nobody.
* What was asked for is answered, what was begun ends.

The places where this is hard to get right are listed line by line under
`hazards` in `PROJECT.json`, with the properties that cover each.

## 2. The modules

```
SchoolChangeLifecycle          the promise: phases of corrections, frozen cohorts
      ^            ^
      |            |           refinement mappings
SchoolChangeQueue  |       SchoolLiveSource
   ^      ^        |          ^
   |      |        |          |   INSTANCE ... WITH
   |      +--- SchoolLivePipeline
   |                   ^
SchoolChangeQueueProofs                         the queue: its invariant, its steps,
                       |                        the life cycle it implements
             SchoolLivePipelineProofs        the inductive invariant, its theorems, and that
                                             the pipeline implements the life cycle

MCAccountData   UserData, HomeLocation, SheetDrafts, KanjiLearners, KanjiLanguage, KanjiMarkup
MCFamily        FamilyGroups <- FamilyShare, FamilyJoin, MaintenanceFlag
MCPublicSite    PublicSchools, ListPages, PlaceSearch, SiteMove, CspReport
MCDelivery      SchoolGeneration, ObservedBuild <- ReleaseCompletion, PublicationGate, WorkersPackage,
                WorkersPublish, WorkersObserve
MCSchoolSite    SchoolSiteData <- SchoolSitePages <- SchoolSite
MCProgress      SchoolRelease, and the fair specifications of ten other components

UserDataProofs, FamilyShareProofs, PublicSchoolsProofs, WorkersPublishProofs, SchoolSiteProofs and
SchoolReleaseProofs extend the module they are named after, and prove of these beside it
(INSTANCE): HomeLocation, SheetDrafts, KanjiLearners; FamilyJoin, MaintenanceFlag; ListPages, SiteMove,
PlaceSearch; PublicationGate, WorkersObserve; none; ObservedBuild, ReleaseCompletion,
WorkersPackage, SchoolGeneration.
```

### SchoolChangeQueue

`row` is the table by request id, with one field for each column the RPCs test;
`consent` says for each correction whether the fingerprint of the submissions it
was derived from still matches.  Each RPC is one operator.  Its guard is the
conjunction of the conditions under which the function does not RAISE, and its
effect the whole transaction, including what a publication's ACK and rejection
write to the members' rows.  On its own (`QueueSpec`) the queue is called with
every argument by anyone: nothing is assumed of the local side.

Abstractions, and why they lose nothing the properties tell apart:

* A lease token is the revision at which the claim was made.  Revisions grow
  with every write to a row, so a token is as fresh as a random UUID.
* The clock is the step `LeaseExpires`; a lease may lapse at any time.
* The pins of a candidate (snapshot, manifest, code hashes) are one value.  The
  code always sets and compares them together.
* `application_receipts` is the set of requests it covers; the SQL checks exactly
  that (ids distinct and equal to the cohort), and what a receipt hash stands for
  is in `SchoolLiveSource`.
* The five failure codes are two, by whether a claim accepts the blocked row.
* A request RPC repeated with a stored id changes nothing and is left out; so is
  the event log, which is only appended to.
* `fail_school_change` takes no advisory lock.  Its row update is atomic, and may
  come between any two RPCs.  That it comes inside an ACK, between the look at a
  member and the write to it, is left out.

### SchoolLiveSource

`tip` is the content of the SQLite source, `receipts` the receipt table.  A
content hash is the set of changes the content holds: each adoption stamps the
source with a version named after its request (runner 274-275), so a content
never recurs, and the sets are equal exactly when the hashes are.  `WorkerAdopt`
and `WorkerCancel` are `_transaction` with its two cases: a receipt is there and
answers the repeated call, or it is not.  `ChainHolds` is `verify_chain`.  `ExpectedValueHolds` compares values, as apply 199 does: the value that the
department's last adopted correction left in the source, and the one it left in
the content the admin was shown.  A correction may give the value there was
(apply 85-86), so of two corrections that never saw each other both can be
adopted; what cannot happen is `NoBlindOverwrite`.

### SchoolLivePipeline

It composes the queue and the source with the job journals (`job`), `state.json`
(`runner`), the site (`site`) and the running command (`proc`).  `proc.pc` names
the next step; `proc.q` is `control.queue`, the row as last received, which goes
stale.  One action for each effect on a store: `ClaimRead`, `ClaimCall` and
`ClaimJournal` are `_Control.claim`, because the row can change after the read
and the process can stop before the journal has the token; `WriteIntent`, `Apply`,
`AckAdopted`, `RecordAdopted` are the rest of a correction; `Generate` to
`RecordConfirmed` a publication; `RejectIntent` to `RecordRejected` a rejection.
`Stop` ends the command anywhere.  A check that fails is a step that cannot be
taken, after which only `Stop` can: every `need` of the code ends the command
without another effect.

* `Acked` is the single retry of an ACK: the effect may happen and the response
  be lost, once.  `RejectCall` does the same for a rejection.
* The journal keeps for each stage its last record, which is what `job.last`
  returns.  `epoch` is the anchor the identity record names.
* The candidate's evidence directory appears as `previous` (the deploy intent)
  and `site.started` (`upload-started.json`, written just before the spawn).
* `UploadLands` is the uploader and Cloudflare: a started upload becomes the
  production deployment at some time, once, or never.  `OtherRelease` replaces
  production with a release that keeps the school data; `OtherEdit` is a tool
  that writes SQLite against the rule that only the owner's worker does.
* The members of a publication under review are read at once, although the code
  reads them one by one; `reject_school_change` repeats under its lock every
  check that may have changed.
* A renewal in the checkpoint just before the local commit may re-claim; the
  worker then refuses the older lease, so the command ends there.  The model has
  the renewal, and `Stop` for the refusal.

`Admin` asks with any generation the site has ever shown: a page may be old.

### SchoolChangeLifecycle

The abstract specification: corrections go from pending to adopted to public, or
to cancelled; a publication freezes a set; while it is frozen only its members
may be adopted; it is published whole or released.  It is implemented twice:

* by the queue (`ImplementsLifecycle`), where the phase is read from the row;
* by the pipeline (`PipelineImplementsLifecycle`), where the phase is read from
  the source, the tombstones and the site, and the queue's word plays no part.

The second says that the distributed protocol keeps the queue's promise in the
places where it counts.

### What a client keeps for an account

* `UserData`: the hook `useUserData` for one school.  `screen` is what React
  renders, set and rendered in two steps (refs are read before the rendering);
  `calls` are the mutations in flight, each with its optimistic effect, its
  request, its commit or refusal and its answer; `loads` are loads with their
  generation.  Environment: session changes, maintenance, failures, answers lost
  after the commit, other tabs writing `db` and `agreed`.
* `HomeLocation`: `auth` and the rendered `session`, the effect that loads or
  migrates the place, the keys on the `device`, `rows` of `home_locations`,
  `writes` in flight, and the `map` view that centres itself once.  A page may find
  its session ended (`OpenPage`); `behind` notes whose things that left on the device.
* `SheetDrafts`: `drafts`, `dirty` and `saving` of the sheet against `server`;
  `jobs` are saves and reloads in flight with the data they closed over.
* `KanjiLearners`: `disk` (IndexedDB), `memory` (the fallback), `app` (opening,
  reading, pages), `ops` (a call as the transactions it still waits for).
  `KanjiLanguage`: the chain of preferred tags, the pack wanted, requested,
  loaded and active.  `KanjiMarkup`: the parser of the marks in the texts, the
  only module with RECURSIVE operators; nothing is proved about it.

### Families and the flag

* `FamilyGroups` has the RPCs as pure operators from a database to an answer
  and the next database; `accept_family_invite` is two steps because it locks one
  row and not the group.  `FamilyShare` puts devices on top: generations of
  reloads, the buttons' busy marks, sheets closed and accounts changed while
  answers are out.
* `FamilyJoin` is the page of an invitation: `page` (status, token from the link
  or put by), `stored` (the token put by with its age and owner), previews and
  acceptances in flight, the way through a login.
* `MaintenanceFlag`: `flag` in the database; `watcher`, `timer` and `reads` of
  one tab; `control` and `posts` of the dashboard.

### The public site

* `PublicSchools`: releases (`current`, and `edge`, which may serve an older
  one), the shared `store` with its generations, listeners and in-flight load,
  and one school's `detail`.
* `ListPages`: the mounted `page` of a prefecture or a municipality with the list
  that was `embedded` in its document, the answers that are out in `loads`, and
  `release`, of which an answer may hold any since it was asked for.
* `PlaceSearch`: `text`, `timer` and `lastQuery` of the field, `searches` that are
  out with the service they wait for, what is said of them, the position of the
  device, and the index of municipalities with its promise.
* `SiteMove`: one tab's requests through the middleware as a function of phase,
  host and path, logins at a provider (`callback`, `saved`), and the notices
  with their dismissals by date.
* `CspReport`: the body read chunk by chunk within a limit, and the extraction.

### Delivery

* `SchoolGeneration`: one run of the generator from the database (`source`, read
  in pages), an observed or a synthetic pair of snapshot files (`pair`), with the
  generator's own files (`code`) and the output directory (`out`), which others
  may write, replace or make.  What a row becomes is in `SchoolSiteData`.
* `ObservedBuild` and `ReleaseCompletion`: each `pin`, `copied`, `listed` is what
  a step read, and an edit of the repository, the inputs or the output is a
  version never seen before, at any moment.
* `PublicationGate`: candidate directory, index and registration with their
  versions, permits of the review queue, the stub's requests and versions.
* `WorkersPackage`: builds into directories file by file.  `WorkersObserve`: the
  plan of requests as a set over paths, then lanes with retries.
  `WorkersPublish`: several operators' processes, the service's `versions`,
  `active` and `latest`, evidence in `dirs`.
* `SchoolRelease`: the runner against two origins where a deployment takes effect
  some time after it was asked for, or never.
* `SchoolSiteData`, `SchoolSitePages`: generation and rendering as functions from
  rows to files; `SchoolSite`: a fault in any file, and the gate over the result.

## 3. What the runs check

Definitions whose comment starts with "Wrong on purpose" are mutants: each is a
plausible bug, listed in `PROJECT.json` with the property that finds it.

| Run | Instance | Properties | What it shows |
|---|---|---|---|
| `MCQueue` | 2 corrections (1 derived), 2 publications, 9 revisions together | `QueueTypeOK`, `PublicOnlyWithAuditLog`, `CohortsDisjoint`, `LaterCorrectionsWait`, `PinnedNeverReleased`, `FinalStatesAreFinal`, `ResumesTheSameWork`, `ImplementsLifecycle` | consent that comes and goes, cohorts frozen, released and frozen again, leases that lapse |
| `MCPipelinePublications` | 1 correction, 2 publications | `PublishesExactlyItsCohort`, `SiteOnlyGrows` | anchors that roll, stale requests, late uploads, stops |
| `MCPipelineCorrections` | 2 corrections of one department, one of which gives the value there is; 1 publication | `SourceFrozenWhilePublishing`, `NoBlindOverwrite`, `StateFileIsTruthful`, `PipelineImplementsLifecycle` | stops between commit, ACK and `state.json` while the next request arrives |
| `MCPipelineIntrusions` | 1 derived correction, 1 publication, a foreign edit, failures by hand, other releases | `PipelineTypeOK`, `QueueAgreesWithSource`, `UploadIsPinned` | queue, source and site agree even against the rules |
| `MCPipelineRelease` | 1 correction, 2 publications | `UngeneratedCohortCanBeReleased` | violated, see section 5 |
| `MCAccountData` | 14 parts: user data, place, sheet, kanji | `NothingLeavesItsUser`, `AccountsStayApart`, `ShownIsStored`, `SavesNeverErase` | changes of session, also unseen, failures and answers that overtake each other |
| `MCSheetTyped` | 1 user, 1 school | `TypedTextSurvives` | violated, see section 5 |
| `MCFamily` | 6 parts: devices of two people, two of one account, one with changing accounts, two invitations; an invitation's page; the flag | `OneRowPerPerson`, `ScreenFollows`, `NothingElseChanges`, `InvitationIsForOne` | whatever order things are answered in |
| `MCDelivery` | 11 parts, from the generator to what is live | `OneStateThroughout`, `ConfirmedUnderConsent`, `LiveIsAsPackaged`, `PassedIsServed`, `ActiveWasVerified` | edits, kills, withdrawn consent and other people's deployments at any moment |
| `MCSite` | every set of up to 5 schools of 9 kinds | `CleanIsAccepted`, `AcceptedIsTrue`, `CleanLinksResolve` | what the gate accepts, with at most one fault in any file or page |
| `MCPublicSite` | 8 parts: a school's data, lists, the search, requests, logins, notices, two of reports | `DetailIsOfItsSchool`, `ShownAsAskedFor`, `EdgeKeepsItsPromises`, `NothingGoesBack` | releases and slow answers; every request before, during and after the move |
| `MCProgress` | 11 components, few calls; the release with two interventions | `ReleaseIsTrue`, `AnswersArrive`, `WorkEnds` | a release ends with a true answer; liveness under the fairness below |

A *suite* (`MCAccountData`, `MCFamily`, `MCDelivery`, `MCPublicSite`,
`MCProgress`) is one state machine whose variable `part` says which instance of
which component the behaviour belongs to; the variables of the others stay
`"off"`.  The parts do not interact: a suite is a way to ask one question of
several components, and each conjunct of its properties names the component's
own property.  One component is extended rather than instantiated (`UserData`,
`FamilyShare`, `WorkersPublish`, `PublicSchools`, `SchoolRelease`): the suite checks the very
formula its proof module proves, with the constants of the `.cfg`, and in the
parts of other components its variables rest where they begin.  All but
`MCProgress` extend the proof module itself, where the joint properties that are
proved are defined.

### Bounds

*The queue and the pipeline.*

* `MaxRevision` bounds the claims, renewals and failures of a request: a row is
  made with revision 1 and each adds one.  Other writes (ACKs, rejections, writes
  to members) are bounded by the life cycle and never cut off.  Two claims are
  one restart at any point; a publication has three.  In `MCQueue` the revisions
  of all rows together are bounded by `MaxEffort`, so that one request can take
  all of it.
* Two corrections suffice for one in a cohort and one outside, one committed and
  one waiting, or two that conflict; two publications for an old and a new anchor
  or a released and a new cohort.  The theorems have no such bound.
* `MaxCohort` 2 never refuses in these instances; the limit of 100 is only a guard.
* Corrections, publications and hashes are symmetric; no liveness is checked in
  these runs, so symmetry is sound.  The derived correction is not permuted.
* `MCPipelineCorrections` has no failures reported by hand: with them
  `PipelineImplementsLifecycle` is false, because a failure blocks a correction
  that is about to be adopted and a cohort may then be frozen without it (the
  theorem has the same hypothesis).  That
  the queue keeps its own promise then too is `QueueAgreesWithSource`, which
  `MCPipelineIntrusions` checks with them.

*The web client.*

* Two or three calls in flight are enough for one to overtake another and for a
  failure between them; `MaxLoads`, `MaxChanges` and `MaxIds` bound loads,
  session changes and ids; each part has the smallest of them with which its
  mutants are found.  `UserData` and `HomeLocation` have one school and one
  browser, because no operation touches the record of another.
* Clicks act on what was rendered, after its effects ran, and a request takes
  longer than a rendering: both are how React and a network behave, and without
  them hardly a UI program is right.  A lost answer is committed first.  An
  account changes under an open page by another tab.
* `SiteMove`: `Visits`, `Links` and `Pages` are the requests a behaviour may begin
  with; for a middleware without state one request is the whole behaviour.
* `FamilyShare`: `Switches`, `Closings`, `Failures`, `MaxOps` and `Accepting` bound
  what people do; group ids are one, rows four.  One failure is a lost answer or a
  failed reload, two devices of one account are enough to make each other's sheet old.  `FamilyJoin`: one browser and
  tab, with `Accounts`, `Refreshes`, `Loads` and `Lost`.
* `PublicSchools`: two releases; with the second a school gets its place and the
  other one goes; `MaxGen` loads, so that the newest of three meets two older
  ones, and `MaxOpen` schools opened, enough to come back to the first.
* `ListPages`: two prefectures with the same names of municipalities, in two
  releases between which a school gets its municipality and another loses it;
  `MaxLoads` 2, so that an older answer comes after a newer one.  A text occurs
  where `Occurs` says.
* `PlaceSearch`: two texts, one asked of up to three services and one a postal
  code; `Slots` are the two searches that are out at once.  `Limit` is 2 and not 4, four municipalities compete.
* Kanji: one tab; `MaxFaults` failing calls of IndexedDB, `MaxRuns` starts.

*Delivery.*

* `SchoolGeneration`: once without the lease, with pages of two rows and writes to
  the database between them, once with it and with edits of the pair, the code
  and the output.  `MaxTries`, `MaxWrites` and `MaxEdits` bound the rest.
* An edit is a version never seen before, `EditMax` of them; `MaxTouches`,
  `MaxVersions` and `MaxFaults` bound other people's work.  A version of a Worker
  never changes, and its script's etag does not cover the assets.
* The caller of the observer names the version.  A deployment stands for its
  bytes; `ForeignMax` writers put something else there.
* `PublicationGate`: every proposal was adopted, so a withdrawal revokes its permits.
* `SchoolSite`: the neighbour limits 15, 8 and 3 are scaled to three, places lie
  on a line, and one fault is made, in builds of the first three schools only.  It may
  be a link or a crumb to no page, a page left over or an entry of somebody else's.

Each run stops by design when everything is done, so `CHECK_DEADLOCK` is `FALSE`.

### Fairness

Safety is checked without it.  `MCProgress` assumes weak fairness of exactly the
steps that the browser, the server or the script takes by itself:

* *requests are answered*, with success or failure (`Loading`, `Commit`,
  `Refuse`, `Answer`, `SaveDone`, `Serve...`, `Deliver...`, `PreviewAnswered`,
  `ManifestAnswered`, ...): `fetch` and the client of Supabase settle;
* *React renders and runs effects* (`Render`, `RenderSession`, `Effect`,
  `Subscribe`, `FirstRender`);
* *timers fire* (`Elapses`, `OpenTimeout`), and *transactions end*
  (`AcceptEnds`, `Transaction`, the reads of the kanji store);
* *the auth client reports the session* (`SessionKnown`);
* *lanes and the release runner go on* (`Plan`, `Taken`, `Answered`, `Finish`,
  `Runner`): they are loops over awaited calls with deadlines of their own.  A
  failure (`RequestFails`, `Deadline`) is never promised, and no deployment is
  promised to take effect.

Nothing is assumed of people: clicks, session changes, edits, switches and
retries may never come.  Nothing in the code repeats an owner's command either,
so there is no liveness property of the correction pipeline.

## 4. What is proved

TLAPS proves the theorems below for every value of the constants: any number of
corrections and publications, users and devices, packages and operators, schools
and interventions.  Twenty-two components are behind them; a proof module may hold
several that act on the same data.  Of the 40 properties of the passing runs, 36
are stated whole by a theorem, as the same formula.  Two are about liveness.  The
other two join several components, and the theorems marked "part of" below
state what they say of one; what remains of them is under "only model-checked".

| Module | Theorem | Property | What it adds to the run |
|---|---|---|---|
| `SchoolChangeQueueProofs` | `QueueIsInvariant` | (the invariant) | the rest follows from it |
| | `QueueIsTyped`, `PublicIsLogged`, `CohortsStayDisjoint`, `LaterCorrectionsAlwaysWait`, `PinnedIsKept`, `FinalStatesStayFinal` | the first six of `MCQueue` | any number of rows, any callers |
| | `RowsStaySound` | | tokens never exceed revisions, so an old token never passes for a new one |
| | `WorkIsResumed` | `ResumesTheSameWork` | any number of restarts |
| | `QueueImplementsLifecycle` | `ImplementsLifecycle` | the queue alone keeps its promise |
| `SchoolLivePipelineProofs` | `PipelineIsInvariant` | (the invariant) | the rest follows from it |
| | `PipelineIsTyped` | `PipelineTypeOK` | |
| | `QueueAlwaysAgrees`, `UploadStaysPinned` | `QueueAgreesWithSource`, `UploadIsPinned` | also with foreign edits and failures by hand |
| | `NothingIsOverwrittenBlindly`, `SourceStaysFrozen` | `NoBlindOverwrite`, `SourceFrozenWhilePublishing` | |
| | `CohortIsPublishedExactly`, `StateFileStaysTruthful` | `PublishesExactlyItsCohort`, `StateFileIsTruthful` | any number of anchors |
| | `SiteAlwaysGrows` | `SiteOnlyGrows` | however late uploads land |
| | `QueueIsUsedAsSpecified` | | every behaviour of the pipeline is one of the queue |
| | `SiteShowsOnlyCohorts` | | what is public came with a cohort |
| | `PipelineFollowsLifecycle` | `PipelineImplementsLifecycle` | needs that no failure is reported by hand |
| `UserDataProofs` | `DataStayWithTheirUser`, `NothingOpenWithoutConsent`, `NothingLeaves` | `NothingLeavesItsUser` | any accounts, calls and loads in flight, changes of session |
| | `PrioritiesTakeTurns`, `LastPriorityIsStored` | | the last priority called is the one stored, where only priorities are called |
| | `AccountsAreApart` | `AccountsStayApart` | any accounts, places, schools, texts and saves, sessions that end anywhere |
| | `TextsStayWhereTyped` | part of `ShownIsStored` | the button of a sheet is back once no save is under way |
| | `NoTextIsErased` | `SavesNeverErase` | saves and rollbacks never put an empty text over one that counts |
| | `LearnersShownAreStored` | part of `ShownIsStored` | any languages, entries, failed transactions and history |
| `FamilyShareProofs` | `OwnersStay`, `OneMembership`, `RowsArePersons` | `OneRowPerPerson` | any people, groups and devices, whichever calls interleave |
| | `MembershipsAreKept` | `InvitationIsForOne` | no step hands a membership on |
| | `ScreensFollow` | `ScreenFollows` | any devices, reloads and calls; accounts that change under an open invitation; any number of reads, switches, failures and mounts of the flag |
| | `NothingElseIsChanged` | `NothingElseChanges` | any people, groups and calls, several devices of an account, lost answers; any reads and failures of the flag; accounts that change under an invitation that was put by |
| `PublicSchoolsProofs` | `ShownIsTheSchool` | `DetailIsOfItsSchool` | any schools, releases and visits |
| | `ReadingGoesOn` | `NothingGoesBack` | any number of loads, however late they come back |
| | `ReadersSeeWhatTheyAskedFor` | `ShownAsAskedFor` | any prefectures, releases and visits; any texts and any number of searches that are out |
| | `EdgeLosesNobody` | `EdgeKeepsItsPromises` | any requests, logins, days and switches of the operator; bodies of any length, cut anywhere, and reports of any content |
| `WorkersPublishProofs` | `LiveStaysItsPackage`, `LiveKeepsItsSecrets`, `SecretsNeverChangeTheScript`, `LiveStaysAsPackaged` | `LiveIsAsPackaged` | any packages, operators, evidence directories and faults |
| | `DeployReceiptsStayTrue` | | later secrets commands may rely on a deploy receipt |
| | `ConfirmationNeedsConsent` | `ConfirmedUnderConsent` | any requests and proposals, and any edits of directory, index and queue during a call |
| | `OnlyVerifiedBecomesActive` | `ActiveWasVerified` | also that a deploy receipt names what its writer put live |
| | `ObservationIsHonest` | `PassedIsServed` | any package, lanes and retries |
| `SchoolSiteProofs` | `CleanOutputPasses` | `CleanIsAccepted` | any schools, places and thresholds |
| | `CleanOutputIsLinked` | `CleanLinksResolve` | |
| | `AcceptedApiStaysTheGate`, `AcceptedStaysWhole`, `AcceptedStaysTrue` | `AcceptedIsTrue` | any number of faults, where the run has one |
| `SchoolReleaseProofs` | `NothingIsLeftBehind`, `AnswersStayTrue`, `ReleasesAreTrue` | `ReleaseIsTrue` | any number of interventions |
| | `BuildsAreOfOneState`, `CompletionsAreOfOneBuild` | parts of `OneStateThroughout` | any files, builders, finalizers and edits |
| | `PackagesAreWhole` | part of `OneStateThroughout` | any files, builds of one output, rebuilt candidates and kills |
| | `ReceiptsAreTrue` | part of `OneStateThroughout` | any rows, pairs, edits, retries and failures of the generator |

Each of the last six modules also has `TypeCorrect` or its like, the type
invariant of the component it is named after; of the others it is proved with the
theorem.

### Assumptions

`QueueAssumption` and `PipelineAssumption`: ids of corrections, publications and
foreign edits are different; there are finitely many corrections (a cohort is
counted); `MaxRevision` is a natural number for each request; and `None` is not
an id, a content, a candidate, a piece of evidence, a failure code or a receipt,
which is SQL's `NULL` not being a value.

The other components state their assumptions as operators, which are hypotheses
of their theorems, so that a suite can evaluate them for each of its instances
(`Bounds`):

* `UserDataAssumption`: the default priority is a value, and `None` is neither a
  user nor a value.  `OnlyPriorities`, for one theorem, says that nothing else is
  called: a note or a removal ends what a priority said, which is no fault.
* `HomeAssumption`: `None` and `Broken` are neither users nor places.
* `SheetDraftsAssumption`: `None` and `Invalid` are neither users, schools nor texts,
  there are three fields, and bounds are numbers.  The learners need none.
* `ShareConstants`: guests are users, `Nobody` is not, and the tables a behaviour
  starts from are sound: a group has its owner's row, ids are below the next one.
* `MaintenanceAssumption`: `Nothing` is not a truth value, bounds are numbers, and at
  least one mount and one read are possible.
* `PublicSchoolsAssumption`: releases are numbered from 1, and `NoId` is no school.
* `ListPagesAssumption`: releases are numbered from 1, an index lists the names of
  municipalities it has, a school has finitely many tags, and `Null` and `Other` are
  no places.
* `PlaceSearchAssumption`: `Null` is no text, place, hint, search or answer, a text has
  one of the four forms, and of those only postal codes are known in advance.
* `SiteMoveAssumption`: `None` is no phase, path, number or record, phases are
  `rescue` and `retired`, and bounds are numbers.
* `CspReportAssumption`: the limit and the lengths of bodies are numbers, `None` is none.
* `WorkersPublishAssumption`: bounds are numbers, `HasWorker` is a truth value.
* `QueueRecords`: a proposal of the queue names a request and a candidate.
* `WorkersObserveAssumption`: files, redirects and lanes are finitely many, a request
  is tried at least once.
* `SiteAssumption`: schools have numbers for ids and are finitely many, their
  prefectures are known, places and the bound on faults are numbers, and a page may
  have at least the three neighbours that the gate demands.
* `ReleaseAssumption`: there are two targets, and they differ.  `BuildAssumption`:
  `"none"` is no builder.  `CompletionAssumption`, for one theorem, adds that a
  directory is built once, which is what the owner's steps do.
* `WorkersPackageAssumption`: public files lie in a directory of their own, apart from
  bundle and receipts, and `Absent` is no content.
* `SchoolGenerationAssumption`: kinds of run are the three there are, sizes of pages and
  attempts are positive, versions of the snapshot are numbers, and `Null` is no
  directory; what else it says of rows, the theorem does not use.

`DeliveryAssumption`, `SharingAssumption`, `KeepingAssumption` and `ReadingAssumption`
are conjunctions of these, for the theorems about several components; the page of an
invitation (`FamilyJoin`) needs none.  Their specifications, `Delivery`, `Sharing`,
`Keeping` and `Reading`, are those of the runs `MCDelivery`, `MCFamily`,
`MCAccountData` and `MCPublicSite` without the values of the constants: `part` says which
component a behaviour is of, it stays so, and the variables of the others rest.  So
a joint invariant follows from those of the components, one case for each.

TLC evaluates the assumptions of each component in a run.  Nothing else is assumed, and no fairness.

### The queue

`QueueInv` is the type invariant, the four safety properties and four facts they
lean on:

* `MembersExist`: what a cohort names was requested, and what a correction is
  bound to as well.  Without it a row made later could enter a cohort unseen.
* `ConfirmedTogether`: a confirmed publication has confirmed its members; so a
  member is never claimed, failed or rejected afterwards.
* `AdoptionLogged`: the log row, the adopted source and the state say the same.
  `PublicOnlyWithAuditLog` alone is not inductive: the confirming ACK writes
  members it has not looked at.
* `GeneratedIsPinned`: pins are there from the first ACK on, so `claim` resumes at
  the right stage, and a blocked row with pins cannot be rejected.

For every RPC one lemma says what it does to the
rows (`ClaimEffect`, `AckConfirmedEffect`, ...): which rows it leaves alone, and
for the others which fields it sets.  `RowsSound` is the second invariant: an
unknown id has an empty row, and tokens are at most revisions.  The refinement
maps each RPC by its effect; the interesting steps are the adopted ACK, where
`LaterCorrectionsWait` makes the correction a member of any frozen cohort, and
the confirming ACK, where `CohortsDisjoint` and `AdoptionLogged` show that
exactly the members become public and all were adopted.

### The pipeline

`QP` is the queue's proof module with the pipeline's contents for sources and
generations and its candidates for pins.  `QueueConstants` derives
`QueueAssumption` for it from `PipelineAssumption`, and `SameQueue`,
`SameLeaseSteps`, `SameAcks` and `SameRequestsAndRejections` say that the RPCs the
actions call are those the queue's lemmas are about; from there on the queue is
used only by what is proved of it.

`PipelineInv` has three parts.

* `PipelineTypeOK`.
* `StoresOK`, which holds whatever a command is doing: the queue's two
  invariants; `SourceOK` (a change is in the source exactly if its receipt says
  so); `QueueAgreesWithSource`; `ValuesOK` (`NoBlindOverwrite`, and why: what was
  adopted since the anchor was asked for with the anchor on the screen and found
  there the value the anchor has, so only the last one of a department can have
  changed it); `CandidatesOK` (a candidate
  is what the admin saw plus the cohort, nothing is added to the source while its
  publication is pending, and pins are of that candidate); `SiteOK` (what is being
  uploaded is pinned, what is confirmed was in production); `RecordsOK` (what
  `state.json` knows).  `Doubt` is the set of local commits `state.json` lacks; that
  it never has two members is what makes a stop between commit and record safe.
* `RunOK`, about the running command, by the step it is on its way to (`Aim`: a
  lease that ran out sends it back to `claim` first).  `CommandOK`,
  `CorrectionRunOK` and `PublicationRunOK` say what of its snapshot still holds:
  for instance that on the way to a local commit nothing but this request is in
  doubt, and that a publication's tip is still `expected` plus `included`.
  `ClaimedFirst` is the key to `SourceFrozenWhilePublishing`: a correction about to
  be adopted was claimed when nothing pending had been generated, and nothing
  can have been since, because generating needs every member of the cohort
  adopted and a claimed correction is a member.

Each part was checked as an invariant with TLC on the three pipeline instances
before it was proved; several first versions were not inductive, which is how
`Doubt`, `ClaimedFirst` and the clause about `tip` in `RecordsOK` came about.
Every action then has one lemma (`ApplyFirstKeepsInv`, `AckGeneratedKeepsInv`,
...), and the steps common to them are separate: a call that records nothing
(`QuietCallKeepsStores`), one that records the truth (`TrueCallKeepsStores`), a
line in a journal (`JournalKeepsStores`), a step of the site
(`SiteStepKeepsStores`), and a command that goes on to the same aim
(`SameAimKeepsRun`).

`StateFileIsTruthful` needs one more fact, `DoubtIsNew`: no commit in doubt was
recorded before.  The history is dropped only for an anchor that holds all of it,
because a confirmed publication is recorded only while its candidate is the source
(controller 328), which is what a correction let in too early would change.

The refinement needs two more facts.  `SiteHistory`, an invariant: the anchor is
public, a candidate is made on top of what is public, and what is public came
with the cohort of an upload that landed.  `ClaimStands`: the claim a command
read before its local commit still holds, in state if not in time; this is where
failures reported by hand are excluded, since one of them takes the claim back
behind the command, and TLC shows that the refinement fails then.  Given both,
the local commit is `Adopt` (by `LaterCorrectionsWait` the correction is in the
held cohort), the tombstone `Cancel`, the admin's requests `Submit` and `Freeze`,
the rejection of a publication `Release`, the landing of an upload `Publish`, and
everything else, all ACKs included, changes nothing a reader of the source and
the site could see.

### A user's data

Every value carries its author, so that nothing reaches another user is a matter
of types, but of finer ones than `UserDataTypeOK`: `DataInv` says that the screen
holds values of the user whose data are loaded, what React has rendered as ready
those of the session, and a load, a call, its argument and what it would put back
those of the user it was made for.  `OwnDataOnly` alone is not inductive, because
a call in flight shows nothing yet.  Consent needs nothing of it but that the rows
have the right fields (`ConsentHolds`).  `TurnInv` is the chain of promises of
`setPriority`: a call that has left the queue found the user's earlier ones
settled, and one that was written is no longer on its way; from it a commit is
always later than all commits before.

*The place* (`HomeLocation`).  What is on the device and on the screen must belong to
somebody, but the session stored in the browser, the one rendered and the one
whose place is loaded change one after the other.  `HomeInv` names the one it
belongs to, the `Holder`: the account the tab works for, or, between two sessions,
the one still stored.  A session that ends with no page open leaves its things to
the next page, which cannot tell them from a guest's; the history `behind` names
their accounts, until a page has cleaned the device and for ever, and whatever is
found with somebody else is theirs.  Every write on its way is of the account it was sent for,
and exact coordinates last no longer than the first effect.

*The texts* (`SheetDrafts`).  `SheetInv`: an input holds a text typed by this user
at this school, or the loaded data of the same, or nothing; a save and what its
rollback would put back are of the user and the school they were made for.  That
no save erases takes one thing more: an input that counts, because the data are
there or it was edited, is never the empty one it began with (`DraftsOK`).

*The learners* (`KanjiLearners`).  `KanjiInv` ties calls to the form that waits for
them: at most one of them, behind the guard against a second click, before the
one learner this visit adds; and none waits for a form that is gone.  With that a
late answer can neither add twice nor change another page.  A page that is shown
asks for no redirect, so every navigation must end at a page that does not; the
application is opened with one store, and one in memory holds no connection.

### Family sharing

`IInv` has three parts.  `Sound` are the tables (also what `Start` is assumed to
be): every group has its owner's row and only that says owner; ids are unique and
below the next one; nobody is twice in a group.  `LocksOK`: an acceptance under way
still has its invitation, open, and has it alone, since the transaction locks that
row and no other.  `DeviceOK`: the rows a device shows, or that are on their way to
it, were once in the tables (`Known`), so that a removal pressed on an old screen
hits a row of the same group or none; and the newest reload, if it is not waited
for, saw what the device did (`UpToDate`).  `Follows` is what every call does to the
rows: rows keep id, group and user, new ids are new; `InvitationIsForOne` follows
from it.

*The buttons that share.*  A call sends the value that was pressed and the other one
as the sheet shows it, so the other one must be shown as the tables have it when
the call takes effect, not only when it is pressed.  Another device of the account
may call in between, an answer may be lost, a reload fail; of a view and of each
reload the history `told` says whether the device heard of every sharing call of
the account since its rows were read.  `SharingInv`: rows read so agree with the
tables on the account's own values (`Tells`), since nobody else's call writes them
(`Untouched`, from what `RpcRows` says of each call), and a call pressed on such rows
still says what the tables say (`SaysTrue`).  The device's own calls need no such
history: with `UpToDate` of the first invariant a view that is shown has seen them.

*The page of an invitation* (`FamilyJoin`).  The token and the account change under
the page, and previews come back late.  After every rendering the page shows
what its effect ran for (`PageOK`; `SettleIs` says where the effects that follow a
change end), and a preview still waited for was asked with that token and for that
account; one asked before is cancelled, not merely overtaken.  So the name of the
group that is confirmed is the one this account was shown.  What was put by, in
memory or in storage, is of the account that opened its link (`PutByOK`), and the
page holds a token only of its own account; a page that asks for the login has put
its token by, which is why who comes back finds it.

*The flag* (`MaintenanceFlag`).  A watcher listens to one read at a time, and no read
it still listens to has been overtaken (`ReadsOK`): a new watcher stops the old one
before it reads, and a timer is set only when an answer is in.  The value that the
control shows before it is stored stands only beside the request that stores it.

### The public lists and pages

`ListOK`: the load in flight is the newest one, loads have generations of their
own, and what an answer that would be taken was told to fetch is no older than the
list.  The last holds because what is fetched is fixed by the manifest, after which
only an older generation can still answer, which is not taken; so a list never goes
back although nothing compares releases.  `DetailOK`: what was fetched is of the
school opened last, under the generation of its values; at most one answer is
awaited, that of the school that is open, and if it would fall back, nothing is
shown yet.  `DetailIsOfItsSchool` alone is silent while no school is open, and a
school closed and opened again keeps what was fetched: that is what `last` is for.

*Lists of a place* (`ListPages`).  A page shows the list of its place in one release,
or is loading or failed with nothing on it (`PageOK`); of the answers that are out
at most one would be taken, and that is of the place the page is at (`AnswersOK`),
because leaving or reloading cancels the one before.  Links and chips are read off
the index of one release.

*The search* (`PlaceSearch`).  The text changes under the searches, which come back in
any order.  `SpinnerOK`: it turns only while a search is out that will end it, one
for the last text or, once the field was cleared, any.  `ResultOK`: candidates or a
failure of another text than the last stand only while the last one's search is
out; `FieldOK`: a text in the field waits for its timer or was the last searched
for.  So when nothing is out, what is shown is of the text.  That a chosen place is
the one the hint names (`ChoiceOK`) holds at every step, because every handler that
sets one sets the other.

*The move* (`SiteMove`).  The middleware is a function, so what it answers is split by
host, phase and path; a redirect is answered where it leads.  The login is the
part with a memory: `LoginInv` says that what is saved for the return is what the
attempt started from, until the page that returns has used it.  For the notices,
`ClosedUpTo`: dates they were closed for are at most the one remembered, and that at
most the date of the move, which only grows.

*The reports* (`CspReport`).  While a body is read, what was counted and what is left
add up to its length and all that was counted is held (`BodyInv`), so the chunk that
passes the limit comes only if the length does.  That a logged report is clean needs
each sanitizer once (`SanitizersClean`): a value that none lets through makes the
whole report unlogged.

### The publication of Workers

A version never changes once it is uploaded; so `PublishInv` says of everything
that names one, receipts, observations, running commands and what deploy put
live, what its writer had found out about it, and nothing of `disk`, `active` and
the newest version, which others change.  `LiveIsItsPackage` is not inductive by
itself: what is deployed was compared in an observation made long before, and the
bindings were read by the running command.  `VersionsStay` carries all of it over
every step.

*The gate before it* (`PublicationGate`).  `GateInv` follows the one call of the stub:
once the files were checked its candidate is among those verified in this call,
from the permit on the request it names is remembered for no other candidate or
proposal, and at the confirmation its permit was consumed while consent held.  It
says nothing of directory, index and queue, which others change at every step; a
consent withdrawn between the consumption and the answer comes too late, by design
of the code (247-250).

*The observation* (`WorkersObserve`).  `ObserveInv` is a count: requests passed, failed
and held by a lane are those taken (`CountsOK`), so that none is judged twice or
dropped, and while nothing has failed each one taken was served as packaged or is
still held (`ServedOK`).  That the plan asks one URL for one file takes the lemmas
about its order and about the URLs of files.

### The generated site

`CleanInv` follows the build: until a fault is made, the files are what `Generate`
makes of the rows and the pages what `Render` makes of the files.  Then each check
of the gate is a lemma about these functions.  The one that takes an argument is
that every school has as many neighbours as the gate demands: taking the nearest
by rank never drops a school without filling its place (`NearestFills`, by
well-founded induction on distance with ids between equals).  With faults,
`WholeInv` keeps one fact no wrong file can undo: the full payload only loses rows
while the manifest goes on counting them all (`FilesOK`).  The gate counts the payload against the manifest, so what it accepts
has every row (`AcceptedIsAll`); that every school of it has page, file and place,
that the sitemap names only pages that are there and lists of towns lead to pages,
and that the public API is the gate of the generator, is then read off what it
compares.  So no number of faults hides another.  Of what it does not compare
nothing is said: of the links between schools it wants a number, of a school's
crumbs a number, the last name, the form and the municipality.

### The release

`Kept(t, v)`: the runner is certain of project `t`, so no request to it is under
way, and it serves `v` or what another writer put there.  `WorldOK` says this of the
service in general (a request under way marks its project, what another writer
wrote never becomes ours again), `StepOK` of one mutation between its mark and its
settlement, `PhaseOK` which projects each phase has made certain, `OutcomeOK` what
the answer rests on.  `EndHolds` and `TrueAtOnce` are not inductive because they are
silent until the end; what has to survive is that the first project stays certain
while the second is worked on, through late deployments, lost answers and failures
that turn a release into its rollback.

*The build* (`ObservedBuild`, `ReleaseCompletion`).  Files are copied one by one, and an
edit may come between any two steps, also to the copy while it is compiled.
`TreeOK`: what lies in a builder's directory is what he copied, or shows that it was
edited; what was compiled before such an edit is seen only as long as the edit is.
So the comparison at the end, of sources and copies with what was read first, is
enough (`CompiledOK`).  A finalizer knows no more than it read: `SeenOK` says that a
receipt it has read stays true of that build, and that the bundle it made differs
from the sources at most where they were edited since, which its last look finds.

*The package* (`WorkersPackage`).  Several builds may have one output, and the candidate
may be built again while they copy it.  Only the build that made the directory
writes into it (`MakersOK`), and what it has written by then is of the candidate it
read, because each file is compared with its pin as it is copied (`PartsOK`); since the
receipt comes last, a package that has one is whole (`WholeOK`), also after a kill.

*The generator* (`SchoolGeneration`).  The receipt names a pair and a version of the code
that may have changed before it is written.  Versions only grow, so what was read,
what lay there when the last file was complete and what lies there now are in this
order (`DuringOK`); the recheck before the receipt finds the first and the last
equal, so all three are (`Confirmed`).  `StageOK` says what is written and what is
still to be at each step, `ReceiptOK` that the receipt is the last file made and
therefore the first one removed, `OutputOK` that a file made or edited is one of
those owned, and that none of these is somebody else's.

### What is only model-checked

* Liveness (`AnswersArrive`, `WorkEnds`): the prover has no rules for ENABLED, on
  which weak fairness rests.
* The parts of the joint properties that no theorem states:
  the type invariant of `KanjiLearners`; of `ShownIsStored`, `ScreenAgreesWithRows` of
  `UserData` (the order in which rollbacks and loads are put on the screen matters
  to it, and its exceptions are histories), `ShownPlaceIsSaved` and
  `NotOverTheSea` of `HomeLocation`, `QuietTextSurvives` of `SheetDrafts`,
  `NextStartAgrees` and `ScreenIsStore` of `KanjiLearners` (the second holds only while
  at most one transaction of a removal fails, `profileState.ts` 154-159), and
  `KanjiLanguage` and `KanjiMarkup`; of
  `OneStateThroughout`, `RowsAreTheDatabase` of `SchoolGeneration` (the pages are
  sorted sets and the rows selections of sequences, both recursive, so what they
  hold takes induction over data).
* What functions over sequences compute for every input (the parser of
  `KanjiMarkup`, folds in `SchoolSiteData`): that takes induction over data.  Which
  municipalities the search shows is such a fold: `MCPublicSite` evaluates it for
  every way in which a text fits four of them (`BestTowns`).


## 5. Where the code and its words differ

Two runs end in a counterexample, each to a sentence of the repository:

* `MCPipelineRelease`.  `reject_request` promises to "release an ungenerated
  publication cohort" (controller 399).  A publication requested from a page
  older than the present anchor is refused by `run_request` (267) and by
  `reject_request` (414); it stays pending, and while it does no other
  publication can be requested (SQL 198-201).
* `MCSheetTyped`.  "A field the user edited by hand is not overwritten when server
  data are hydrated" (`SchoolDetailSheet.tsx` 133).  The success of a save clears
  the dirty marks of whatever was typed since it was sent (595), and the next
  data replace it.

Met while modelling, and kept in the modules as the code does it, without a run
of their own.  Where a property is about the same sentence, it names the case as
its exact exception, and its run meets the case:

* *Cancelling* (controller 399, 454: "a current-tip tombstone is safe").  A
  cancellation that stopped after its tombstone can be finished only while the
  tombstone's target is the current source (apply 162); after another adoption
  the edit can be neither applied nor cancelled.
* *Rolling the anchor* (`test_school_live_runner.py` 187, "rolls anchor and
  history atomically").  The queue is confirmed first, `state.json` second; after
  a stop in between the next adoption joins the confirmed cohort's history, and
  the publication can no longer be reconciled (controller 326).  Nothing recorded
  is lost by that (`StateFileIsTruthful`), but the owner has to help.
* *Two failing priorities* (`useUserData.ts` 308, against 247).  The second call
  takes the first one's optimistic value for the value to go back to, when the
  rollback was set and not yet rendered: the screen keeps what was never stored.
  `ShownIsStored` is silent of such a second call (`Undisturbed`), and of no other
  order of priorities that wait and fail.
* *Maintenance while a priority waits* (307, against 27).  The block is tested
  when the call is made, not when its queued work starts.
* *A session that ends while no page is open* (`AppContext.tsx` 205, against 201).
  The place stays on the device and becomes the next account's own.  It is what
  `AccountsStayApart` excepts (`behind`), and all it excepts.
* *Switching the flag during a read* (`useMaintenanceMode.tsx` 50, against 20).
  The read's older answer takes the switch back in that tab until the next read.
* *Crumbs and links* (`verify-static-output.mjs` 1245).  A municipality missing from
  its prefecture's index has no page, the crumbs of its schools lead nowhere, and
  the output is accepted.  So is one whose schools link to pages that are not
  there: the gate counts the links of a school (1134-1143) and follows none, of its
  crumbs it compares the number, the last name, the form and the third (1097-1122),
  and it looks for no page of a prefecture or municipality left over from before.
  `AcceptedIsTrue` therefore says nothing of these.
* *Addresses* (`gen-schools-json.mjs` 563, against 532-536).  A row whose
  municipality was not resolved keeps its address if the raw column has one.
* *Family groups after a change of account* (`useFamilyShare.ts` 92, against 94).
  An RPC out at the change awaits a reload of its own closure, whose rows become
  the new account's.
* *Two sharing buttons* (`FamilyShareSheet.tsx` 232, against
  `202607070303_v0.2.0_family_share.sql` 54).  Both values are sent: after a lost
  answer, a failed reload or a call of another device of the account, one button
  turns the other back.  `NothingElseChanges` excepts a sheet that shows something
  old in one of these ways, and has devices, losses and failures enough for them.
* *The invitation's token* (`FamilyJoinPage.tsx` 160, against 204; 182, against
  `CHANGELOG.md` 85).  A refreshed session saves an ended token again; after a
  login the message about a used link is replaced by one about a malformed link.
* *Accepting twice* (`202608040105_v0.5_audit_c2_family_authz.sql` 274, against
  `202609180101_v0.9_family_join_share_defaults_off.sql` 55).  A member is asked
  to confirm an accepted invitation and is then refused.
* *A subscriber too late* (`useSchools.ts` 350, against 291).  A component that
  subscribes after the load ended goes on showing "loading".
* *A school closed and opened again* (`useSchoolDetail.ts` 177, against 175).  If
  its file fails, nothing is drawn and nothing fallen back on.
* *A text typed again* (`HomePage.tsx` 91, against 76).  A text that was answered,
  changed and typed back is the last one searched for: no search starts, and the
  hint goes on saying that it is searched for.
* *An answer while typing* (97-102).  Within the 400 ms before the next search an
  answer for the text before still chooses its place.
* *The generator's identity* (`gen-schools-json.mjs` 888, against 670).  A synthetic
  run takes the hash of the generator when it has read its rows, the others when
  they are started: an edit in between is named though the old code runs.
* *Schools by offset* (150-181).  A school that goes between two pages makes the next
  one be missed; the lease that excludes this (749) is named by the caller, not tested.
* *Kanji.*  A language picked while the current learner's removal is out stores
  the learner again; a switch during a removal may name a learner that is gone; a
  save that ends navigates even if the form was left; two tabs overwrite each
  other; a connection closed between opening and the first rendering is announced
  to nobody.
* *Batches* (runner 239-240, 281).  The scan stops at the first request that
  fails, so an older one that always fails keeps later ones from their turn.

## 6. What is not modelled, and the plan

Not modelled: the components marked so in section 1; within the pipeline the PIN
lockout, the batch scan's order, the file-level steps of `atomic_state`, the
length limit of the job journal, the assembly of a candidate and the contents of
the HTTP probes, the first deployment to an empty project, and the stale lock
file, which the owner must remove by hand; in the client the controls of an
admin on the sheet, the search for schools by name, open sections, scroll
positions, drawing and wording; in the static site
wording, structured data of single facts, budgets and the legal pages.

Next, in this order:

1. *The rest of the client*: schools by name, the admin controls of the sheet.
2. *Local archives* (`backup_local_store.py`) with their retention.
3. *Runner*: the scan of `batch` with its limit and its stop at the first failure.
