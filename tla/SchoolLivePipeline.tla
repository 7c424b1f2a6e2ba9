------------------------- MODULE SchoolLivePipeline -------------------------
(***************************************************************************)
(* The owner's side of a school change, end to end: one runner process     *)
(* takes requests from the queue (SchoolChangeQueue), changes the SQLite   *)
(* source (SchoolLiveSource), and deploys and observes the public site.    *)
(*   scripts/local-data/school_live_runner.py      state.json, one command *)
(*   scripts/local-data/school_live_controller.py  run_request, reject_... *)
(*   scripts/local-data/school_live_publish.py     deploy, recover, observe*)
(*                                                                         *)
(* Four stores that share no transaction must agree: the queue's rows, the *)
(* source with its receipts, the job journal and state.json of the owner's *)
(* machine, and the site.  The process may stop between any two steps      *)
(* (Stop): a crash, a lost RPC response after its effect, a deadline, a     *)
(* refused check all end the command there.  Restarting is running another *)
(* command; state.json, the journal and the source survive.                *)
(*                                                                         *)
(* The lock file admits one process (state_lock), so local reads are of    *)
(* stable data; rows are read into a snapshot that goes stale, because     *)
(* admins, the clock and the owner's own manual RPCs go on meanwhile.      *)
(***************************************************************************)
EXTENDS Naturals, Sequences, FiniteSets

CONSTANTS
  Deviations, Publications, Derived, Edits, Department, NewValue, FirstValue,
  Builds, Evidence,
  MaxCohort, MaxRevision,
  ManualFail,        \* does the owner call fail_school_change by hand?
  OtherReleases,     \* do other releases replace the production deployment?
  None

VARIABLES
  row, consent,      \* the queue
  tip, receipts,     \* the source
  job,               \* the journal of each request's job directory
  runner,            \* state.json
  site,              \* Cloudflare: what is deployed, what was uploaded
  proc               \* the running command and its snapshot

queueVars == <<row, consent>>
sourceVars == <<tip, receipts>>
vars == <<row, consent, tip, receipts, job, runner, site, proc>>

Requests == Deviations \cup Publications

Src == INSTANCE SchoolLiveSource
         WITH Corrections <- Deviations, NoReceipt <- None

Contents == Src!Contents

\* A generated candidate: what it was exported from, and which build it is.
Candidates == [source : Contents, build : Builds]

Q == INSTANCE SchoolChangeQueue
       WITH Sources <- Contents, Generations <- Contents, Pins <- Candidates

\* Ids are never shared, and none of the values a column holds is NULL.
ASSUME PipelineAssumption ==
  /\ Deviations \cap (Publications \cup Edits) = {}
  /\ Derived \subseteq Deviations
  /\ IsFiniteSet(Deviations)
  /\ MaxCohort \in Nat
  /\ MaxRevision \in [Requests -> Nat]
  /\ None \notin Requests \cup Evidence \cup Q!FailureCodes
  /\ None \notin {"adopted", "rejected", "publication_confirmed"}
  /\ \A x \in Contents : x # None
  /\ \A x \in Candidates : x # None
  /\ \A x \in Src!Receipt : x # None

----------------------------------------------------------------------------
(* The owner's own stores.                                                 *)

\* What production may show: the verified baseline, one of our uploads, or a
\* release of someone else.
Releases == Publications \cup {"baseline", "other"}

\* Journal records of a job, each the last of its stage; epoch is the anchor
\* its identity record names, 0 while the directory does not exist.
Job == [epoch      : Nat,
        claim      : Nat,                        \* token of the last claim
        intent     : {None} \cup Contents,       \* base of the fixed edit
        candidate  : {None} \cup Candidates,
        publishing : BOOLEAN,
        previous   : {None} \cup Releases,       \* of deploy-intent.json
        deployment : BOOLEAN,
        observation: {None} \cup Evidence,
        evidence   : {None} \cup Contents]       \* tip of reject-evidence

NoJob == [epoch |-> 0, claim |-> 0, intent |-> None, candidate |-> None,
          publishing |-> FALSE, previous |-> None, deployment |-> FALSE,
          observation |-> None, evidence |-> None]

\* state.json.  epoch counts the anchors, whose files differ even when the
\* contents do not.
Runner == [anchor    : Contents,
           epoch     : Nat \ {0},
           history   : Seq(Deviations),
           completed : [Requests -> {None, "adopted", "rejected",
                                     "publication_confirmed"}]]

\* started is upload-started.json; an upload once started lands or never does.
Site == [canonical : Releases,
         content   : Contents,
         started   : SUBSET Publications,
         landed    : SUBSET Publications]

\* Where a command can be; the names are of the step it takes next.
RunSteps == {"claim", "claiming", "claimed", "intent", "apply", "ackAdopted",
             "generate", "ackGenerated", "preflight", "deploy", "spawn",
             "settle", "observe", "ackConfirmed"}
RejectSteps == {"rejectOpen", "rejectIntent", "cancel", "evidence",
                "reject"}
RecordSteps == {"recordAdopted", "recordConfirmed", "recordRejected"}

Proc == [pc  : {"idle", "open"} \cup RunSteps \cup RejectSteps \cup RecordSteps,
         req : {None} \cup Requests,
         q   : Q!Row,                \* control.queue, the last row received
         tip : Contents,             \* the source content the command read
         ret : {None} \cup RunSteps, \* where to go on once claimed
         retried : BOOLEAN]          \* the ACK or rejection was sent once

NoProc == [pc |-> "idle", req |-> None, q |-> Q!NoRow, tip |-> {},
           ret |-> None, retried |-> FALSE]

Init ==
  /\ Q!QueueInit
  /\ Src!SourceInit
  /\ job = [r \in Requests |-> NoJob]
  /\ runner = [anchor |-> {}, epoch |-> 1, history |-> <<>>,
               completed |-> [r \in Requests |-> None]]
  /\ site = [canonical |-> "baseline", content |-> {},
             started |-> {}, landed |-> {}]
  /\ proc = NoProc

Listed(r) == \E i \in 1..Len(runner.history) : runner.history[i] = r

\* The history with a correction whose local commit the last command made
\* but did not live to record.
LocalHistory(r) ==
  IF /\ r \in Deviations /\ job[r].intent # None
     /\ receipts[r] # None /\ ~ Listed(r)
  THEN Append(runner.history, r)
  ELSE runner.history

Req == proc.req
At(pc) == proc.pc = pc
Goto(pc) == proc' = [proc EXCEPT !.pc = pc]

\* The request is done but for its record in state.json, which needs no snapshot.
ToRecord(pc) == proc' = [NoProc EXCEPT !.pc = pc, !.req = Req]

\* The base a command claims with: the saved intent's, else the current tip.
BaseSource == IF job[Req].intent # None THEN job[Req].intent ELSE proc.tip

----------------------------------------------------------------------------
(* A command starts.                                                       *)

\* run-one or a batch row: the job directory is opened before anything else
\* is known of the request, and belongs to the anchor it was made under.
Run(r) ==
  /\ At("idle")
  /\ row[r].state # "absent"
  /\ job[r].epoch \in {0, runner.epoch}
  /\ job' = [job EXCEPT ![r].epoch = runner.epoch]
  /\ proc' = [NoProc EXCEPT !.pc = "open", !.req = r]
  /\ UNCHANGED <<queueVars, sourceVars, runner, site>>

\* Wrong on purpose: a request for an older generation will do.
SomeGeneration(r) == row[r].expected \subseteq runner.anchor

\* The request was made for the generation the anchor was published as.
SameGeneration(r) == row[r].expected = runner.anchor

\* The row is read, the anchor's generation compared and the chain verified.
OpenDeviation(d) ==
  /\ At("open") /\ Req = d
  /\ SameGeneration(d)
  /\ Src!ChainHolds(runner.anchor, LocalHistory(d))
  /\ LET reconciled == /\ job[d].intent # None
                       /\ d \in Src!Applied(LocalHistory(d))
     IN /\ reconciled => Src!Answers(d, job[d].intent)
        /\ IF reconciled /\ row[d].state = "adopted"
           THEN /\ row[d].adopted = tip
                /\ ToRecord("recordAdopted")
           ELSE proc' = [proc EXCEPT !.pc = "claim", !.ret = "intent",
                                     !.q = row[d], !.tip = tip]
  /\ UNCHANGED <<queueVars, sourceVars, job, runner, site>>

\* Wrong on purpose: what the queue calls confirmed is recorded without a look
\* at the source.
OpenConfirmedAtOnce(p) ==
  /\ At("open") /\ Req = p
  /\ SameGeneration(p)
  /\ IF row[p].state = "publication_confirmed"
     THEN job[p].candidate # None /\ job[p].observation # None /\ ToRecord("recordConfirmed")
     ELSE /\ Src!ChainHolds(runner.anchor, runner.history)
          /\ row[p].included = Src!Applied(runner.history)
          /\ proc' = [proc EXCEPT !.pc = "claim", !.ret = "generate",
                                  !.q = row[p], !.tip = tip]
  /\ UNCHANGED <<queueVars, sourceVars, job, runner, site>>

OpenPublication(p) ==
  /\ At("open") /\ Req = p
  /\ SameGeneration(p)
  /\ Src!ChainHolds(runner.anchor, runner.history)
  /\ row[p].included = Src!Applied(runner.history)
  /\ IF row[p].state = "publication_confirmed"
     THEN /\ job[p].candidate # None /\ job[p].observation # None
          /\ job[p].candidate.source = tip
          /\ row[p].pins = job[p].candidate
          /\ ToRecord("recordConfirmed")
     ELSE proc' = [proc EXCEPT !.pc = "claim", !.ret = "generate",
                               !.q = row[p], !.tip = tip]
  /\ UNCHANGED <<queueVars, sourceVars, job, runner, site>>

----------------------------------------------------------------------------
(* _Control: claim and checkpoint.                                         *)

\* claim() re-reads the row: a live lease is reused only if this job's last
\* journaled claim holds it.
ClaimRead ==
  /\ At("claim")
  /\ row[Req].live => job[Req].claim = row[Req].token
  /\ proc' = [proc EXCEPT !.q = row[Req],
                          !.pc = IF row[Req].live THEN proc.ret ELSE "claiming"]
  /\ UNCHANGED <<queueVars, sourceVars, job, runner, site>>

ClaimCall ==
  /\ At("claiming")
  /\ Q!Claim(Req, proc.q.revision, BaseSource)
  /\ proc' = [proc EXCEPT !.pc = "claimed", !.q = row'[Req]]
  /\ UNCHANGED <<sourceVars, job, runner, site>>

ClaimJournal ==
  /\ At("claimed")
  /\ job' = [job EXCEPT ![Req].claim = proc.q.token]
  /\ Goto(proc.ret)
  /\ UNCHANGED <<queueVars, sourceVars, runner, site>>

\* Steps that are preceded by control.checkpoint().
Checkpoints == {"intent", "ackAdopted", "generate", "ackGenerated",
                "preflight", "deploy", "settle", "observe", "ackConfirmed"}

\* The lease has run out: claim again, then go on where the command was.
Reclaim ==
  /\ proc.pc \in Checkpoints
  /\ ~ proc.q.live
  /\ proc' = [proc EXCEPT !.pc = "claim", !.ret = proc.pc]
  /\ UNCHANGED <<queueVars, sourceVars, job, runner, site>>

\* The lease is due for renewal.  The checkpoint before the local commit may
\* renew too; if it has to claim again the commit is refused, and the command
\* ends with no more done than if it had stopped after an earlier claim.
RenewLease ==
  /\ proc.pc \in Checkpoints \cup {"apply"}
  /\ proc.q.live
  /\ Q!Renew(Req, proc.q.token, proc.q.revision)
  /\ proc' = [proc EXCEPT !.q = row'[Req]]
  /\ UNCHANGED <<sourceVars, job, runner, site>>

\* Past a checkpoint: the snapshot's lease still runs.
Leased == proc.q.live

\* An ACK, sent at most twice; done is where its response leads.
Acked(done) ==
  \/ IF done \in RecordSteps THEN ToRecord(done)
     ELSE proc' = [proc EXCEPT !.pc = done, !.q = row'[Req], !.retried = FALSE]
  \/ /\ ~ proc.retried      \* effect, but the response was lost
     /\ proc' = [proc EXCEPT !.retried = TRUE]

----------------------------------------------------------------------------
(* run_request of a correction.                                            *)

\* The intent is on disk before the source can change.
WriteIntent ==
  /\ At("intent") /\ Leased
  /\ job' = [job EXCEPT ![Req].intent = BaseSource]
  /\ Goto("apply")
  /\ UNCHANGED <<queueVars, sourceVars, runner, site>>

\* process_request, operation "adopt": the local commit.
Apply ==
  /\ At("apply") /\ Leased
  /\ proc.q.state \in {"claimed", "adopted"}
  /\ receipts[Req] = None => proc.q.state = "claimed"
  /\ Src!WorkerAdopt(Req, job[Req].intent, row[Req].expected)
  /\ Goto("ackAdopted")
  /\ UNCHANGED <<queueVars, job, runner, site>>

AckAdopted ==
  /\ At("ackAdopted") /\ Leased
  /\ LET target == receipts[Req].target
     IN \/ Q!AckAdopted(Req, proc.q.token, target)
        \/ /\ Q!AckRepeated(Req, proc.q.token, "adopted", target, None, None, None)
           /\ UNCHANGED queueVars
  /\ Acked("recordAdopted")
  /\ UNCHANGED <<sourceVars, job, runner, site>>

RecordAdopted ==
  /\ At("recordAdopted")
  /\ runner' = [runner EXCEPT
                  !.history = IF Listed(Req) THEN @ ELSE Append(@, Req),
                  !.completed[Req] = "adopted"]
  /\ proc' = NoProc
  /\ UNCHANGED <<queueVars, sourceVars, job, site>>

----------------------------------------------------------------------------
(* run_request of a publication.                                           *)

NewCandidates == {[source |-> tip, build |-> b] : b \in Builds}

\* Wrong on purpose: every command generates again.
AlwaysNew(p) == NewCandidates

\* A candidate once journaled is the one every later command goes on with.
CandidatesOf(p) ==
  IF job[p].candidate = None THEN NewCandidates ELSE {job[p].candidate}

\* publisher.generate and the candidate record.
Generate ==
  /\ At("generate") /\ Leased
  /\ \E c \in CandidatesOf(Req) :
       /\ c.source = proc.tip
       /\ job' = [job EXCEPT ![Req].candidate = c]
  /\ Goto("ackGenerated")
  /\ UNCHANGED <<queueVars, sourceVars, runner, site>>

AckGenerated ==
  /\ At("ackGenerated") /\ Leased
  /\ LET c == job[Req].candidate
         recs == Src!Applied(runner.history)
     IN IF proc.q.state = "generated"
        THEN /\ proc.q.pins = c /\ proc.q.receipts = recs
             /\ Goto("preflight")
             /\ UNCHANGED queueVars
        ELSE /\ \/ Q!AckGenerated(Req, proc.q.token, c.source, c, recs)
                \/ /\ Q!AckRepeated(Req, proc.q.token, "generated", c.source, c, recs, None)
                   /\ UNCHANGED queueVars
             /\ Acked("preflight")
  /\ UNCHANGED <<sourceVars, job, runner, site>>

PreflightHolds ==
  Q!PreflightPasses(Req, proc.q.token, proc.q.revision, job[Req].candidate.source,
                    job[Req].candidate, Src!Applied(runner.history))

\* The last check before the site is touched, and the publishing record.
Preflight ==
  /\ At("preflight") /\ Leased
  /\ Src!ChainHolds(runner.anchor, runner.history)
  /\ PreflightHolds
  /\ job' = [job EXCEPT ![Req].publishing = TRUE]
  /\ Goto(IF job[Req].deployment THEN "observe"
          ELSE IF Req \in site.started THEN "settle"
          ELSE "deploy")
  /\ UNCHANGED <<queueVars, sourceVars, runner, site>>

\* deploy: its intent names what production shows, now and on every retry;
\* then a second preflight, just before the uploader is started.
DeployPreflight ==
  /\ At("deploy") /\ Leased
  /\ Req \notin site.started
  /\ job[Req].previous \in {None, site.canonical}
  /\ PreflightHolds
  /\ job' = [job EXCEPT ![Req].previous = site.canonical]
  /\ Goto("spawn")
  /\ UNCHANGED <<queueVars, sourceVars, runner, site>>

\* starting(): the preflight is still fresh, then upload-started.json.  What
\* happens to the rows in between goes unnoticed.
Spawn ==
  /\ At("spawn") /\ Leased
  /\ site' = [site EXCEPT !.started = @ \cup {Req}]
  /\ Goto("settle")
  /\ UNCHANGED <<queueVars, sourceVars, job, runner>>

\* Wrong on purpose: an upload that was started is taken to be in production.
UploadStarted(p) == p \in site.started

\* The deployment with the publication's marker is the canonical one.
InProduction(p) == p \in site.landed /\ site.canonical = p

\* The uploaded deployment is found, and is in production.
Settle ==
  /\ At("settle") /\ Leased
  /\ InProduction(Req)
  /\ job' = [job EXCEPT ![Req].deployment = TRUE]
  /\ Goto("observe")
  /\ UNCHANGED <<queueVars, sourceVars, runner, site>>

\* Every public byte is fetched and compared with the candidate.
Observe ==
  /\ At("observe") /\ Leased
  /\ InProduction(Req)
  /\ site.content = job[Req].candidate.source
  /\ \E ev \in Evidence : job' = [job EXCEPT ![Req].observation = ev]
  /\ Goto("ackConfirmed")
  /\ UNCHANGED <<queueVars, sourceVars, runner, site>>

AckConfirmed ==
  /\ At("ackConfirmed") /\ Leased
  /\ Src!ChainHolds(runner.anchor, runner.history)
  /\ LET c == job[Req].candidate
         recs == Src!Applied(runner.history)
         ev == job[Req].observation
     IN \/ Q!AckConfirmed(Req, proc.q.token, c.source, c, recs, ev)
        \/ /\ Q!AckRepeated(Req, proc.q.token, "publication_confirmed",
                            c.source, c, recs, ev)
           /\ UNCHANGED queueVars
  /\ Acked("recordConfirmed")
  /\ UNCHANGED <<sourceVars, job, runner, site>>

\* The confirmed candidate is the new anchor; its history starts over.
RecordConfirmed ==
  /\ At("recordConfirmed")
  /\ runner' = [anchor |-> job[Req].candidate.source,
                epoch |-> runner.epoch + 1,
                history |-> <<>>,
                completed |-> [r \in Requests |->
                                 IF r \in {Req} \cup row[Req].included
                                 THEN "publication_confirmed"
                                 ELSE runner.completed[r]]]
  /\ proc' = NoProc
  /\ UNCHANGED <<queueVars, sourceVars, job, site>>
----------------------------------------------------------------------------
(* reject_request.                                                         *)

\* The row and the source are read; the directory of a job that is already
\* there keeps its anchor if the request is stale.
RejectOpens(r) ==
  IF SameGeneration(r)
  THEN job[r].epoch \in {0, runner.epoch}
  ELSE r \in Deviations /\ Src!ChainHolds(runner.anchor, runner.history)

Reject(r) ==
  /\ At("idle")
  /\ row[r].state # "absent"
  /\ RejectOpens(r)
  /\ job' = [job EXCEPT ![r].epoch = IF @ = 0 THEN runner.epoch ELSE @]
  /\ proc' = [NoProc EXCEPT !.pc = "rejectOpen", !.req = r,
                            !.q = row[r], !.tip = tip]
  /\ UNCHANGED <<queueVars, sourceVars, runner, site>>

\* Nothing was generated or published for it, as far as the journal says.
NothingJournaled(r) ==
  /\ job[r].candidate = None /\ ~ job[r].publishing
  /\ ~ job[r].deployment /\ job[r].observation = None

\* Already rejected: only the record in state.json is missing.
RejectReconciles ==
  /\ At("rejectOpen") /\ NothingJournaled(Req)
  /\ proc.q.state = "rejected"
  /\ job[Req].evidence = proc.tip
  /\ ToRecord("recordRejected")
  /\ UNCHANGED <<queueVars, sourceVars, job, runner, site>>

\* What both kinds need of the row that was read.
Releasable(q) ==
  /\ ~ q.live
  /\ q.state \in {"received", "claimed", "blocked"}
  /\ q.pins = None /\ q.receipts = None

\* The review a correction must pass before its tombstone is written.
CancelReview(d, q, source) ==
  /\ NothingJournaled(d) /\ Releasable(q)
  /\ q.adopted = None
  /\ receipts[d] # None => receipts[d].outcome = "cancelled"
  /\ job[d].intent = None => q.claimed \in {None, source}

\* Wrong on purpose: with an intent on disk the tombstone is left out.
RejectWithoutTombstone(d) ==
  /\ At("rejectOpen") /\ Req = d
  /\ CancelReview(d, proc.q, proc.tip)
  /\ Goto(IF job[d].intent = None THEN "rejectIntent" ELSE "evidence")
  /\ UNCHANGED <<queueVars, sourceVars, job, runner, site>>

RejectDeviation(d) ==
  /\ At("rejectOpen") /\ Req = d
  /\ CancelReview(d, proc.q, proc.tip)
  /\ Goto(IF job[d].intent = None THEN "rejectIntent" ELSE "cancel")
  /\ UNCHANGED <<queueVars, sourceVars, job, runner, site>>

\* The review of a publication and of its members.  (The members are read one
\* by one; reject_school_change repeats the checks that could have changed.)
ReleaseReview(p, q) ==
  /\ NothingJournaled(p) /\ Releasable(q)
  /\ Src!ChainHolds(runner.anchor, runner.history)
  /\ Src!Applied(runner.history) \subseteq q.included
  /\ \A d \in q.included :
       /\ row[d].pubId = p /\ ~ row[d].live /\ row[d].pins = None
       /\ row[d].state \notin {"generated", "publication_confirmed"}
       /\ row[d].state = "adopted" => d \in Src!Applied(runner.history)

RejectPublication(p) ==
  /\ At("rejectOpen") /\ Req = p
  /\ ReleaseReview(p, proc.q)
  /\ Goto("evidence")
  /\ UNCHANGED <<queueVars, sourceVars, job, runner, site>>

RejectIntent ==
  /\ At("rejectIntent")
  /\ job' = [job EXCEPT ![Req].intent = proc.tip]
  /\ Goto("cancel")
  /\ UNCHANGED <<queueVars, sourceVars, runner, site>>

\* process_request, operation "cancel"; its receipt must be of the tip read.
Cancel ==
  /\ At("cancel")
  /\ Src!WorkerCancel(Req, job[Req].intent)
  /\ IF tip = proc.tip THEN Goto("evidence") ELSE proc' = NoProc
  /\ UNCHANGED <<queueVars, job, runner, site>>

\* The evidence of the review is journaled before it is sent.
JournalEvidence ==
  /\ At("evidence")
  /\ job' = [job EXCEPT ![Req].evidence = proc.tip]
  /\ Goto("reject")
  /\ UNCHANGED <<queueVars, sourceVars, runner, site>>

\* reject_school_change, sent at most twice.
RejectCall ==
  /\ At("reject")
  /\ \/ Req \in Deviations /\ Q!RejectDeviation(Req, proc.q.revision)
     \/ Req \in Publications /\ Q!RejectPublication(Req, proc.q.revision)
     \/ row[Req].state = "rejected" /\ proc.retried /\ UNCHANGED queueVars
  /\ Acked("recordRejected")
  /\ UNCHANGED <<sourceVars, job, runner, site>>

RecordRejected ==
  /\ At("recordRejected")
  /\ runner' = [runner EXCEPT !.completed[Req] = "rejected"]
  /\ proc' = NoProc
  /\ UNCHANGED <<queueVars, sourceVars, job, site>>

----------------------------------------------------------------------------
(* Everything else.                                                        *)

\* The command ends where it is: a crash, a kill, a deadline, a lost response
\* that is not retried, or a check that fails.
Stop ==
  /\ ~ At("idle")
  /\ proc' = NoProc
  /\ UNCHANGED <<queueVars, sourceVars, job, runner, site>>

\* Contents an admin may have on the screen: any the site has ever shown.
Shown == {{}} \cup {job[p].candidate.source : p \in site.landed}

Admin ==
  /\ \E g \in Shown :
       \/ \E d \in Deviations : Q!RequestDeviation(d, g)
       \/ \E p \in Publications : Q!RequestPublication(p, g)
  /\ UNCHANGED <<sourceVars, job, runner, site, proc>>

ConsentChanges ==
  /\ \E d \in Deviations : Q!ConsentChanges(d)
  /\ UNCHANGED <<sourceVars, job, runner, site, proc>>

\* lease_until passes, in the row and in the snapshot of it.
LeaseExpires(r) ==
  /\ \/ Q!LeaseExpires(r)
     \/ ~ row[r].live /\ Req = r /\ proc.q.live /\ UNCHANGED queueVars
  /\ proc' = IF Req = r THEN [proc EXCEPT !.q.live = FALSE] ELSE proc
  /\ UNCHANGED <<sourceVars, job, runner, site>>

\* The owner calls fail_school_change by hand; no program of src/ does.
FailByHand(r) ==
  /\ ManualFail
  /\ \E code \in Q!FailureCodes : Q!Fail(r, row[r].token, code)
  /\ UNCHANGED <<sourceVars, job, runner, site, proc>>

\* A started upload becomes the production deployment; or it never does.
UploadLands(p) ==
  /\ p \in site.started \ site.landed
  /\ site' = [site EXCEPT !.canonical = p,
                          !.content = job[p].candidate.source,
                          !.landed = @ \cup {p}]
  /\ UNCHANGED <<queueVars, sourceVars, job, runner, proc>>

\* Production is replaced by a release that leaves the school data alone.
OtherRelease ==
  /\ OtherReleases /\ site.canonical # "other"
  /\ site' = [site EXCEPT !.canonical = "other"]
  /\ UNCHANGED <<queueVars, sourceVars, job, runner, proc>>

\* Another tool edits the source, against the rule that only one owner does.
OtherEdit ==
  /\ \E e \in Edits : Src!OtherEdit(e)
  /\ UNCHANGED <<queueVars, job, runner, site, proc>>

Command ==
  \/ \E r \in Requests : Run(r) \/ Reject(r)
  \/ \E d \in Deviations : OpenDeviation(d) \/ RejectDeviation(d)
  \/ \E p \in Publications : OpenPublication(p) \/ RejectPublication(p)
  \/ ClaimRead \/ ClaimCall \/ ClaimJournal \/ Reclaim \/ RenewLease
  \/ WriteIntent \/ Apply \/ AckAdopted \/ RecordAdopted
  \/ Generate \/ AckGenerated \/ Preflight \/ DeployPreflight \/ Spawn
  \/ Settle \/ Observe \/ AckConfirmed \/ RecordConfirmed
  \/ RejectReconciles \/ RejectIntent \/ Cancel
  \/ JournalEvidence \/ RejectCall \/ RecordRejected

Environment ==
  \/ Admin \/ ConsentChanges \/ Stop \/ OtherRelease \/ OtherEdit
  \/ \E r \in Requests : LeaseExpires(r) \/ FailByHand(r)
  \/ \E p \in Publications : UploadLands(p)

Next == Command \/ Environment

Spec == Init /\ [][Next]_vars

----------------------------------------------------------------------------
(* What the four stores guarantee together.                                *)

PipelineTypeOK ==
  /\ Q!QueueTypeOK /\ Src!SourceTypeOK
  /\ job \in [Requests -> Job]
  /\ runner \in Runner
  /\ site \in Site
  /\ proc \in Proc

Locally(outcome) == {d \in Deviations : Src!HasReceipt(d, outcome)}
Recorded == {runner.history[i] : i \in 1..Len(runner.history)}

\* A change is never both adopted and cancelled, wherever the two attempts
\* stopped: the queue says adopted only with the change and its receipt in the
\* source, and rejected only with the tombstone there (controller 477-513,
\* worker 158-177).
QueueAgreesWithSource ==
  \A d \in Deviations :
    /\ row[d].adopted # None =>
         d \in Locally("adopted") /\ receipts[d].target = row[d].adopted
    /\ row[d].state = "rejected" => d \in Locally("cancelled") /\ d \notin tip

\* What a publication is pinned to is exactly the content the admin saw plus
\* the cohort, nothing else (SQL 17-19, controller 326).
PublishesExactlyItsCohort ==
  \A p \in Publications : row[p].pins # None =>
    row[p].pins.source = row[p].expected \cup row[p].included

\* From the candidate until the confirmation no correction changes the source:
\* what was generated is still what the source holds (SQL 17-19).
SourceFrozenWhilePublishing ==
  \A p \in Publications : Q!Pending(p) /\ job[p].candidate # None =>
    tip \cap Deviations = job[p].candidate.source \cap Deviations

\* An upload that may have started is never given up: its publication keeps
\* the pins of the one candidate uploaded, and is never rejected (controller
\* 367-377, publish 830-882).  It is confirmed only after that upload was in
\* production and its bytes were observed (controller 378-389).
UploadIsPinned ==
  /\ \A p \in site.started :
       /\ row[p].pins = job[p].candidate /\ row[p].pins # None
       /\ row[p].state \in {"generated", "publication_confirmed", "blocked"}
  /\ \A p \in Publications : row[p].state = "publication_confirmed" =>
       /\ p \in site.landed
       /\ row[p].publication = job[p].observation /\ row[p].publication # None

\* state.json never says more than the queue: a request it calls completed is
\* so there, and its anchor is the baseline or a confirmed publication
\* (runner 283-306, controller 435-438).  It says less only by a commit that a
\* command did not live to record: the source is the anchor, the history and at
\* most one such commit, which can be found again, because its intent was on
\* disk first (controller 270-278, 311-314). What it has recorded it never
\* loses: also when a publication is recorded late, after corrections of the old
\* anchor were adopted, no completed one is dropped with the history
\* (controller 323, 328; runner 301-306).
StateFileIsTruthful ==
  /\ LET doubt == (tip \cap Deviations) \ (runner.anchor \cup Recorded)
     IN /\ (runner.anchor \cap Deviations) \cup Recorded \subseteq tip
        /\ Cardinality(doubt) <= 1
        /\ \A d \in doubt : job[d].intent # None /\ runner.completed[d] # "adopted"
  /\ \A r \in Requests :
       /\ runner.completed[r] = "adopted" => row[r].adopted # None
       /\ runner.completed[r] \in {"rejected", "publication_confirmed"} =>
            row[r].state = runner.completed[r]
  /\ runner.anchor # {} =>
       \E p \in Publications : /\ row[p].state = "publication_confirmed"
                               /\ row[p].pins.source = runner.anchor

\* The site never goes back to an earlier content, also when an upload lands
\* late: no adopted correction disappears from the public site
\* (publish 824-868, 805-822).
SiteOnlyGrows == [][site.content \subseteq site'.content]_vars

\* The correction gave its department another value than it had.
ChangedTheValue(c) ==
  NewValue[c] # Src!ActiveValue(receipts[c].base, Department[c])

\* No lost update: a value that a correction changed is replaced only by one
\* whose author was shown the content with that change.  The worker compares
\* values only (worker 199), so of two changes that each undo the other the
\* second could slip in unseen; it does not, because corrections are taken for
\* one published generation at a time, in which the first to change the value
\* shuts out all others of the department (controller 267).
NoBlindOverwrite ==
  \A c, d \in Locally("adopted") :
    /\ Department[c] = Department[d]
    /\ c \in receipts[d].base /\ ChangedTheValue(c)
    => c \in row[d].expected

----------------------------------------------------------------------------
(* The life cycle as a reader of the source and of the site sees it: what  *)
(* the queue says plays no part in it, only that the request exists.       *)

TruePhase(d) ==
  IF d \in site.content THEN "public"
  ELSE IF d \in tip THEN "adopted"
  ELSE IF Src!HasReceipt(d, "cancelled") THEN "cancelled"
  ELSE IF row[d].state # "absent" THEN "pending"
  ELSE "none"

\* A publication holds its cohort until its upload is in production.
Holding == {p \in Publications : Q!Pending(p) /\ p \notin site.landed}

Lifecycle == INSTANCE SchoolChangeLifecycle
  WITH Corrections <- Deviations,
       NoCohort <- None,
       phase <- [d \in Deviations |-> TruePhase(d)],
       frozen <- IF Holding = {} THEN None
                 ELSE row[CHOOSE p \in Holding : TRUE].included

\* With one owner of the source, and no failures reported by hand, the change
\* in SQLite, the tombstones and the public site follow the life cycle: while
\* a cohort is frozen only its members are adopted, all its members become
\* public in one step, and nothing public or cancelled changes again.
PipelineImplementsLifecycle == Lifecycle!Spec

----------------------------------------------------------------------------
(* What the repository says of rejection and confirmation, and the code does *)
(* not always do.                                                          *)

\* Between commands, with every local commit and every confirmation recorded.
AllRecorded ==
  /\ At("idle")
  /\ tip = runner.anchor \cup Recorded
  /\ \A p \in Publications : row[p].state = "publication_confirmed" =>
       runner.completed[p] = "publication_confirmed"

\* "or release an ungenerated publication cohort": so does a publication that
\* no command has touched yet and on whose members nobody works.
UngeneratedCohortCanBeReleased ==
  \A p \in Publications :
    /\ AllRecorded /\ Releasable(row[p]) /\ job[p] = NoJob
    /\ \A d \in row[p].included : ~ row[d].live
    => RejectOpens(p) /\ ReleaseReview(p, row[p])

=============================================================================
