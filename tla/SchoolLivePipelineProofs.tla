----------------------- MODULE SchoolLivePipelineProofs -----------------------
(***************************************************************************)
(* The inductive invariant of SchoolLivePipeline: what holds between the   *)
(* queue, the source, the journals, state.json and the site wherever the   *)
(* running command is, and wherever earlier ones stopped.                  *)
(* At the end: the pipeline implements the abstract life cycle of a        *)
(* correction as a reader of the source and of the site sees it, if no     *)
(* failure is reported by hand: every step of the owner's command, of the  *)
(* uploader and of the rest of the world is a step of                      *)
(* SchoolChangeLifecycle, or changes nothing it tells apart.               *)
(***************************************************************************)
EXTENDS SchoolLivePipeline, FiniteSetTheorems, TLAPS

\* The queue of the pipeline, with what is proved of it.
QP == INSTANCE SchoolChangeQueueProofs
        WITH Sources <- Contents, Generations <- Contents, Pins <- Candidates

----------------------------------------------------------------------------
(* The invariant.                                                          *)

\* The step a command is on its way to: a lease that ran out is claimed again
\* first.
Aim == IF proc.pc \in {"claim", "claiming", "claimed"} THEN proc.ret ELSE proc.pc

CorrectionSteps == {"intent", "apply", "ackAdopted", "recordAdopted"}
PublicationSteps == {"generate", "ackGenerated", "preflight", "deploy", "spawn",
                     "settle", "observe", "ackConfirmed"}

\* The queue's own invariant.
QueueOK == QP!QueueInv /\ QP!RowsSound

\* The source holds a correction exactly when its receipt says so, and only for
\* a request that was made.  What was read of it, it still holds.
SourceOK ==
  /\ \A d \in Deviations :
       /\ d \in tip <=> Src!HasReceipt(d, "adopted")
       /\ receipts[d] # None => row[d].state # "absent" /\ receipts[d].base \subseteq tip
  /\ \A r \in Requests : job[r].intent # None => job[r].intent \subseteq tip

\* A candidate is what the admin saw and the cohort; the queue is pinned to no
\* other; and while its publication is pending, the source holds nothing more
\* and the site nothing else.
CandidatesOK ==
  \A p \in Publications :
    /\ job[p].candidate # None =>
         /\ row[p].state # "absent"
         /\ job[p].candidate.source = row[p].expected \cup row[p].included
         /\ job[p].candidate.source \subseteq tip
         /\ Q!Pending(p) =>
              /\ tip \cap Deviations = job[p].candidate.source \cap Deviations
              /\ site.content \subseteq job[p].candidate.source
    /\ row[p].pins # None => row[p].pins = job[p].candidate

\* An upload is of a pinned candidate, and a confirmed publication was observed
\* in production.
SiteOK ==
  /\ site.landed \subseteq site.started
  /\ \A p \in site.started : row[p].pins # None
  /\ \A p \in Publications : row[p].state = "publication_confirmed" =>
       /\ p \in site.landed
       /\ row[p].publication = job[p].observation /\ row[p].publication # None
  /\ site.content \subseteq tip

\* The local commits state.json does not know of.
Doubt == (tip \cap Deviations) \ (runner.anchor \cup Recorded)

\* What state.json says is so, and what it leaves out is one commit at most.
RecordsOK ==
  /\ (runner.anchor \cap Deviations) \cup Recorded \subseteq tip
  /\ \A c, d \in Doubt : c = d
  /\ \A d \in Doubt : job[d].intent # None
  /\ \A r \in Requests :
       /\ runner.completed[r] = "adopted" => row[r].adopted # None
       /\ runner.completed[r] \in {"rejected", "publication_confirmed"} =>
            row[r].state = runner.completed[r]
  /\ runner.anchor # {} =>
       \E p \in Publications : /\ row[p].state = "publication_confirmed"
                               /\ row[p].pins.source = runner.anchor

\* The corrections of a department a content holds, the last of them to be
\* adopted, and the value they leave: ActiveValue, of any receipts.
Touch(content, x) == {c \in content \cap Deviations : Department[c] = x}
LastOf(rs, content, x) ==
  {c \in Touch(content, x) : Touch(content, x) \ {c} \subseteq rs[c].base}
ValueIn(rs, content, x) ==
  IF LastOf(rs, content, x) = {} THEN FirstValue[x]
  ELSE NewValue[CHOOSE c \in LastOf(rs, content, x) : TRUE]

\* NoBlindOverwrite, in these terms.
NoChangeUnseen(rs, rows) ==
  \A c, d \in Deviations :
    /\ rs[c] # None /\ rs[c].outcome = "adopted"
    /\ rs[d] # None /\ rs[d].outcome = "adopted"
    /\ Department[c] = Department[d] /\ c \in rs[d].base
    /\ NewValue[c] # ValueIn(rs, rs[c].base, Department[c])
    => c \in rows[d].expected

\* What was adopted since the anchor was asked for with the anchor on the
\* screen, and found there the value that the anchor has: so only the last one
\* of a department can have changed it.  The anchor itself holds with every
\* correction what was adopted before.
ValuesOK ==
  /\ NoChangeUnseen(receipts, row)
  /\ \A d \in (tip \cap Deviations) \ runner.anchor :
       /\ row[d].expected = runner.anchor
       /\ ValueIn(receipts, receipts[d].base, Department[d]) =
            ValueIn(receipts, runner.anchor, Department[d])
  /\ \A x : Touch(tip, x) # {} => LastOf(receipts, tip, x) # {}
  /\ \A d \in runner.anchor \cap Deviations :
       receipts[d].base \cap Deviations \subseteq runner.anchor

\* The stores, whatever a command is doing.
StoresOK ==
  /\ QueueOK
  /\ SourceOK
  /\ QueueAgreesWithSource
  /\ ValuesOK
  /\ CandidatesOK
  /\ SiteOK
  /\ RecordsOK

\* What a command works on.
CommandOK ==
  /\ proc.tip \subseteq tip
  /\ ~ At("idle") =>
       /\ Req \in Requests /\ row[Req].state # "absent"
       /\ proc.q.state \in Q!Terminal => row[Req].state = proc.q.state
  /\ proc.pc \in {"claim", "claiming", "claimed"} => proc.ret \in Checkpoints
  /\ Aim \in CorrectionSteps \cup {"rejectIntent", "cancel"} => Req \in Deviations
  /\ Aim \in PublicationSteps \cup {"recordConfirmed"} => Req \in Publications

\* What the source and the queue hold once a command on a correction, or a
\* rejection, has come so far.  Its local commit is the only one that may be
\* missing in state.json.
CorrectionRunOK ==
  /\ Aim \in {"apply", "cancel"} => job[Req].intent # None
  /\ Aim \in {"ackAdopted", "recordAdopted"} => Src!HasReceipt(Req, "adopted")
  /\ Aim = "recordAdopted" => row[Req].adopted # None
  /\ Aim \in {"evidence", "reject"} /\ Req \in Deviations =>
       Src!HasReceipt(Req, "cancelled")
  /\ Aim = "recordRejected" => row[Req].state = "rejected"
  /\ Aim \in CorrectionSteps => Doubt \subseteq {Req}
  /\ Aim \in {"intent", "apply"} => row[Req].expected = runner.anchor

\* The same of a publication.  The tip its command read is the content the
\* admin saw and the cohort, and so is the candidate.
PublicationRunOK ==
  /\ Aim \in {"generate", "ackGenerated"} =>
       proc.tip = row[Req].expected \cup row[Req].included
  /\ Aim \in PublicationSteps => row[Req].expected = runner.anchor
  /\ Aim \in PublicationSteps \ {"ackConfirmed"} =>
       row[Req].state # "publication_confirmed"
  /\ Aim \in (PublicationSteps \ {"generate"}) \cup {"recordConfirmed"} =>
       job[Req].candidate # None
  /\ Aim \in {"deploy", "spawn", "settle", "observe", "ackConfirmed"} =>
       row[Req].pins # None
  /\ Aim = "ackConfirmed" => job[Req].observation # None /\ Req \in site.landed
  /\ Aim = "recordConfirmed" =>
       /\ row[Req].state = "publication_confirmed"
       /\ tip \cap Deviations = job[Req].candidate.source \cap Deviations

\* No pending publication has been generated.
NothingGenerated ==
  \A p \in Publications : Q!Pending(p) => job[p].candidate = None

\* A correction that is about to be adopted was claimed when nothing was
\* generated, and nothing has been since.
ClaimedFirst ==
  /\ Aim \in {"intent", "apply"} /\ proc.pc \notin {"claim", "claiming"}
  /\ receipts[Req] = None /\ proc.q.state = "claimed"
  => NothingGenerated

RunOK ==
  /\ CommandOK
  /\ CorrectionRunOK
  /\ PublicationRunOK
  /\ ClaimedFirst

PipelineInv ==
  /\ PipelineTypeOK
  /\ StoresOK
  /\ RunOK

----------------------------------------------------------------------------
(* The queue of the pipeline is the queue its theorems are about.           *)

\* The ids and values of the pipeline are as the queue assumes.
LEMMA QueueConstants == QP!QueueAssumption
<1>1. /\ Deviations \cap Publications = {}
      /\ None \notin Requests \cup Candidates \cup Evidence \cup Q!FailureCodes
      /\ \A x \in Contents : x # None
      /\ \A x \in SUBSET Deviations : x # None
  BY PipelineAssumption DEF Contents, Src!Contents
<1> QED
  BY <1>1, PipelineAssumption
     DEF QP!QueueAssumption, QP!Requests, Requests, Q!FailureCodes, QP!FailureCodes,
         QP!IsFiniteSet, IsFiniteSet

\* The names of the queue's states, sets and steps mean the same in both.
LEMMA SameQueue ==
  /\ QP!Requests = Requests /\ Q!Requests = Requests
  /\ Q!Row = QP!Row
  /\ Q!QueueTypeOK <=> QP!QueueTypeOK
  /\ \A p : Q!Pending(p) <=> QP!Pending(p)
  /\ Q!Terminal = {"publication_confirmed", "rejected"}
  /\ QP!Terminal = {"publication_confirmed", "rejected"}
  /\ Q!QueueInit <=> QP!QueueInit
  BY DEF QP!Requests, Requests, Q!Row, QP!Row, Q!QueueTypeOK, QP!QueueTypeOK,
         Q!Requests, Q!Pending, QP!Pending, Q!Terminal, QP!Terminal, Q!States,
         QP!States, Q!FailureCodes, QP!FailureCodes, Q!QueueInit, QP!QueueInit,
         Q!NoRow, QP!NoRow

\* So do the leases' steps,
LEMMA SameLeaseSteps ==
  ASSUME NEW r, NEW rev, NEW tok, NEW src, NEW code
  PROVE  /\ Q!Claim(r, rev, src) <=> QP!Claim(r, rev, src)
         /\ Q!Renew(r, tok, rev) <=> QP!Renew(r, tok, rev)
         /\ Q!Fail(r, tok, code) <=> QP!Fail(r, tok, code)
         /\ Q!LeaseExpires(r) <=> QP!LeaseExpires(r)
<1>1. Q!Claim(r, rev, src) <=> QP!Claim(r, rev, src)
  BY DEF Q!Claim, QP!Claim, Q!Claimed, QP!Claimed, Q!ResumedState,
         QP!ResumedState, Q!SameBase, QP!SameBase, Q!CohortHolds, QP!CohortHolds,
         Q!ConsentHolds, QP!ConsentHolds, Q!OwnConsentHolds, QP!OwnConsentHolds,
         Q!InPendingCohort, QP!InPendingCohort, Q!Pending, QP!Pending,
         Q!Terminal, QP!Terminal
<1>2. Q!Renew(r, tok, rev) <=> QP!Renew(r, tok, rev)
  BY DEF Q!Renew, QP!Renew, Q!Renewed, QP!Renewed
<1>3. Q!Fail(r, tok, code) <=> QP!Fail(r, tok, code)
  BY DEF Q!Fail, QP!Fail, Q!Failable, QP!Failable, Q!Blocked, QP!Blocked,
         Q!Terminal, QP!Terminal
<1>4. Q!LeaseExpires(r) <=> QP!LeaseExpires(r)
  BY DEF Q!LeaseExpires, QP!LeaseExpires, Q!Lapsed, QP!Lapsed
<1> QED
  BY <1>1, <1>2, <1>3, <1>4

\* the acknowledgements,
LEMMA SameAcks ==
  ASSUME NEW r, NEW tok, NEW src, NEW pins, NEW recs, NEW ev
  PROVE  /\ Q!AckAdopted(r, tok, src) <=> QP!AckAdopted(r, tok, src)
         /\ Q!AckGenerated(r, tok, src, pins, recs)
              <=> QP!AckGenerated(r, tok, src, pins, recs)
         /\ Q!AckConfirmed(r, tok, src, pins, recs, ev)
              <=> QP!AckConfirmed(r, tok, src, pins, recs, ev)
<1> USE DEF Q!AckGuard, QP!AckGuard, Q!OwnConsentHolds, QP!OwnConsentHolds,
            Q!CohortHolds, QP!CohortHolds, Q!ConsentHolds, QP!ConsentHolds,
            Q!Advance, QP!Advance, Q!AtStage, QP!AtStage, Q!Requests, QP!Requests
<1>1. Q!AckAdopted(r, tok, src) <=> QP!AckAdopted(r, tok, src)
  BY DEF Q!AckAdopted, QP!AckAdopted, Q!Adopted, QP!Adopted
<1>2. Q!AckGenerated(r, tok, src, pins, recs) <=> QP!AckGenerated(r, tok, src, pins, recs)
  BY DEF Q!AckGenerated, QP!AckGenerated, Q!Generated, QP!Generated
<1>3. Q!AckConfirmed(r, tok, src, pins, recs, ev)
        <=> QP!AckConfirmed(r, tok, src, pins, recs, ev)
  BY DEF Q!AckConfirmed, QP!AckConfirmed, Q!Confirmed, QP!Confirmed
<1> QED
  BY <1>1, <1>2, <1>3

\* and the requests, the rejections and the changes of consent.
LEMMA SameRequestsAndRejections ==
  ASSUME NEW r, NEW g, NEW rev
  PROVE  /\ Q!RequestDeviation(r, g) <=> QP!RequestDeviation(r, g)
         /\ Q!RequestPublication(r, g) <=> QP!RequestPublication(r, g)
         /\ Q!RejectDeviation(r, rev) <=> QP!RejectDeviation(r, rev)
         /\ Q!RejectPublication(r, rev) <=> QP!RejectPublication(r, rev)
         /\ Q!ConsentChanges(r) <=> QP!ConsentChanges(r)
<1> USE DEF Q!ConsentHolds, QP!ConsentHolds, Q!Requests, QP!Requests,
            Q!Terminal, QP!Terminal, Q!Received, QP!Received, Q!NoRow, QP!NoRow
<1>1. Q!RequestDeviation(r, g) <=> QP!RequestDeviation(r, g)
  BY DEF Q!RequestDeviation, QP!RequestDeviation
<1>2. Q!RequestPublication(r, g) <=> QP!RequestPublication(r, g)
  BY DEF Q!RequestPublication, QP!RequestPublication, Q!OpenCohort,
         QP!OpenCohort, Q!BoundTo, QP!BoundTo, Q!Pending, QP!Pending,
         Q!Cardinality, QP!Cardinality, Q!IsFiniteSet, QP!IsFiniteSet
<1>3. Q!RejectDeviation(r, rev) <=> QP!RejectDeviation(r, rev)
  BY DEF Q!RejectDeviation, QP!RejectDeviation, Q!RejectGuard, QP!RejectGuard,
         Q!Unadopted, QP!Unadopted, Q!Rejected, QP!Rejected
<1>4. Q!RejectPublication(r, rev) <=> QP!RejectPublication(r, rev)
  BY DEF Q!RejectPublication, QP!RejectPublication, Q!RejectGuard,
         QP!RejectGuard, Q!Rejected, QP!Rejected, Q!Released, QP!Released
<1>5. Q!ConsentChanges(r) <=> QP!ConsentChanges(r)
  BY DEF Q!ConsentChanges, QP!ConsentChanges
<1> QED
  BY <1>1, <1>2, <1>3, <1>4, <1>5

----------------------------------------------------------------------------
(* The records of the owner's machine, field by field.                     *)

\* What no later line of a journal takes back.
SameWork(x, y) ==
  /\ y.intent = x.intent
  /\ y.candidate = x.candidate
  /\ y.observation = x.observation

\* A journal line of a stage the invariant does not speak of.
LEMMA JobMarks ==
  ASSUME NEW x \in Job
  PROVE  /\ \A v \in Nat : /\ [x EXCEPT !.epoch = v] \in Job
                           /\ SameWork(x, [x EXCEPT !.epoch = v])
         /\ \A v \in Nat : /\ [x EXCEPT !.claim = v] \in Job
                           /\ SameWork(x, [x EXCEPT !.claim = v])
         /\ \A v \in BOOLEAN : /\ [x EXCEPT !.publishing = v] \in Job
                               /\ SameWork(x, [x EXCEPT !.publishing = v])
         /\ \A v \in BOOLEAN : /\ [x EXCEPT !.deployment = v] \in Job
                               /\ SameWork(x, [x EXCEPT !.deployment = v])
         /\ \A v \in {None} \cup Releases :
              /\ [x EXCEPT !.previous = v] \in Job
              /\ SameWork(x, [x EXCEPT !.previous = v])
         /\ \A v \in {None} \cup Contents :
              /\ [x EXCEPT !.evidence = v] \in Job
              /\ SameWork(x, [x EXCEPT !.evidence = v])
  BY DEF Job, SameWork

\* The intent, the candidate and the observation.
LEMMA JobWork ==
  ASSUME NEW x \in Job
  PROVE  /\ \A v \in {None} \cup Contents :
              /\ [x EXCEPT !.intent = v] \in Job
              /\ [x EXCEPT !.intent = v].intent = v
              /\ [x EXCEPT !.intent = v].candidate = x.candidate
              /\ [x EXCEPT !.intent = v].observation = x.observation
         /\ \A v \in {None} \cup Candidates :
              /\ [x EXCEPT !.candidate = v] \in Job
              /\ [x EXCEPT !.candidate = v].intent = x.intent
              /\ [x EXCEPT !.candidate = v].candidate = v
              /\ [x EXCEPT !.candidate = v].observation = x.observation
         /\ \A v \in {None} \cup Evidence :
              /\ [x EXCEPT !.observation = v] \in Job
              /\ [x EXCEPT !.observation = v].intent = x.intent
              /\ [x EXCEPT !.observation = v].candidate = x.candidate
              /\ [x EXCEPT !.observation = v].observation = v
  BY DEF Job

\* One journal changes.
LEMMA OneJobChanges ==
  ASSUME job \in [Requests -> Job], NEW r \in Requests, NEW x \in Job,
         job' = [job EXCEPT ![r] = x]
  PROVE  /\ job' \in [Requests -> Job]
         /\ job'[r] = x
         /\ \A q \in Requests : q # r => job'[q] = job[q]
  OBVIOUS

\* A command at one of its steps.
Steps == {"idle", "open"} \cup RunSteps \cup RejectSteps \cup RecordSteps

\* Proc has no other field.
LEMMA ProcFields ==
  ASSUME NEW x \in Proc
  PROVE  /\ x.pc \in Steps /\ x.req \in {None} \cup Requests /\ x.q \in Q!Row
         /\ x.tip \in Contents /\ x.ret \in {None} \cup RunSteps
         /\ x.retried \in BOOLEAN
  BY DEF Proc, Steps

\* The command goes on to another step.
LEMMA ProcGoes ==
  ASSUME proc \in Proc, NEW pc \in Steps, Goto(pc)
  PROVE  /\ proc' \in Proc
         /\ proc'.pc = pc /\ proc'.req = proc.req /\ proc'.q = proc.q
         /\ proc'.tip = proc.tip /\ proc'.ret = proc.ret
  BY DEF Goto, Proc, Steps

\* The command is done but for its record, or ends.
LEMMA ProcEnds ==
  ASSUME proc \in Proc
  PROVE  /\ NoProc \in Proc /\ NoProc.pc = "idle" /\ NoProc.tip = {}
         /\ \A pc \in Steps : ToRecord(pc) =>
              /\ proc' \in Proc
              /\ proc'.pc = pc /\ proc'.req = proc.req /\ proc'.tip = {}
              /\ proc'.q.state = "absent"
<1>1. Q!NoRow \in Q!Row /\ Q!NoRow.state = "absent"
  BY DEF Q!NoRow, Q!Row, Q!States
<1> QED
  BY <1>1 DEF ToRecord, Req, NoProc, Proc, Steps, Contents, Src!Contents

\* The command takes a row for its snapshot.
LEMMA ProcReads ==
  ASSUME proc \in Proc, NEW q \in Q!Row
  PROVE  /\ \A pc \in Steps : proc' = [proc EXCEPT !.q = q, !.pc = pc] =>
              /\ proc' \in Proc
              /\ proc'.pc = pc /\ proc'.req = proc.req /\ proc'.q = q
              /\ proc'.tip = proc.tip /\ proc'.ret = proc.ret
         /\ \A pc \in Steps : proc' = [proc EXCEPT !.pc = pc, !.q = q] =>
              /\ proc' \in Proc
              /\ proc'.pc = pc /\ proc'.req = proc.req /\ proc'.q = q
              /\ proc'.tip = proc.tip /\ proc'.ret = proc.ret
         /\ proc' = [proc EXCEPT !.q = q] =>
              /\ proc' \in Proc
              /\ proc'.pc = proc.pc /\ proc'.req = proc.req /\ proc'.q = q
              /\ proc'.tip = proc.tip /\ proc'.ret = proc.ret
  BY DEF Proc, Steps

\* An ACK was sent: the command goes on, or it has not heard of its effect.
LEMMA ProcAcked ==
  ASSUME proc \in Proc, NEW done \in Steps, Acked(done), row'[Req] \in Q!Row
  PROVE  /\ proc' \in Proc
         /\ proc'.req = proc.req
         /\ \/ /\ proc'.pc = done
               /\ IF done \in RecordSteps
                  THEN proc'.tip = {} /\ proc'.q.state = "absent"
                  ELSE proc'.tip = proc.tip /\ proc'.q = row'[Req]
            \/ /\ proc'.pc = proc.pc /\ proc'.tip = proc.tip
               /\ proc'.q = proc.q /\ proc'.ret = proc.ret
<1>1. CASE done \in RecordSteps /\ ToRecord(done)
  BY <1>1, ProcEnds DEF Req
<1>2. CASE /\ done \notin RecordSteps
           /\ proc' = [proc EXCEPT !.pc = done, !.q = row'[Req], !.retried = FALSE]
  BY <1>2 DEF Proc, Steps
<1>3. CASE proc' = [proc EXCEPT !.retried = TRUE]
  BY <1>3 DEF Proc
<1> QED
  BY <1>1, <1>2, <1>3 DEF Acked

----------------------------------------------------------------------------
(* The pipeline's calls are calls of the queue.                            *)

\* What a step does to the queue is one of its RPCs, the clock or a user.
CallsQueue == [QP!QueueNext]_QP!queueVars

\* A call that records nothing: all but the ACKs and the rejections.
RecordsNothing ==
  [QP!QueueNext]_QP!queueVars /\ QP!RecordsStay /\ QP!NothingEnds

\* Nothing happens in the queue.
LEMMA QueueStays ==
  ASSUME UNCHANGED queueVars
  PROVE  RecordsNothing
  BY DEF queueVars, RecordsNothing, QP!queueVars, QP!RecordsStay, QP!NothingEnds,
         QP!SameRecords

\* Claims, renewals, failures and the clock.
LEMMA LeaseStepsRecordNothing ==
  ASSUME QueueOK, NEW r \in Requests, NEW rev, NEW tok,
         \/ \E src \in Contents : Q!Claim(r, rev, src)
         \/ Q!Renew(r, tok, rev)
         \/ \E code \in Q!FailureCodes : Q!Fail(r, tok, code)
         \/ Q!LeaseExpires(r)
  PROVE  RecordsNothing
<1>1. QP!QueueAssumption /\ QP!QueueInv /\ QP!RowsSound /\ r \in QP!Requests
  BY QueueConstants, SameQueue DEF QueueOK
<1>2. row[r] \in QP!Row /\ MaxRevision[r] \in Nat
  BY <1>1 DEF QP!QueueInv, QP!QueueTypeOK, QP!QueueAssumption
<1>3. /\ row[r].revision \in Nat /\ row[r].token \in Nat
      /\ row[r].state # "absent" => row[r].revision >= 1
      /\ row[r].token <= MaxRevision[r]
  BY <1>1, <1>2 DEF QP!RowsSound, QP!Row
<1>4. ASSUME NEW src \in Contents, QP!Claim(r, rev, src)
      PROVE  QP!LeaseCall(r)
  <2>1. rev = row[r].revision /\ rev < MaxRevision[r] /\ row[r].state # "absent"
    BY <1>4 DEF QP!Claim
  <2>2. rev \in 1..MaxRevision[r]
    BY <1>2, <1>3, <2>1
  <2> QED
    BY <1>4, <2>2 DEF QP!LeaseCall
<1>5. ASSUME QP!Renew(r, tok, rev)
      PROVE  QP!LeaseCall(r)
  <2>1. /\ rev = row[r].revision /\ rev < MaxRevision[r] /\ row[r].state # "absent"
        /\ tok = row[r].token /\ tok # 0
    BY <1>5 DEF QP!Renew
  <2>2. rev \in 1..MaxRevision[r] /\ tok \in 1..MaxRevision[r]
    BY <1>2, <1>3, <2>1
  <2> QED
    BY <1>5, <2>2 DEF QP!LeaseCall
<1>6. ASSUME NEW code \in QP!FailureCodes, QP!Fail(r, tok, code)
      PROVE  QP!LeaseCall(r)
  <2>1. tok = row[r].token /\ tok # 0
    BY <1>6 DEF QP!Fail
  <2>2. tok \in 1..MaxRevision[r]
    BY <1>2, <1>3, <2>1
  <2> QED
    BY <1>6, <2>2 DEF QP!LeaseCall
<1>7. QP!LeaseCall(r) \/ QP!LeaseExpires(r)
  BY <1>4, <1>5, <1>6, SameLeaseSteps DEF Q!FailureCodes, QP!FailureCodes
<1>8. QP!RecordsStay /\ QP!NothingEnds
  BY <1>1, <1>7, QP!LeaseStepsKeepRecords
<1>9. QP!QueueNext
  BY <1>1, <1>7 DEF QP!QueueNext
<1> QED
  BY <1>8, <1>9 DEF RecordsNothing

\* The admin's requests, and changes of consent.
LEMMA OtherStepsRecordNothing ==
  ASSUME QueueOK, NEW g \in Contents,
         \/ \E d \in Deviations : Q!RequestDeviation(d, g)
         \/ \E p \in Publications : Q!RequestPublication(p, g)
         \/ \E d \in Deviations : Q!ConsentChanges(d)
  PROVE  RecordsNothing
<1>1. QP!QueueAssumption /\ QP!QueueInv /\ QP!RowsSound
  BY QueueConstants DEF QueueOK
<1>2. QP!AdminCall \/ \E d \in Deviations : QP!ConsentChanges(d)
  BY SameRequestsAndRejections DEF QP!AdminCall
<1>3. QP!QueueNext
  BY <1>2 DEF QP!QueueNext
<1>4. CASE QP!AdminCall
  BY <1>1, <1>3, <1>4, QP!AdminStepsKeepRecords DEF RecordsNothing
<1>5. CASE \E d \in Deviations : QP!ConsentChanges(d)
  <2>1. UNCHANGED row
    BY <1>5 DEF QP!ConsentChanges
  <2> QED
    BY <1>3, <2>1 DEF RecordsNothing, QP!RecordsStay, QP!NothingEnds,
       QP!SameRecords
<1> QED
  BY <1>2, <1>4, <1>5

----------------------------------------------------------------------------
(* The values of departments.                                              *)

\* The same values, wherever the receipts of what a content holds are the same.
LEMMA SameValues ==
  ASSUME NEW rs, NEW rt, NEW content, NEW x,
         \A c \in content \cap Deviations : rs[c] = rt[c]
  PROVE  /\ LastOf(rs, content, x) = LastOf(rt, content, x)
         /\ ValueIn(rs, content, x) = ValueIn(rt, content, x)
<1>1. LastOf(rs, content, x) = LastOf(rt, content, x)
  BY DEF LastOf, Touch
<1> QED
  BY <1>1 DEF ValueIn

\* Values go by the corrections a content holds.
LEMMA SameTouched ==
  ASSUME NEW rs, NEW g, NEW h, NEW x, g \cap Deviations = h \cap Deviations
  PROVE  /\ Touch(g, x) = Touch(h, x) /\ LastOf(rs, g, x) = LastOf(rs, h, x)
         /\ ValueIn(rs, g, x) = ValueIn(rs, h, x)
<1>1. Touch(g, x) = Touch(h, x)
  BY DEF Touch
<1>2. LastOf(rs, g, x) = LastOf(rs, h, x)
  BY <1>1 DEF LastOf
<1> QED
  BY <1>1, <1>2 DEF ValueIn

\* The value the worker compares with.
LEMMA ActiveIsValue ==
  ASSUME NEW content, NEW x
  PROVE  Src!ActiveValue(content, x) = ValueIn(receipts, content, x)
  BY DEF Src!ActiveValue, Src!LastTouching, Src!Touching, ValueIn, LastOf, Touch

\* A correction of the source was adopted after all its base holds, and the
\* anchor is of what the source holds.
AnchorInTip ==
  /\ runner.anchor \cap Deviations \subseteq tip
  /\ \A d \in Deviations : d \in tip => receipts[d] # None /\ receipts[d].base \subseteq tip

LEMMA AnchorIsInTip == SourceOK /\ RecordsOK => AnchorInTip
  BY DEF SourceOK, RecordsOK, AnchorInTip, Src!HasReceipt

\* Receipts once written stay, and so does what a request was made for: while
\* the source adopts nothing and the anchor stays, the values stay.
LEMMA ValuesStay ==
  ASSUME ValuesOK, SourceOK, RecordsOK, runner'.anchor = runner.anchor,
         tip' \cap Deviations = tip \cap Deviations,
         \A d \in Deviations :
           /\ receipts[d] # None => receipts'[d] = receipts[d]
           /\ receipts[d] = None /\ receipts'[d] # None =>
                receipts'[d].outcome = "cancelled"
           /\ row[d].state # "absent" => row'[d].expected = row[d].expected
  PROVE  ValuesOK'
<1>1. AnchorInTip
  BY AnchorIsInTip
<1>2. \A d \in Deviations : receipts[d] # None =>
        /\ receipts[d].base \subseteq tip /\ row'[d].expected = row[d].expected
        /\ receipts'[d] = receipts[d]
  BY DEF SourceOK
<1>3. ASSUME NEW g, g \cap Deviations \subseteq tip, NEW x
      PROVE  /\ LastOf(receipts', g, x) = LastOf(receipts, g, x)
             /\ ValueIn(receipts', g, x) = ValueIn(receipts, g, x)
  <2>1. \A c \in g \cap Deviations : receipts'[c] = receipts[c]
    BY <1>1, <1>3 DEF AnchorInTip
  <2> QED
    BY <2>1, SameValues
<1>4. NoChangeUnseen(receipts', row')
  <2> SUFFICES ASSUME NEW c \in Deviations, NEW d \in Deviations,
                      receipts'[c] # None, receipts'[c].outcome = "adopted",
                      receipts'[d] # None, receipts'[d].outcome = "adopted",
                      Department[c] = Department[d], c \in receipts'[d].base,
                      NewValue[c] # ValueIn(receipts', receipts'[c].base, Department[c])
               PROVE  c \in row'[d].expected
    BY DEF NoChangeUnseen
  <2>1. receipts[c] # None /\ receipts[d] # None
    OBVIOUS
  <2>2. /\ receipts'[c] = receipts[c] /\ receipts'[d] = receipts[d]
        /\ row'[d].expected = row[d].expected /\ receipts[c].base \subseteq tip
    BY <1>2, <2>1
  <2>3. ValueIn(receipts', receipts[c].base, Department[c]) =
          ValueIn(receipts, receipts[c].base, Department[c])
    BY <1>3, <2>2
  <2> QED
    BY <2>1, <2>2, <2>3 DEF ValuesOK, NoChangeUnseen
<1>5. \A d \in (tip' \cap Deviations) \ runner'.anchor :
        /\ row'[d].expected = runner'.anchor
        /\ ValueIn(receipts', receipts'[d].base, Department[d]) =
             ValueIn(receipts', runner'.anchor, Department[d])
  <2> SUFFICES ASSUME NEW d \in (tip \cap Deviations) \ runner.anchor
               PROVE  /\ row'[d].expected = runner.anchor
                      /\ ValueIn(receipts', receipts'[d].base, Department[d]) =
                           ValueIn(receipts', runner.anchor, Department[d])
    OBVIOUS
  <2>1. receipts[d] # None
    BY <1>1 DEF AnchorInTip
  <2>2. receipts'[d] = receipts[d] /\ row'[d].expected = row[d].expected
        /\ receipts[d].base \subseteq tip
    BY <1>2, <2>1
  <2>3. ValueIn(receipts', receipts[d].base, Department[d]) =
          ValueIn(receipts, receipts[d].base, Department[d])
    BY <1>3, <2>2
  <2>4. ValueIn(receipts', runner.anchor, Department[d]) =
          ValueIn(receipts, runner.anchor, Department[d])
    BY <1>1, <1>3 DEF AnchorInTip
  <2> QED
    BY <2>2, <2>3, <2>4 DEF ValuesOK
<1>6. \A x : Touch(tip', x) # {} => LastOf(receipts', tip', x) # {}
  <2> SUFFICES ASSUME NEW x, Touch(tip', x) # {}
               PROVE  LastOf(receipts', tip', x) # {}
    OBVIOUS
  <2>1. LastOf(receipts', tip', x) = LastOf(receipts', tip, x)
        /\ Touch(tip', x) = Touch(tip, x)
    BY SameTouched
  <2>2. LastOf(receipts', tip, x) = LastOf(receipts, tip, x)
    BY <1>3
  <2> QED
    BY <2>1, <2>2 DEF ValuesOK
<1>7. \A d \in runner'.anchor \cap Deviations :
        receipts'[d].base \cap Deviations \subseteq runner'.anchor
  BY <1>1, <1>2 DEF ValuesOK, AnchorInTip
<1> QED
  BY <1>4, <1>5, <1>6, <1>7 DEF ValuesOK

\* The same, where only rows may have changed.
LEMMA ValuesStayPut ==
  ASSUME ValuesOK, SourceOK, RecordsOK, runner'.anchor = runner.anchor,
         tip' \cap Deviations = tip \cap Deviations, receipts' = receipts,
         \A d \in Deviations : row[d].state # "absent" => row'[d].expected = row[d].expected
  PROVE  ValuesOK'
  BY ValuesStay

\* A correction is adopted that was asked for with the anchor on the screen,
\* and that finds there the value of the anchor.
LEMMA ValuesGoOn ==
  ASSUME ValuesOK, SourceOK, RecordsOK, NEW n \in Deviations, n \notin tip,
         runner' = runner, row' = row, row[n].expected = runner.anchor,
         ValueIn(receipts, tip, Department[n]) =
           ValueIn(receipts, runner.anchor, Department[n]),
         tip' = tip \cup {n}, receipts'[n] # None, receipts'[n].base = tip,
         \A d \in Deviations : d # n => receipts'[d] = receipts[d]
  PROVE  ValuesOK'
<1>1. AnchorInTip
  BY AnchorIsInTip
<1>2. \A d \in Deviations : receipts[d] # None => receipts[d].base \subseteq tip
  BY DEF SourceOK
<1>3. ASSUME NEW g, g \cap Deviations \subseteq tip, NEW x
      PROVE  /\ LastOf(receipts', g, x) = LastOf(receipts, g, x)
             /\ ValueIn(receipts', g, x) = ValueIn(receipts, g, x)
  BY <1>3, SameValues
<1>4. ASSUME NEW c \in tip \cap Deviations, Department[c] = Department[n],
             c \notin runner.anchor
      PROVE  NewValue[c] = ValueIn(receipts, receipts[c].base, Department[c])
  <2> DEFINE x == Department[n]
  <2>1. c \in Touch(tip, x)
    BY <1>4 DEF Touch
  <2>2. LastOf(receipts, tip, x) # {}
    BY <2>1 DEF ValuesOK
  <2> DEFINE l == CHOOSE d \in LastOf(receipts, tip, x) : TRUE
  <2>3. l \in LastOf(receipts, tip, x) /\ ValueIn(receipts, tip, x) = NewValue[l]
    BY <2>2 DEF ValueIn
  <2>4. /\ l \in tip \cap Deviations /\ Department[l] = x
        /\ Touch(tip, x) \ {l} \subseteq receipts[l].base
    BY <2>3 DEF LastOf, Touch
  <2> HIDE DEF l
  <2>5. CASE c = l
    <3>1. ValueIn(receipts, receipts[c].base, x) = ValueIn(receipts, runner.anchor, x)
      BY <1>4 DEF ValuesOK
    <3> QED
      BY <1>4, <2>3, <2>5, <3>1
  <2>6. CASE c # l
    <3>1. c \in receipts[l].base
      BY <2>1, <2>4, <2>6
    <3>2. l \notin runner.anchor
      BY <1>4, <2>4, <3>1 DEF ValuesOK
    <3>3. row[l].expected = runner.anchor
      BY <2>4, <3>2 DEF ValuesOK
    <3>4. /\ receipts[c] # None /\ receipts[c].outcome = "adopted"
          /\ receipts[l] # None /\ receipts[l].outcome = "adopted"
      BY <2>4 DEF SourceOK, Src!HasReceipt
    <3> QED
      BY <1>4, <2>4, <3>1, <3>3, <3>4 DEF ValuesOK, NoChangeUnseen
  <2> QED
    BY <2>5, <2>6
<1>5. NoChangeUnseen(receipts', row')
  <2> SUFFICES ASSUME NEW c \in Deviations, NEW d \in Deviations,
                      receipts'[c] # None, receipts'[c].outcome = "adopted",
                      receipts'[d] # None, receipts'[d].outcome = "adopted",
                      Department[c] = Department[d], c \in receipts'[d].base,
                      NewValue[c] # ValueIn(receipts', receipts'[c].base, Department[c])
               PROVE  c \in row[d].expected
    BY DEF NoChangeUnseen
  <2>1. c \in tip /\ c # n
    BY <1>2
  <2>2. receipts'[c] = receipts[c] /\ receipts[c].base \subseteq tip
    BY <1>2, <2>1
  <2>3. NewValue[c] # ValueIn(receipts, receipts[c].base, Department[c])
    BY <1>3, <2>2
  <2>4. CASE d = n
    BY <1>4, <2>1, <2>3, <2>4
  <2>5. CASE d # n
    BY <2>2, <2>3, <2>5 DEF ValuesOK, NoChangeUnseen
  <2> QED
    BY <2>4, <2>5
<1>6. \A d \in (tip' \cap Deviations) \ runner'.anchor :
        /\ row'[d].expected = runner'.anchor
        /\ ValueIn(receipts', receipts'[d].base, Department[d]) =
             ValueIn(receipts', runner'.anchor, Department[d])
  <2> SUFFICES ASSUME NEW d \in (tip' \cap Deviations) \ runner.anchor
               PROVE  /\ row[d].expected = runner.anchor
                      /\ ValueIn(receipts', receipts'[d].base, Department[d]) =
                           ValueIn(receipts', runner.anchor, Department[d])
    OBVIOUS
  <2>1. ValueIn(receipts', runner.anchor, Department[d]) =
          ValueIn(receipts, runner.anchor, Department[d])
    BY <1>1, <1>3 DEF AnchorInTip
  <2>2. CASE d = n
    <3>1. ValueIn(receipts', tip, Department[n]) = ValueIn(receipts, tip, Department[n])
      BY <1>3
    <3> QED
      BY <2>1, <2>2, <3>1
  <2>3. CASE d # n
    <3>1. d \in tip /\ receipts'[d] = receipts[d] /\ receipts[d].base \subseteq tip
      BY <1>1, <2>3 DEF AnchorInTip
    <3>2. ValueIn(receipts', receipts[d].base, Department[d]) =
            ValueIn(receipts, receipts[d].base, Department[d])
      BY <1>3, <3>1
    <3> QED
      BY <2>1, <3>1, <3>2 DEF ValuesOK
  <2> QED
    BY <2>2, <2>3
<1>7. \A x : Touch(tip', x) # {} => LastOf(receipts', tip', x) # {}
  <2> SUFFICES ASSUME NEW x, Touch(tip', x) # {}
               PROVE  LastOf(receipts', tip', x) # {}
    OBVIOUS
  <2>1. CASE x = Department[n]
    <3>1. n \in Touch(tip', x) /\ Touch(tip', x) \ {n} \subseteq tip
      BY <2>1 DEF Touch
    <3>2. n \in LastOf(receipts', tip', x)
      BY <3>1 DEF LastOf
    <3> QED
      BY <3>2
  <2>2. CASE x # Department[n]
    <3>1. Touch(tip', x) = Touch(tip, x)
      BY <2>2 DEF Touch
    <3>2. LastOf(receipts', tip', x) = LastOf(receipts', tip, x)
      BY <3>1 DEF LastOf
    <3>3. LastOf(receipts', tip, x) = LastOf(receipts, tip, x)
      BY <1>3
    <3> QED
      BY <3>1, <3>2, <3>3 DEF ValuesOK
  <2> QED
    BY <2>1, <2>2
<1>8. \A d \in runner'.anchor \cap Deviations :
        receipts'[d].base \cap Deviations \subseteq runner'.anchor
  BY <1>1 DEF ValuesOK, AnchorInTip
<1> QED
  BY <1>5, <1>6, <1>7, <1>8 DEF ValuesOK

\* A confirmed publication makes what the source holds the anchor.
LEMMA ValuesAreAnchored ==
  ASSUME ValuesOK, SourceOK, UNCHANGED <<row, tip, receipts>>,
         runner'.anchor \cap Deviations = tip \cap Deviations
  PROVE  ValuesOK'
<1>1. \A d \in Deviations : d \in tip => receipts[d].base \subseteq tip
  BY DEF SourceOK, Src!HasReceipt
<1>2. \A d \in runner'.anchor \cap Deviations :
        receipts[d].base \cap Deviations \subseteq runner'.anchor
  BY <1>1
<1>3. (tip \cap Deviations) \ runner'.anchor = {}
  OBVIOUS
<1> QED
  BY <1>2, <1>3 DEF ValuesOK

----------------------------------------------------------------------------
(* What keeps the stores.                                                  *)

\* Every step of the queue goes on with what it has, and ends nothing twice.
LEMMA QueueGoesOn ==
  ASSUME QueueOK, [QP!QueueNext]_QP!queueVars
  PROVE  /\ QueueOK'
         /\ QP!WorkKept /\ QP!RequestKept /\ QP!FinalKept
  BY QueueConstants, QP!NextKeepsInv, QP!NextKeepsSound, QP!NextKeepsWork,
     QP!NextKeepsFinal DEF QueueOK

\* What a step of the queue records agrees with the journals, the source and
\* the site.
RecordsTruly ==
  /\ \A p \in Publications :
       /\ row'[p].pins # None => row'[p].pins \in {row[p].pins, job[p].candidate}
       /\ row'[p].state = "publication_confirmed" =>
            \/ /\ row[p].state = "publication_confirmed"
               /\ row'[p].publication = row[p].publication
            \/ /\ p \in site.landed
               /\ row'[p].publication = job[p].observation
               /\ row'[p].publication # None
  /\ \A d \in Deviations :
       /\ row'[d].adopted # None =>
            \/ row'[d].adopted = row[d].adopted
            \/ d \in Locally("adopted") /\ row'[d].adopted = receipts[d].target
       /\ row'[d].state = "rejected" =>
            row[d].state = "rejected" \/ d \in Locally("cancelled")

\* A step that records nothing does.
LEMMA NothingIsTrue ==
  ASSUME RecordsNothing
  PROVE  RecordsTruly
<1>1. \A r \in Requests : /\ QP!SameRecords(r)
                          /\ row'[r].state \in {"publication_confirmed", "rejected"} =>
                               row'[r].state = row[r].state
  BY SameQueue DEF RecordsNothing, QP!RecordsStay, QP!NothingEnds
<1> QED
  BY <1>1 DEF RecordsTruly, QP!SameRecords, Requests

\* Whatever the queue does by its rules, if what it records is true the stores
\* go on agreeing.
LEMMA QueueStepKeepsStores ==
  ASSUME PipelineTypeOK, StoresOK, [QP!QueueNext]_QP!queueVars, RecordsTruly,
         UNCHANGED <<sourceVars, job, runner, site>>
  PROVE  StoresOK'
<1> USE DEF StoresOK
<1>1. /\ QueueOK' /\ QP!WorkKept /\ QP!RequestKept /\ QP!FinalKept
  BY QueueGoesOn
<1>2. /\ tip' = tip /\ receipts' = receipts /\ job' = job /\ runner' = runner
      /\ site' = site
  BY DEF sourceVars
<1>3. \A r \in Requests :
        /\ row[r].state # "absent" =>
             /\ row'[r].state # "absent"
             /\ row'[r].expected = row[r].expected
             /\ row'[r].included = row[r].included
        /\ row[r].adopted # None => row'[r].adopted = row[r].adopted
        /\ row[r].pins # None => row'[r].pins = row[r].pins
        /\ row[r].state \in {"publication_confirmed", "rejected"} =>
             row'[r].state = row[r].state
  BY <1>1, SameQueue DEF QP!WorkKept, QP!RequestKept, QP!FinalKept, QP!SameRequest
<1>4. Publications \subseteq Requests /\ Deviations \subseteq Requests
  BY DEF Requests
<1>5. SourceOK'
  BY <1>2, <1>3, <1>4 DEF SourceOK, Src!HasReceipt
<1>6. QueueAgreesWithSource'
  BY <1>2, <1>4, <1>5 DEF QueueAgreesWithSource, RecordsTruly, Locally,
     SourceOK, Src!HasReceipt
<1>7. ValuesOK'
  BY <1>2, <1>3, <1>4, ValuesStayPut
<1>8. CandidatesOK'
  <2> SUFFICES ASSUME NEW p \in Publications
               PROVE  /\ job[p].candidate # None =>
                           /\ row'[p].state # "absent"
                           /\ job[p].candidate.source = row'[p].expected \cup row'[p].included
                           /\ job[p].candidate.source \subseteq tip
                           /\ row'[p].state \notin {"publication_confirmed", "rejected", "absent"} =>
                                /\ tip \cap Deviations = job[p].candidate.source \cap Deviations
                                /\ site.content \subseteq job[p].candidate.source
                      /\ row'[p].pins # None => row'[p].pins = job[p].candidate
    BY <1>2 DEF CandidatesOK, Q!Pending, Q!Terminal
  <2> QED
    BY <1>3, <1>4 DEF CandidatesOK, RecordsTruly, Q!Pending, Q!Terminal
<1>9. SiteOK'
  <2>1. site.started \subseteq Publications
    BY DEF PipelineTypeOK, Site
  <2> QED
    BY <1>2, <1>3, <1>4, <2>1 DEF SiteOK, RecordsTruly
<1>10. RecordsOK'
  <2>1. Doubt' = Doubt /\ Recorded' = Recorded
    BY <1>2 DEF Doubt, Recorded
  <2>2. runner.anchor # {} =>
          \E p \in Publications : /\ row'[p].state = "publication_confirmed"
                                  /\ row'[p].pins.source = runner.anchor
    <3> SUFFICES ASSUME NEW p \in Publications,
                        row[p].state = "publication_confirmed",
                        row[p].pins.source = runner.anchor
                 PROVE  /\ row'[p].state = "publication_confirmed"
                        /\ row'[p].pins.source = runner.anchor
      BY DEF RecordsOK
    <3>1. row[p].pins # None
      BY DEF QueueOK, QP!QueueInv, QP!GeneratedIsPinned
    <3> QED
      BY <1>3, <1>4, <3>1
  <2> QED
    BY <1>2, <1>3, <2>1, <2>2 DEF RecordsOK
<1> QED
  BY <1>1, <1>5, <1>6, <1>7, <1>8, <1>9, <1>10

\* What a line of a journal may say: an intent of a content the source had, a
\* first candidate of the source as it is, or an observation before the
\* confirmation.
JournalsTruly ==
  \A r \in Requests :
    /\ \/ job'[r].intent = job[r].intent
       \/ job'[r].intent # None /\ job'[r].intent \subseteq tip
    /\ \/ job'[r].candidate = job[r].candidate
       \/ /\ job[r].candidate = None /\ row[r].state # "absent"
          /\ job'[r].candidate.source = tip
          /\ tip = row[r].expected \cup row[r].included
    /\ \/ job'[r].observation = job[r].observation
       \/ row[r].state # "publication_confirmed"

\* Such a line keeps the stores in agreement.
LEMMA JobStepKeepsStores ==
  ASSUME PipelineTypeOK, StoresOK, JournalsTruly,
         UNCHANGED <<queueVars, sourceVars, runner, site>>
  PROVE  StoresOK'
<1> USE DEF StoresOK
<1>1. /\ row' = row /\ consent' = consent /\ tip' = tip /\ receipts' = receipts
      /\ runner' = runner /\ site' = site
  BY DEF sourceVars, queueVars
<1>2. Publications \subseteq Requests /\ Deviations \subseteq Requests
  BY DEF Requests
<1>3. QueueOK'
  BY QueueStays, QueueGoesOn DEF RecordsNothing
<1>4. SourceOK'
  BY <1>1 DEF SourceOK, Src!HasReceipt, JournalsTruly
<1>5. QueueAgreesWithSource' /\ ValuesOK'
  <2>1. QueueAgreesWithSource'
    BY <1>1 DEF QueueAgreesWithSource, Locally, Src!HasReceipt
  <2> QED
    BY <1>1, <2>1, ValuesStayPut
<1>6. CandidatesOK'
  <2> SUFFICES ASSUME NEW p \in Publications
               PROVE  /\ job'[p].candidate # None =>
                           /\ row[p].state # "absent"
                           /\ job'[p].candidate.source = row[p].expected \cup row[p].included
                           /\ job'[p].candidate.source \subseteq tip
                           /\ Q!Pending(p) =>
                                /\ tip \cap Deviations = job'[p].candidate.source \cap Deviations
                                /\ site.content \subseteq job'[p].candidate.source
                      /\ row[p].pins # None => row[p].pins = job'[p].candidate
    BY <1>1 DEF CandidatesOK, Q!Pending
  <2>1. CASE job'[p].candidate = job[p].candidate
    BY <2>1 DEF CandidatesOK
  <2>2. CASE /\ job[p].candidate = None /\ row[p].state # "absent"
             /\ job'[p].candidate.source = tip
             /\ tip = row[p].expected \cup row[p].included
    <3>1. row[p].pins = None
      BY <2>2 DEF CandidatesOK
    <3> QED
      BY <2>2, <3>1 DEF SiteOK
  <2> QED
    BY <1>2, <2>1, <2>2 DEF JournalsTruly
<1>7. SiteOK'
  BY <1>1, <1>2 DEF SiteOK, JournalsTruly
<1>8. RecordsOK'
  <2>1. Doubt' = Doubt /\ Recorded' = Recorded /\ Doubt \subseteq Deviations
    BY <1>1 DEF Doubt, Recorded
  <2>2. \A d \in Doubt' : job'[d].intent # None
    BY <1>2, <2>1 DEF RecordsOK, JournalsTruly
  <2> QED
    BY <1>1, <2>1, <2>2 DEF RecordsOK
<1> QED
  BY <1>3, <1>4, <1>5, <1>6, <1>7, <1>8

\* A step of the command alone keeps them.
LEMMA ProcStepKeepsStores ==
  ASSUME PipelineTypeOK, StoresOK,
         UNCHANGED <<queueVars, sourceVars, job, runner, site>>
  PROVE  StoresOK'
  BY QueueStays, NothingIsTrue, QueueStepKeepsStores DEF RecordsNothing

----------------------------------------------------------------------------
(* What keeps the command's own facts.                                     *)

\* Nothing happened that a command relies on not happening.
Steady ==
  /\ QP!RequestKept /\ QP!WorkKept /\ QP!FinalKept
  /\ tip \subseteq tip' /\ tip' \cap Deviations = tip \cap Deviations
  /\ UNCHANGED <<receipts, runner>>
  /\ \A r \in Requests : SameWork(job[r], job'[r])
  /\ site.landed \subseteq site'.landed
  /\ Req \in Requests /\ row'[Req].state = "publication_confirmed" =>
       row[Req].state = "publication_confirmed" \/ Aim = "ackConfirmed"

\* A command that is still on its way to the same step knows what it knew.
LEMMA SameAimKeepsRun ==
  ASSUME PipelineTypeOK, CommandOK, CorrectionRunOK, PublicationRunOK, Steady,
         ~ At("idle"), Aim' = Aim, proc'.req = proc.req, proc'.tip = proc.tip
  PROVE  CorrectionRunOK' /\ PublicationRunOK'
<1>1. /\ Req \in Requests /\ Req' = Req /\ row[Req].state # "absent"
      /\ None \notin Requests
  BY PipelineAssumption DEF CommandOK, Req
<1>2. /\ row'[Req].expected = row[Req].expected
      /\ row'[Req].included = row[Req].included
      /\ row[Req].adopted # None => row'[Req].adopted = row[Req].adopted
      /\ row[Req].pins # None => row'[Req].pins = row[Req].pins
      /\ row[Req].state \in {"publication_confirmed", "rejected"} =>
           row'[Req].state = row[Req].state
  BY <1>1, SameQueue DEF Steady, QP!RequestKept, QP!WorkKept, QP!FinalKept, QP!SameRequest
<1>3. SameWork(job[Req], job'[Req])
  BY <1>1 DEF Steady
<1>4. Doubt' = Doubt
  BY DEF Doubt, Recorded, Steady
<1>5. CorrectionRunOK'
  BY <1>1, <1>2, <1>3, <1>4 DEF CorrectionRunOK, SameWork, Src!HasReceipt, Steady
<1>6. PublicationRunOK'
  BY <1>1, <1>2, <1>3 DEF PublicationRunOK, PublicationSteps, SameWork, Steady
<1> QED
  BY <1>5, <1>6

\* Between commands there is nothing to know.
LEMMA IdleKeepsRun ==
  ASSUME proc'.pc = "idle", proc'.tip \subseteq tip'
  PROVE  RunOK'
<1>1. Aim' = "idle"
  BY DEF Aim
<1>2. CommandOK'
  BY <1>1 DEF CommandOK, At, CorrectionSteps, PublicationSteps
<1>3. CorrectionRunOK' /\ PublicationRunOK' /\ ClaimedFirst'
  BY <1>1 DEF CorrectionRunOK, PublicationRunOK, ClaimedFirst, CorrectionSteps,
     PublicationSteps
<1> QED
  BY <1>2, <1>3 DEF RunOK

\* The command's request stays, and so does what was read of it.
LEMMA SameAimKeepsCommand ==
  ASSUME PipelineTypeOK, CommandOK, Steady, ~ At("idle"), Aim' = Aim,
         proc'.req = proc.req, proc'.tip = proc.tip,
         proc'.pc \in {"claim", "claiming", "claimed"} => proc'.ret \in Checkpoints,
         proc'.q.state \in {row'[Req].state, proc.q.state}
  PROVE  CommandOK'
<1>1. /\ Req \in Requests /\ Req' = Req /\ row[Req].state # "absent"
      /\ proc.q.state \in Q!Terminal => row[Req].state = proc.q.state
  BY DEF CommandOK, Req
<1>2. /\ row'[Req].state # "absent"
      /\ row[Req].state \in Q!Terminal => row'[Req].state = row[Req].state
  BY <1>1, SameQueue DEF Steady, QP!RequestKept, QP!FinalKept
<1>3. proc'.tip \subseteq tip'
  BY DEF CommandOK, Steady
<1> QED
  BY <1>1, <1>2, <1>3 DEF CommandOK

\* A correction that is claimed and not in the source: nothing can have been
\* generated, because it would have been generated from the cohort, which holds
\* every claimed correction.
LEMMA ClaimedIsFirst ==
  PipelineTypeOK /\ StoresOK =>
    \A d \in Deviations : row[d].state = "claimed" /\ receipts[d] = None =>
      NothingGenerated
<1> SUFFICES ASSUME PipelineTypeOK, StoresOK, NEW d \in Deviations,
                    row[d].state = "claimed", receipts[d] = None,
                    NEW p \in Publications, Q!Pending(p), job[p].candidate # None
             PROVE  FALSE
  BY DEF NothingGenerated
<1>1. d \in row[p].included
  BY SameQueue DEF StoresOK, QueueOK, QP!QueueInv, QP!LaterCorrectionsWait
<1>2. row[p].included \subseteq tip
  BY DEF StoresOK, CandidatesOK
<1>3. d \notin tip
  BY DEF StoresOK, SourceOK, Src!HasReceipt
<1> QED
  BY <1>1, <1>2, <1>3

\* The same of the next state.
LEMMA ClaimedIsFirstNext ==
  (PipelineTypeOK /\ StoresOK =>
     \A d \in Deviations : row[d].state = "claimed" /\ receipts[d] = None =>
       NothingGenerated)'
  BY ClaimedIsFirst, PTL

\* A command that has just read the row, on its way to the same step.
LEMMA ReadingKeepsRun ==
  ASSUME PipelineTypeOK, RunOK, Steady, (PipelineTypeOK /\ StoresOK)',
         ~ At("idle"), Aim' = Aim, proc'.req = proc.req, proc'.tip = proc.tip,
         proc'.pc \in {"claim", "claiming", "claimed"} => proc'.ret \in Checkpoints,
         proc'.q = row'[Req]
  PROVE  RunOK'
<1>1. CorrectionRunOK' /\ PublicationRunOK'
  BY SameAimKeepsRun DEF RunOK
<1>2. CommandOK'
  BY SameAimKeepsCommand DEF RunOK
<1>3. ClaimedFirst'
  <2> SUFFICES ASSUME Aim' \in {"intent", "apply"}, receipts'[Req'] = None,
                      proc'.q.state = "claimed"
               PROVE  NothingGenerated'
    BY DEF ClaimedFirst
  <2>1. Req' \in Deviations /\ Req' = Req
    BY DEF Req, RunOK, CommandOK, CorrectionSteps
  <2> QED
    BY <2>1, ClaimedIsFirstNext
<1> QED
  BY <1>1, <1>2, <1>3 DEF RunOK

\* A command that nothing happened to, or that has a lease no more.
LEMMA WaitingKeepsRun ==
  ASSUME PipelineTypeOK, StoresOK, RunOK, Steady,
         proc'.pc = proc.pc, proc'.ret = proc.ret, proc'.req = proc.req,
         proc'.tip = proc.tip, proc'.q.state = proc.q.state
  PROVE  RunOK'
<1>1. CASE At("idle")
  <2>1. proc'.tip \subseteq tip'
    BY DEF RunOK, CommandOK, Steady
  <2> QED
    BY <1>1, <2>1, IdleKeepsRun DEF At
<1>2. CASE ~ At("idle")
  <2>1. Aim' = Aim /\ Req' = Req
    BY DEF Aim, Req
  <2>2. CorrectionRunOK' /\ PublicationRunOK'
    BY <1>2, <2>1, SameAimKeepsRun DEF RunOK
  <2>3. CommandOK'
    <3>1. proc'.pc \in {"claim", "claiming", "claimed"} => proc'.ret \in Checkpoints
      BY DEF RunOK, CommandOK
    <3> QED
      BY <1>2, <2>1, <3>1, SameAimKeepsCommand DEF RunOK
  <2>4. NothingGenerated => NothingGenerated'
    <3> SUFFICES ASSUME NothingGenerated, NEW p \in Publications,
                        row'[p].state \notin {"publication_confirmed", "rejected", "absent"}
                 PROVE  job'[p].candidate = None
      BY DEF NothingGenerated, Q!Pending, Q!Terminal
    <3>1. p \in Requests /\ job'[p].candidate = job[p].candidate
      BY DEF Requests, Steady, SameWork
    <3>2. row[p].state \in {"publication_confirmed", "rejected"} => FALSE
      BY <3>1, SameQueue DEF Steady, QP!FinalKept
    <3>3. CASE row[p].state = "absent"
      BY <3>1, <3>3 DEF StoresOK, CandidatesOK
    <3>4. CASE row[p].state # "absent"
      BY <3>1, <3>2, <3>4 DEF NothingGenerated, Q!Pending, Q!Terminal
    <3> QED
      BY <3>3, <3>4
  <2>5. ClaimedFirst'
    BY <2>1, <2>4 DEF ClaimedFirst, RunOK, Steady
  <2> QED
    BY <2>2, <2>3, <2>5 DEF RunOK
<1> QED
  BY <1>1, <1>2

----------------------------------------------------------------------------
(* The environment.                                                        *)

\* A call that records nothing is steady, and keeps types and stores.
LEMMA QuietCallKeepsStores ==
  ASSUME PipelineInv, RecordsNothing, UNCHANGED <<sourceVars, job, runner, site>>,
         proc' \in Proc
  PROVE  (PipelineTypeOK /\ StoresOK)' /\ Steady
<1>1. QueueOK' /\ QP!WorkKept /\ QP!RequestKept /\ QP!FinalKept
  BY QueueGoesOn DEF PipelineInv, StoresOK, RecordsNothing
<1>2. StoresOK'
  BY NothingIsTrue, QueueStepKeepsStores DEF PipelineInv, RecordsNothing
<1>3. PipelineTypeOK'
  <2>1. Q!QueueTypeOK'
    BY <1>1, SameQueue DEF QueueOK, QP!QueueInv, Q!QueueTypeOK, QP!QueueTypeOK
  <2> QED
    BY <2>1 DEF PipelineInv, PipelineTypeOK, sourceVars, Src!SourceTypeOK
<1>4. Steady
  BY <1>1, SameQueue DEF Steady, RecordsNothing, QP!NothingEnds, SameWork, sourceVars
<1> QED
  BY <1>2, <1>3, <1>4

\* Contents the site has shown are contents.
LEMMA ShownAreContents ==
  ASSUME PipelineInv
  PROVE  Shown \subseteq Contents
<1>1. {} \in Contents
  BY DEF Contents, Src!Contents
<1>2. ASSUME NEW p \in site.landed
      PROVE  job[p].candidate.source \in Contents
  <2>1. p \in Publications /\ p \in Requests /\ row[p].pins # None
    BY DEF PipelineInv, PipelineTypeOK, Site, StoresOK, SiteOK, Requests
  <2>2. job[p] \in Job /\ job[p].candidate # None
    BY <2>1 DEF PipelineInv, PipelineTypeOK, StoresOK, CandidatesOK
  <2> QED
    BY <2>2 DEF Job, Candidates
<1> QED
  BY <1>1, <1>2 DEF Shown

\* The admin, a user and a failure reported by hand change the queue only.
LEMMA OutsideCallsKeepInv ==
  ASSUME PipelineInv, Admin \/ ConsentChanges \/ \E r \in Requests : FailByHand(r)
  PROVE  PipelineInv' /\ CallsQueue
<1>1. RecordsNothing
  <2>1. CASE Admin
    BY <2>1, ShownAreContents, OtherStepsRecordNothing
       DEF Admin, PipelineInv, StoresOK
  <2>2. CASE ConsentChanges
    <3>1. {} \in Contents
      BY DEF Contents, Src!Contents
    <3> QED
      BY <2>2, <3>1, OtherStepsRecordNothing
         DEF ConsentChanges, PipelineInv, StoresOK
  <2>3. ASSUME NEW r \in Requests, FailByHand(r)
        PROVE  RecordsNothing
    BY <2>3, LeaseStepsRecordNothing DEF FailByHand, PipelineInv, StoresOK
  <2> QED
    BY <2>1, <2>2, <2>3
<1>2. UNCHANGED <<sourceVars, job, runner, site, proc>>
  BY DEF Admin, ConsentChanges, FailByHand
<1>3. proc' \in Proc
  BY <1>2 DEF PipelineInv, PipelineTypeOK
<1>4. (PipelineTypeOK /\ StoresOK)' /\ Steady
  BY <1>1, <1>2, <1>3, QuietCallKeepsStores
<1>5. RunOK'
  BY <1>2, <1>4, WaitingKeepsRun DEF PipelineInv
<1> QED
  BY <1>1, <1>4, <1>5 DEF PipelineInv, RecordsNothing, CallsQueue

\* So does the clock, but for the lease the command holds.
LEMMA LeaseExpiresKeepsInv ==
  ASSUME PipelineInv, NEW r \in Requests, LeaseExpires(r)
  PROVE  PipelineInv' /\ CallsQueue
<1>1. RecordsNothing
  <2>1. CASE Q!LeaseExpires(r)
    BY <2>1, LeaseStepsRecordNothing DEF PipelineInv, StoresOK
  <2>2. CASE UNCHANGED queueVars
    BY <2>2, QueueStays
  <2> QED
    BY <2>1, <2>2 DEF LeaseExpires
<1>2. UNCHANGED <<sourceVars, job, runner, site>>
  BY DEF LeaseExpires
<1>3. /\ proc' \in Proc /\ proc'.pc = proc.pc /\ proc'.ret = proc.ret
      /\ proc'.req = proc.req /\ proc'.tip = proc.tip
      /\ proc'.q.state = proc.q.state
  <2>1. proc \in Proc /\ proc.q \in QP!Row
    BY SameQueue, ProcFields DEF PipelineInv, PipelineTypeOK
  <2>2. [proc.q EXCEPT !.live = FALSE] \in Q!Row
    BY <2>1, SameQueue, QueueConstants, QP!SetLive
  <2>3. [proc.q EXCEPT !.live = FALSE].state = proc.q.state
    BY <2>1 DEF QP!Row
  <2>4. CASE proc' = proc
    BY <2>1, <2>4
  <2>5. CASE proc' = [proc EXCEPT !.q.live = FALSE]
    <3>1. proc' = [proc EXCEPT !.q = [proc.q EXCEPT !.live = FALSE]]
      BY <2>5
    <3> QED
      BY <2>1, <2>2, <2>3, <3>1, ProcReads
  <2> QED
    BY <2>4, <2>5 DEF LeaseExpires
<1>4. (PipelineTypeOK /\ StoresOK)' /\ Steady
  BY <1>1, <1>2, <1>3, QuietCallKeepsStores
<1>5. RunOK'
  BY <1>3, <1>4, WaitingKeepsRun DEF PipelineInv
<1> QED
  BY <1>1, <1>4, <1>5 DEF PipelineInv, RecordsNothing, CallsQueue

\* What a step of the site may change.
SiteGoesOn ==
  /\ site' \in Site
  /\ site.started \subseteq site'.started /\ site.landed \subseteq site'.landed
  /\ site'.landed \subseteq site'.started
  /\ \A p \in site'.started : row[p].pins # None
  /\ \/ site'.content = site.content
     \/ \E p \in Publications : /\ Q!Pending(p) /\ row[p].pins # None
                                /\ site'.content = job[p].candidate.source

\* Such a step keeps the stores: only one publication is pending, so the content
\* that comes is the one its candidate was generated with.
LEMMA SiteStepKeepsStores ==
  ASSUME PipelineTypeOK, StoresOK, SiteGoesOn,
         UNCHANGED <<queueVars, sourceVars, job, runner>>
  PROVE  StoresOK' /\ site.content \subseteq site'.content
<1> USE DEF StoresOK
<1>1. /\ row' = row /\ consent' = consent /\ tip' = tip /\ receipts' = receipts
      /\ runner' = runner /\ job' = job
  BY DEF sourceVars, queueVars
<1>2. QueueOK'
  BY QueueStays, QueueGoesOn DEF RecordsNothing
<1>3. SourceOK' /\ QueueAgreesWithSource' /\ ValuesOK'
  <2>1. SourceOK' /\ QueueAgreesWithSource'
    BY <1>1 DEF SourceOK, QueueAgreesWithSource, Locally, Src!HasReceipt
  <2>2. ValuesOK'
    BY <1>1, ValuesStayPut
  <2> QED
    BY <2>1, <2>2
<1>4. RecordsOK'
  BY <1>1 DEF RecordsOK, Doubt, Recorded
<1>5. \/ site'.content = site.content
      \/ \E p \in Publications :
           /\ Q!Pending(p) /\ job[p].candidate # None
           /\ site'.content = job[p].candidate.source
  BY DEF SiteGoesOn, CandidatesOK
<1>6. \A p, q \in Publications : Q!Pending(p) /\ Q!Pending(q) => p = q
  BY SameQueue DEF QueueOK, QP!QueueInv, QP!CohortsDisjoint
<1>7. /\ site.content \subseteq site'.content
      /\ site'.content \subseteq tip
      /\ \A p \in Publications : Q!Pending(p) /\ job[p].candidate # None =>
           site'.content \subseteq job[p].candidate.source
  BY <1>5, <1>6 DEF CandidatesOK, SiteOK
<1>8. CandidatesOK'
  BY <1>1, <1>7 DEF CandidatesOK, Q!Pending
<1>9. SiteOK'
  BY <1>1, <1>7 DEF SiteOK, SiteGoesOn
<1> QED
  BY <1>2, <1>3, <1>4, <1>7, <1>8, <1>9

\* An upload that lands, or a release of someone else.
LEMMA SiteChangesKeepInv ==
  ASSUME PipelineInv, OtherRelease \/ \E p \in Publications : UploadLands(p)
  PROVE  PipelineInv' /\ site.content \subseteq site'.content
<1>1. UNCHANGED <<queueVars, sourceVars, job, runner, proc>>
  BY DEF OtherRelease, UploadLands
<1>2. /\ site \in Site /\ site.landed \subseteq site.started
      /\ \A p \in site.started : row[p].pins # None
  BY DEF PipelineInv, PipelineTypeOK, StoresOK, SiteOK
<1>3. SiteGoesOn
  <2>1. CASE OtherRelease
    <3>1. site' = [site EXCEPT !.canonical = "other"]
      BY <2>1 DEF OtherRelease
    <3>2. /\ site'.content = site.content /\ site'.started = site.started
          /\ site'.landed = site.landed /\ site' \in Site
      BY <1>2, <3>1 DEF Site, Releases
    <3> QED
      BY <1>2, <3>2 DEF SiteGoesOn
  <2>2. ASSUME NEW p \in Publications, UploadLands(p)
        PROVE  SiteGoesOn
    <3>1. /\ p \in site.started /\ p \notin site.landed
          /\ site' = [site EXCEPT !.canonical = p,
                                  !.content = job[p].candidate.source,
                                  !.landed = @ \cup {p}]
      BY <2>2 DEF UploadLands
    <3>2. /\ row[p].pins # None /\ p \in Requests
          /\ job[p].candidate \in Candidates
      <4>1. row[p].pins # None /\ p \in Requests
        BY <1>2, <3>1 DEF Requests
      <4>2. job[p].candidate # None
        BY <4>1 DEF PipelineInv, StoresOK, CandidatesOK
      <4> QED
        BY <4>1, <4>2 DEF PipelineInv, PipelineTypeOK, Job
    <3>3. Q!Pending(p)
      <4>1. row[p].state \in {"generated", "publication_confirmed", "blocked"}
        BY <3>2 DEF PipelineInv, StoresOK, QueueOK, QP!QueueInv,
           QP!PinnedNeverReleased
      <4>2. row[p].state # "publication_confirmed"
        BY <3>1 DEF PipelineInv, StoresOK, SiteOK
      <4> QED
        BY <4>1, <4>2 DEF Q!Pending, Q!Terminal
    <3>4. job[p].candidate.source \in Contents
      BY <3>2 DEF Candidates
    <3>5. /\ site' \in Site /\ site'.content = job[p].candidate.source
          /\ site'.started = site.started /\ site'.landed = site.landed \cup {p}
      BY <1>2, <3>1, <3>4 DEF Site, Releases
    <3> QED
      BY <1>2, <3>1, <3>2, <3>3, <3>5 DEF SiteGoesOn
  <2> QED
    BY <2>1, <2>2
<1>4. StoresOK' /\ site.content \subseteq site'.content
  BY <1>1, <1>3, SiteStepKeepsStores DEF PipelineInv
<1>5. PipelineTypeOK'
  BY <1>1, <1>3 DEF PipelineInv, PipelineTypeOK, queueVars, sourceVars,
     Src!SourceTypeOK, Q!QueueTypeOK, SiteGoesOn
<1>6. Steady
  BY <1>1, <1>3, QueueStays, QueueGoesOn
     DEF Steady, RecordsNothing, PipelineInv, StoresOK, queueVars, sourceVars,
         SameWork, SiteGoesOn
<1>7. RunOK'
  BY <1>1, <1>6, WaitingKeepsRun DEF PipelineInv
<1> QED
  BY <1>4, <1>5, <1>7 DEF PipelineInv

\* A change of the source by another tool is none of a correction, so only the
\* compare-and-swaps of the worker and the chains notice it.
LEMMA OtherEditKeepsInv ==
  ASSUME PipelineInv, OtherEdit
  PROVE  PipelineInv'
<1> USE DEF StoresOK
<1>1. PICK e \in Edits : tip' = tip \cup {e} /\ receipts' = receipts
  BY DEF OtherEdit, Src!OtherEdit
<1>2. UNCHANGED <<queueVars, job, runner, site, proc>>
  BY DEF OtherEdit
<1>3. /\ tip \subseteq tip' /\ tip' \cap Deviations = tip \cap Deviations
      /\ tip' \in Contents
  BY <1>1, PipelineAssumption
     DEF PipelineInv, PipelineTypeOK, Src!SourceTypeOK, Contents, Src!Contents
<1>4. /\ row' = row /\ consent' = consent /\ receipts' = receipts /\ job' = job
      /\ runner' = runner /\ site' = site
  BY <1>1, <1>2 DEF queueVars
<1>5. QueueOK' /\ QP!WorkKept /\ QP!RequestKept /\ QP!FinalKept
  BY <1>2, QueueStays, QueueGoesOn DEF RecordsNothing, PipelineInv
<1>6. PipelineTypeOK'
  BY <1>2, <1>3, <1>4 DEF PipelineInv, PipelineTypeOK, Src!SourceTypeOK,
     Q!QueueTypeOK, Contents
<1>7. SourceOK'
  BY <1>3, <1>4 DEF PipelineInv, SourceOK, Src!HasReceipt
<1>8. QueueAgreesWithSource' /\ ValuesOK'
  <2>1. QueueAgreesWithSource'
    BY <1>3, <1>4 DEF PipelineInv, QueueAgreesWithSource, Locally, Src!HasReceipt
  <2> QED
    BY <1>3, <1>4, <2>1, ValuesStayPut DEF PipelineInv
<1>9. CandidatesOK' /\ SiteOK'
  BY <1>3, <1>4 DEF PipelineInv, CandidatesOK, SiteOK, Q!Pending
<1>10. RecordsOK'
  <2>1. Doubt' = Doubt /\ Recorded' = Recorded
    BY <1>3, <1>4 DEF Doubt, Recorded
  <2> QED
    BY <1>3, <1>4, <2>1 DEF PipelineInv, RecordsOK
<1>11. StoresOK'
  BY <1>5, <1>7, <1>8, <1>9, <1>10
<1>12. Steady
  BY <1>3, <1>4, <1>5 DEF Steady, SameWork
<1>13. RunOK'
  BY <1>2, <1>12, WaitingKeepsRun DEF PipelineInv
<1> QED
  BY <1>6, <1>11, <1>13 DEF PipelineInv

----------------------------------------------------------------------------
(* A command starts, looks, and ends.                                      *)

\* A step of the command alone is steady, and keeps types and stores.
LEMMA LookingKeepsStores ==
  ASSUME PipelineInv, UNCHANGED <<queueVars, sourceVars, job, runner, site>>,
         proc' \in Proc
  PROVE  (PipelineTypeOK /\ StoresOK)' /\ Steady
  BY QueueStays, QuietCallKeepsStores DEF queueVars

\* A command that stops.
LEMMA StopKeepsInv ==
  ASSUME PipelineInv, Stop
  PROVE  PipelineInv'
<1>1. UNCHANGED <<queueVars, sourceVars, job, runner, site>> /\ proc' = NoProc
  BY DEF Stop
<1>2. proc' \in Proc /\ proc'.pc = "idle" /\ proc'.tip = {}
  BY <1>1, ProcEnds DEF PipelineInv, PipelineTypeOK
<1>3. RunOK'
  BY <1>2, IdleKeepsRun
<1> QED
  BY <1>1, <1>2, <1>3, LookingKeepsStores DEF PipelineInv

\* A journal line that is true keeps types and stores.
LEMMA JournalKeepsStores ==
  ASSUME PipelineInv, UNCHANGED <<queueVars, sourceVars, runner, site>>,
         job' \in [Requests -> Job], proc' \in Proc, JournalsTruly
  PROVE  /\ (PipelineTypeOK /\ StoresOK)'
         /\ QP!RequestKept /\ QP!WorkKept /\ QP!FinalKept
<1>1. StoresOK'
  BY JobStepKeepsStores DEF PipelineInv
<1>2. QP!RequestKept /\ QP!WorkKept /\ QP!FinalKept
  BY QueueStays, QueueGoesOn DEF RecordsNothing, PipelineInv, StoresOK
<1>3. PipelineTypeOK'
  BY DEF PipelineInv, PipelineTypeOK, queueVars, sourceVars, Src!SourceTypeOK,
     Q!QueueTypeOK
<1> QED
  BY <1>1, <1>2, <1>3

\* A line that says nothing of the work is true, and steady.
LEMMA MarksKeepStores ==
  ASSUME PipelineInv, UNCHANGED <<queueVars, sourceVars, runner, site>>,
         NEW r \in Requests, NEW x \in Job, SameWork(job[r], x),
         job' = [job EXCEPT ![r] = x], proc' \in Proc
  PROVE  (PipelineTypeOK /\ StoresOK)' /\ Steady
<1>1. /\ job' \in [Requests -> Job]
      /\ \A q \in Requests : SameWork(job[q], job'[q])
  BY OneJobChanges DEF PipelineInv, PipelineTypeOK, SameWork
<1>2. JournalsTruly
  BY <1>1 DEF JournalsTruly, SameWork
<1>3. /\ (PipelineTypeOK /\ StoresOK)'
      /\ QP!RequestKept /\ QP!WorkKept /\ QP!FinalKept
  BY <1>1, <1>2, JournalKeepsStores
<1> QED
  BY <1>1, <1>3 DEF Steady, queueVars, sourceVars

\* A command that knows nothing yet but its request.
LEMMA FreshKeepsRun ==
  ASSUME (PipelineTypeOK /\ StoresOK)', proc'.pc \in {"open", "rejectOpen"},
         proc'.req \in Requests, row'[proc'.req].state # "absent",
         proc'.tip \subseteq tip',
         proc'.q.state \in {"absent", row'[proc'.req].state}
  PROVE  RunOK'
<1>1. Aim' = proc'.pc /\ Req' = proc'.req
  BY DEF Aim, Req
<1>2. CommandOK'
  BY <1>1, SameQueue DEF CommandOK, CorrectionSteps, PublicationSteps
<1>3. CorrectionRunOK' /\ PublicationRunOK' /\ ClaimedFirst'
  BY <1>1 DEF CorrectionRunOK, PublicationRunOK, ClaimedFirst, CorrectionSteps,
     PublicationSteps
<1> QED
  BY <1>2, <1>3 DEF RunOK

\* A command that opens its job, or its review.
LEMMA StartsKeepInv ==
  ASSUME PipelineInv, NEW r \in Requests, Run(r) \/ Reject(r)
  PROVE  PipelineInv'
<1> DEFINE e == IF job[r].epoch = 0 THEN runner.epoch ELSE job[r].epoch
<1> DEFINE x == [job[r] EXCEPT !.epoch = e]
<1>1. job[r] \in Job /\ job[r].epoch \in Nat /\ runner.epoch \in Nat /\ row[r] \in Q!Row
      /\ tip \in Contents /\ proc \in Proc
  BY DEF PipelineInv, PipelineTypeOK, Job, Runner, Q!QueueTypeOK, Q!Requests,
     Requests, Src!SourceTypeOK, Contents
<1>2. x \in Job /\ SameWork(job[r], x)
  BY <1>1, JobMarks
<1>3. /\ UNCHANGED <<queueVars, sourceVars, runner, site>>
      /\ row[r].state # "absent"
      /\ job' = [job EXCEPT ![r] = x]
  BY DEF Run, Reject
<1>4. /\ proc' \in Proc /\ proc'.pc \in {"open", "rejectOpen"} /\ proc'.req = r
      /\ proc'.tip \in {{}, tip}
      /\ proc'.q.state \in {"absent", row[r].state}
  <2>1. CASE Run(r)
    <3>1. proc' = [NoProc EXCEPT !.pc = "open", !.req = r]
      BY <2>1 DEF Run
    <3>2. NoProc \in Proc /\ NoProc.tip = {} /\ NoProc.q.state = "absent"
      BY <1>1, ProcEnds DEF NoProc, Q!NoRow
    <3> QED
      BY <3>1, <3>2 DEF Proc
  <2>2. CASE Reject(r)
    <3>1. proc' = [NoProc EXCEPT !.pc = "rejectOpen", !.req = r, !.q = row[r],
                                 !.tip = tip]
      BY <2>2 DEF Reject
    <3>2. NoProc \in Proc
      BY <1>1, ProcEnds
    <3> QED
      BY <1>1, <3>1, <3>2 DEF Proc, RejectSteps
  <2> QED
    BY <2>1, <2>2
<1> HIDE DEF x
<1>5. (PipelineTypeOK /\ StoresOK)'
  BY <1>2, <1>3, <1>4, MarksKeepStores
<1>6. RunOK'
  BY <1>3, <1>4, <1>5, FreshKeepsRun DEF queueVars, sourceVars
<1> QED
  BY <1>5, <1>6 DEF PipelineInv

\* What a history has applied is recorded, but for a commit that was not.
LEMMA AppliedIsRecorded ==
  ASSUME PipelineTypeOK, NEW d \in Deviations
  PROVE  /\ Src!Applied(runner.history) \subseteq Recorded
         /\ Src!Applied(LocalHistory(d)) \subseteq Recorded \cup {d}
         /\ \A h : \A c \in Src!Applied(h) : Src!HasReceipt(c, "adopted")
<1>1. runner.history \in Seq(Deviations)
  BY DEF PipelineTypeOK, Runner
<1>2. Src!Applied(runner.history) \subseteq Recorded
  BY DEF Src!Applied, Src!AppliedUpTo, Recorded
<1>3. Src!Applied(LocalHistory(d)) \subseteq Recorded \cup {d}
  <2>1. CASE LocalHistory(d) = runner.history
    BY <1>2, <2>1
  <2>2. CASE LocalHistory(d) = Append(runner.history, d)
    <3> DEFINE h == Append(runner.history, d)
    <3>1. /\ Len(h) = Len(runner.history) + 1
          /\ \A i \in 1..Len(h) : h[i] = IF i <= Len(runner.history)
                                         THEN runner.history[i] ELSE d
      BY <1>1
    <3>2. Len(runner.history) \in Nat
      BY <1>1
    <3>3. \A i \in 1..Len(h) : h[i] \in Recorded \cup {d}
      BY <3>1, <3>2 DEF Recorded
    <3> QED
      BY <2>2, <3>3 DEF Src!Applied, Src!AppliedUpTo
  <2> QED
    BY <2>1, <2>2 DEF LocalHistory
<1>4. \A h : \A c \in Src!Applied(h) : Src!HasReceipt(c, "adopted")
  BY DEF Src!Applied, Src!AppliedUpTo
<1> QED
  BY <1>2, <1>3, <1>4

\* A correction whose chain holds is the only commit that may be unrecorded.
LEMMA OpenDeviationKeepsInv ==
  ASSUME PipelineInv, NEW d \in Deviations, OpenDeviation(d)
  PROVE  PipelineInv'
<1>1. /\ UNCHANGED <<queueVars, sourceVars, job, runner, site>>
      /\ At("open") /\ Req = d /\ proc \in Proc
      /\ Src!ChainHolds(runner.anchor, LocalHistory(d))
      /\ row[d].expected = runner.anchor
  BY DEF OpenDeviation, SameGeneration, PipelineInv, PipelineTypeOK
<1>2. /\ d \in Requests /\ row[d] \in Q!Row /\ row[d].state # "absent"
      /\ tip \in Contents
  BY <1>1 DEF PipelineInv, PipelineTypeOK, Q!QueueTypeOK, Q!Requests,
     Requests, Src!SourceTypeOK, Contents, RunOK, CommandOK, At
<1>3. Doubt \subseteq {d}
  <2>1. tip = runner.anchor \cup Src!Applied(LocalHistory(d))
    BY <1>1 DEF Src!ChainHolds
  <2> QED
    BY <2>1, AppliedIsRecorded DEF PipelineInv, Doubt
<1>4. /\ proc' \in Proc /\ proc'.req = d
      /\ \/ /\ proc'.pc = "recordAdopted" /\ proc'.tip = {}
            /\ proc'.q.state = "absent"
            /\ Src!HasReceipt(d, "adopted") /\ row[d].adopted # None
         \/ /\ proc'.pc = "claim" /\ proc'.ret = "intent" /\ proc'.tip = tip
            /\ proc'.q = row[d]
  <2>1. CASE proc' = [proc EXCEPT !.pc = "claim", !.ret = "intent", !.q = row[d],
                                  !.tip = tip]
    <3>1. /\ proc' \in Proc /\ proc'.req = proc.req
          /\ proc'.pc = "claim" /\ proc'.ret = "intent" /\ proc'.tip = tip
          /\ proc'.q = row[d]
      BY <1>1, <1>2, <2>1 DEF Proc, RunSteps
    <3> QED
      BY <1>1, <3>1 DEF Req
  <2>2. CASE /\ d \in Src!Applied(LocalHistory(d)) /\ row[d].adopted = tip
             /\ ToRecord("recordAdopted")
    <3>1. Src!HasReceipt(d, "adopted")
      BY <2>2, AppliedIsRecorded DEF PipelineInv
    <3>2. row[d].adopted # None
      BY <1>2, <2>2, PipelineAssumption
    <3>3. "recordAdopted" \in Steps
      BY DEF Steps, RecordSteps
    <3> QED
      BY <1>1, <2>2, <3>1, <3>2, <3>3, ProcEnds DEF Req
  <2> QED
    BY <2>1, <2>2 DEF OpenDeviation
<1>5. (PipelineTypeOK /\ StoresOK)'
  BY <1>1, <1>4, LookingKeepsStores
<1>6. /\ row' = row /\ tip' = tip /\ receipts' = receipts /\ job' = job
      /\ runner' = runner /\ Doubt' = Doubt
  BY <1>1 DEF queueVars, sourceVars, Doubt, Recorded
<1>7. /\ Req' = d /\ Aim' \in {"recordAdopted", "intent"}
      /\ Aim' = "recordAdopted" =>
           Src!HasReceipt(d, "adopted") /\ row[d].adopted # None
      /\ proc'.pc = "claim" \/ Aim' = "recordAdopted"
      /\ proc'.pc \in {"claim", "claiming", "claimed"} => proc'.ret = "intent"
  BY <1>4 DEF Req, Aim
<1>8. CommandOK'
  <2>1. proc'.tip \subseteq tip' /\ proc'.q.state \in {"absent", row'[d].state}
    BY <1>4, <1>6
  <2> QED
    BY <1>2, <1>6, <1>7, <2>1, SameQueue
       DEF CommandOK, CorrectionSteps, PublicationSteps, Checkpoints
<1>9. CorrectionRunOK'
  BY <1>1, <1>3, <1>6, <1>7 DEF CorrectionRunOK, CorrectionSteps, Src!HasReceipt
<1>10. PublicationRunOK' /\ ClaimedFirst'
  BY <1>7 DEF PublicationRunOK, ClaimedFirst, PublicationSteps
<1> QED
  BY <1>5, <1>8, <1>9, <1>10 DEF PipelineInv, RunOK

\* A publication whose cohort is all the history holds: the source is what the
\* admin saw and the cohort.
LEMMA OpenPublicationKeepsInv ==
  ASSUME PipelineInv, NEW p \in Publications, OpenPublication(p)
  PROVE  PipelineInv'
<1>1. /\ UNCHANGED <<queueVars, sourceVars, job, runner, site>>
      /\ At("open") /\ Req = p /\ proc \in Proc
      /\ row[p].expected = runner.anchor
      /\ tip = runner.anchor \cup row[p].included
  BY DEF OpenPublication, SameGeneration, Src!ChainHolds, PipelineInv,
     PipelineTypeOK
<1>2. /\ p \in Requests /\ row[p] \in Q!Row /\ row[p].state # "absent"
      /\ tip \in Contents
  BY <1>1 DEF PipelineInv, PipelineTypeOK, Q!QueueTypeOK, Q!Requests,
     Requests, Src!SourceTypeOK, Contents, RunOK, CommandOK, At
<1>3. /\ proc' \in Proc /\ proc'.req = p
      /\ \/ /\ proc'.pc = "recordConfirmed" /\ proc'.tip = {}
            /\ proc'.q.state = "absent"
            /\ row[p].state = "publication_confirmed"
            /\ job[p].candidate # None /\ job[p].candidate.source = tip
         \/ /\ proc'.pc = "claim" /\ proc'.ret = "generate" /\ proc'.tip = tip
            /\ proc'.q = row[p] /\ row[p].state # "publication_confirmed"
  <2>1. CASE /\ row[p].state # "publication_confirmed"
             /\ proc' = [proc EXCEPT !.pc = "claim", !.ret = "generate",
                                     !.q = row[p], !.tip = tip]
    <3>1. /\ proc' \in Proc /\ proc'.req = proc.req
          /\ proc'.pc = "claim" /\ proc'.ret = "generate" /\ proc'.tip = tip
          /\ proc'.q = row[p]
      BY <1>1, <1>2, <2>1 DEF Proc, RunSteps
    <3> QED
      BY <1>1, <2>1, <3>1 DEF Req
  <2>2. CASE /\ row[p].state = "publication_confirmed"
             /\ job[p].candidate # None /\ job[p].candidate.source = tip
             /\ ToRecord("recordConfirmed")
    <3>1. "recordConfirmed" \in Steps
      BY DEF Steps, RecordSteps
    <3> QED
      BY <1>1, <2>2, <3>1, ProcEnds DEF Req
  <2> QED
    BY <2>1, <2>2 DEF OpenPublication
<1>4. (PipelineTypeOK /\ StoresOK)'
  BY <1>1, <1>3, LookingKeepsStores
<1>5. /\ row' = row /\ tip' = tip /\ job' = job /\ runner' = runner
  BY <1>1 DEF queueVars, sourceVars
<1>6. /\ Req' = p
      /\ \/ /\ Aim' = "recordConfirmed"
            /\ row[p].state = "publication_confirmed"
            /\ job[p].candidate # None /\ job[p].candidate.source = tip
         \/ /\ Aim' = "generate" /\ proc'.tip = tip
            /\ row[p].state # "publication_confirmed"
      /\ proc'.pc \in {"claim", "claiming", "claimed"} => proc'.ret = "generate"
  BY <1>3 DEF Req, Aim
<1>7. CommandOK'
  <2>1. proc'.tip \subseteq tip' /\ proc'.q.state \in {"absent", row'[p].state}
    BY <1>3, <1>5
  <2> QED
    BY <1>2, <1>5, <1>6, <2>1, SameQueue
       DEF CommandOK, CorrectionSteps, PublicationSteps, Checkpoints
<1>8. CorrectionRunOK' /\ ClaimedFirst'
  BY <1>6 DEF CorrectionRunOK, CorrectionSteps, ClaimedFirst
<1>9. PublicationRunOK'
  BY <1>1, <1>5, <1>6 DEF PublicationRunOK, PublicationSteps
<1> QED
  BY <1>4, <1>7, <1>8, <1>9 DEF PipelineInv, RunOK

----------------------------------------------------------------------------
(* Claims and leases.                                                      *)

\* claim() finds a lease of its own, or none.
LEMMA ClaimReadKeepsInv ==
  ASSUME PipelineInv, ClaimRead
  PROVE  PipelineInv'
<1>1. /\ UNCHANGED <<queueVars, sourceVars, job, runner, site>>
      /\ At("claim") /\ proc.pc = "claim" /\ proc \in Proc
      /\ proc.ret \in Checkpoints /\ Req \in Requests /\ row[Req] \in Q!Row
  BY DEF ClaimRead, PipelineInv, PipelineTypeOK, RunOK, CommandOK, At,
     Q!QueueTypeOK, Q!Requests, Requests
<1>2. PICK pc \in {proc.ret, "claiming"} :
        proc' = [proc EXCEPT !.q = row[Req], !.pc = pc]
  BY DEF ClaimRead
<1>3. pc \in Steps
  BY <1>1 DEF Checkpoints, Steps, RunSteps
<1>4. /\ proc' \in Proc /\ proc'.pc = pc /\ proc'.req = proc.req
      /\ proc'.q = row[Req] /\ proc'.tip = proc.tip /\ proc'.ret = proc.ret
  BY <1>1, <1>2, <1>3, ProcReads
<1>5. (PipelineTypeOK /\ StoresOK)' /\ Steady
  BY <1>1, <1>4, LookingKeepsStores
<1>6. Aim' = Aim
  BY <1>1, <1>4 DEF Aim, Checkpoints
<1>7. proc'.q = row'[Req] /\ ~ At("idle")
  BY <1>1, <1>4 DEF queueVars, At
<1>8. RunOK'
  BY <1>1, <1>4, <1>5, <1>6, <1>7, ReadingKeepsRun DEF PipelineInv
<1> QED
  BY <1>5, <1>8 DEF PipelineInv

\* claim_school_change is called with the base the job is about.
LEMMA ClaimCallKeepsInv ==
  ASSUME PipelineInv, ClaimCall
  PROVE  PipelineInv' /\ CallsQueue
<1>1. /\ UNCHANGED <<sourceVars, job, runner, site>>
      /\ Q!Claim(Req, proc.q.revision, BaseSource)
      /\ proc' = [proc EXCEPT !.pc = "claimed", !.q = row'[Req]]
      /\ proc.pc = "claiming" /\ proc \in Proc /\ ~ At("idle")
      /\ proc.ret \in Checkpoints /\ Req \in Requests
  BY DEF ClaimCall, PipelineInv, PipelineTypeOK, RunOK, CommandOK, At
<1>2. BaseSource \in Contents
  <2>1. job[Req] \in Job
    BY <1>1 DEF PipelineInv, PipelineTypeOK
  <2> QED
    BY <1>1, <2>1 DEF BaseSource, Job, Proc
<1>3. RecordsNothing
  BY <1>1, <1>2, LeaseStepsRecordNothing DEF PipelineInv, StoresOK
<1>4. row'[Req] \in Q!Row
  <2>1. QueueOK'
    BY <1>3, QueueGoesOn DEF PipelineInv, StoresOK, RecordsNothing
  <2> QED
    BY <1>1, <2>1, SameQueue DEF QueueOK, QP!QueueInv, QP!QueueTypeOK
<1>5. /\ proc' \in Proc /\ proc'.pc = "claimed" /\ proc'.req = proc.req
      /\ proc'.q = row'[Req] /\ proc'.tip = proc.tip /\ proc'.ret = proc.ret
  BY <1>1, <1>4, ProcReads DEF Steps, RunSteps
<1>6. (PipelineTypeOK /\ StoresOK)' /\ Steady
  BY <1>1, <1>3, <1>5, QuietCallKeepsStores
<1>7. Aim' = Aim
  BY <1>1, <1>5 DEF Aim
<1>8. RunOK'
  BY <1>1, <1>5, <1>6, <1>7, ReadingKeepsRun DEF PipelineInv
<1> QED
  BY <1>3, <1>6, <1>8 DEF PipelineInv, RecordsNothing, CallsQueue

\* The lease is renewed, and the row it is on comes back.
LEMMA RenewLeaseKeepsInv ==
  ASSUME PipelineInv, RenewLease
  PROVE  PipelineInv' /\ CallsQueue
<1>1. /\ UNCHANGED <<sourceVars, job, runner, site>>
      /\ Q!Renew(Req, proc.q.token, proc.q.revision)
      /\ proc' = [proc EXCEPT !.q = row'[Req]]
      /\ proc.pc \in Checkpoints \cup {"apply"} /\ proc \in Proc
  BY DEF RenewLease, PipelineInv, PipelineTypeOK
<1>2. ~ At("idle") /\ Req \in Requests
  BY <1>1 DEF At, Checkpoints, PipelineInv, RunOK, CommandOK
<1>3. RecordsNothing
  BY <1>1, <1>2, LeaseStepsRecordNothing DEF PipelineInv, StoresOK
<1>4. row'[Req] \in Q!Row
  <2>1. QueueOK'
    BY <1>3, QueueGoesOn DEF PipelineInv, StoresOK, RecordsNothing
  <2> QED
    BY <1>2, <2>1, SameQueue DEF QueueOK, QP!QueueInv, QP!QueueTypeOK
<1>5. /\ proc' \in Proc /\ proc'.pc = proc.pc /\ proc'.req = proc.req
      /\ proc'.q = row'[Req] /\ proc'.tip = proc.tip /\ proc'.ret = proc.ret
  BY <1>1, <1>4, ProcReads
<1>6. (PipelineTypeOK /\ StoresOK)' /\ Steady
  BY <1>1, <1>3, <1>5, QuietCallKeepsStores
<1>7. Aim' = Aim /\ proc'.pc \notin {"claim", "claiming", "claimed"}
  BY <1>1, <1>5 DEF Aim, Checkpoints
<1>8. RunOK'
  BY <1>2, <1>5, <1>6, <1>7, ReadingKeepsRun DEF PipelineInv
<1> QED
  BY <1>3, <1>6, <1>8 DEF PipelineInv, RecordsNothing, CallsQueue

\* A lease that ran out sends the command back to claim, on its way to where it
\* was.
LEMMA ReclaimKeepsInv ==
  ASSUME PipelineInv, Reclaim
  PROVE  PipelineInv'
<1>1. /\ UNCHANGED <<queueVars, sourceVars, job, runner, site>>
      /\ proc' = [proc EXCEPT !.pc = "claim", !.ret = proc.pc]
      /\ proc.pc \in Checkpoints /\ proc \in Proc
  BY DEF Reclaim, PipelineInv, PipelineTypeOK
<1>2. /\ proc' \in Proc /\ proc'.pc = "claim" /\ proc'.req = proc.req
      /\ proc'.q = proc.q /\ proc'.tip = proc.tip /\ proc'.ret = proc.pc
  BY <1>1 DEF Proc, Checkpoints, RunSteps
<1>3. (PipelineTypeOK /\ StoresOK)' /\ Steady
  BY <1>1, <1>2, LookingKeepsStores
<1>4. Aim' = Aim /\ ~ At("idle")
  BY <1>1, <1>2 DEF Aim, Checkpoints, At
<1>5. CorrectionRunOK' /\ PublicationRunOK'
  BY <1>2, <1>3, <1>4, SameAimKeepsRun DEF PipelineInv, RunOK
<1>6. CommandOK'
  BY <1>1, <1>2, <1>3, <1>4, SameAimKeepsCommand DEF PipelineInv, RunOK
<1>7. ClaimedFirst'
  BY <1>2 DEF ClaimedFirst
<1> QED
  BY <1>3, <1>5, <1>6, <1>7 DEF PipelineInv, RunOK

\* The claim is journaled and the command goes on.
LEMMA ClaimJournalKeepsInv ==
  ASSUME PipelineInv, ClaimJournal
  PROVE  PipelineInv'
<1>1. /\ UNCHANGED <<queueVars, sourceVars, runner, site>>
      /\ job' = [job EXCEPT ![Req].claim = proc.q.token]
      /\ Goto(proc.ret) /\ proc.pc = "claimed" /\ proc \in Proc /\ ~ At("idle")
      /\ proc.ret \in Checkpoints /\ Req \in Requests /\ job[Req] \in Job
  BY DEF ClaimJournal, PipelineInv, PipelineTypeOK, RunOK, CommandOK, At
<1>2. /\ proc' \in Proc
      /\ proc'.pc = proc.ret /\ proc'.req = proc.req /\ proc'.q = proc.q
      /\ proc'.tip = proc.tip /\ proc'.ret = proc.ret
  <2>1. proc.ret \in Steps
    BY <1>1 DEF Checkpoints, Steps, RunSteps
  <2> QED
    BY <1>1, <2>1, ProcGoes
<1>3. (PipelineTypeOK /\ StoresOK)' /\ Steady
  <2> DEFINE x == [job[Req] EXCEPT !.claim = proc.q.token]
  <2>1. proc.q.token \in Nat
    BY <1>1, ProcFields DEF Q!Row
  <2>2. x \in Job /\ SameWork(job[Req], x)
    BY <1>1, <2>1, JobMarks
  <2>3. job' = [job EXCEPT ![Req] = x]
    BY <1>1
  <2> HIDE DEF x
  <2> QED
    BY <1>1, <1>2, <2>2, <2>3, MarksKeepStores
<1>4. Aim' = Aim /\ Req' = Req
  BY <1>1, <1>2 DEF Aim, Checkpoints, Req
<1>5. CorrectionRunOK' /\ PublicationRunOK'
  BY <1>1, <1>2, <1>3, <1>4, SameAimKeepsRun DEF PipelineInv, RunOK
<1>6. CommandOK'
  BY <1>1, <1>2, <1>3, <1>4, SameAimKeepsCommand DEF PipelineInv, RunOK
<1>7. NothingGenerated => NothingGenerated'
  BY <1>1, <1>3 DEF NothingGenerated, Steady, SameWork, queueVars, Q!Pending,
     Requests
<1>8. ClaimedFirst'
  BY <1>1, <1>2, <1>4, <1>7 DEF ClaimedFirst, PipelineInv, RunOK, sourceVars
<1> QED
  BY <1>3, <1>5, <1>6, <1>8 DEF PipelineInv, RunOK

----------------------------------------------------------------------------
(* A correction.                                                           *)

\* A command that moves on with the request it has.
LEMMA MovedKeepsCommand ==
  ASSUME CommandOK, ~ At("idle"), QP!RequestKept, QP!FinalKept, tip \subseteq tip',
         proc'.req = proc.req, proc'.tip \in {proc.tip, {}},
         proc'.q.state \in {"absent", row'[Req].state, proc.q.state},
         proc'.pc \notin {"claim", "claiming", "claimed"},
         proc'.pc \in CorrectionSteps \cup {"rejectIntent", "cancel"} => Req \in Deviations,
         proc'.pc \in PublicationSteps \cup {"recordConfirmed"} => Req \in Publications
  PROVE  CommandOK' /\ Aim' = proc'.pc /\ Req' = Req
<1>1. Req' = Req /\ Aim' = proc'.pc
  BY DEF Req, Aim
<1>2. /\ Req \in Requests /\ row'[Req].state # "absent"
      /\ row[Req].state \in Q!Terminal => row'[Req].state = row[Req].state
      /\ proc.q.state \in Q!Terminal => row[Req].state = proc.q.state
  BY SameQueue DEF CommandOK, QP!RequestKept, QP!FinalKept
<1>3. proc'.tip \subseteq tip'
  BY DEF CommandOK
<1>4. proc'.q.state \in Q!Terminal => row'[Req].state = proc'.q.state
  BY <1>2, SameQueue
<1> QED
  BY <1>1, <1>2, <1>3, <1>4 DEF CommandOK

\* The intent is of the base the claim named, which the source has had.
LEMMA WriteIntentKeepsInv ==
  ASSUME PipelineInv, WriteIntent
  PROVE  PipelineInv'
<1>1. /\ UNCHANGED <<queueVars, sourceVars, runner, site>>
      /\ job' = [job EXCEPT ![Req].intent = BaseSource]
      /\ Goto("apply") /\ proc.pc = "intent" /\ proc \in Proc /\ ~ At("idle")
      /\ Aim = "intent" /\ Req \in Deviations /\ Req \in Requests
      /\ job[Req] \in Job
  BY DEF WriteIntent, PipelineInv, PipelineTypeOK, RunOK, CommandOK, At, Aim,
     CorrectionSteps, Requests
<1>2. BaseSource \in Contents /\ BaseSource # None /\ BaseSource \subseteq tip
  BY <1>1, PipelineAssumption
     DEF BaseSource, Job, Proc, PipelineInv, StoresOK, SourceOK, RunOK, CommandOK
<1>3. /\ job' \in [Requests -> Job] /\ job'[Req].intent = BaseSource
      /\ job'[Req].candidate = job[Req].candidate
      /\ job'[Req].observation = job[Req].observation
      /\ \A q \in Requests : q # Req => job'[q] = job[q]
  <2> DEFINE x == [job[Req] EXCEPT !.intent = BaseSource]
  <2>1. /\ x \in Job /\ x.intent = BaseSource
        /\ x.candidate = job[Req].candidate
        /\ x.observation = job[Req].observation
    BY <1>1, <1>2, JobWork
  <2>2. job' = [job EXCEPT ![Req] = x] /\ job \in [Requests -> Job]
    BY <1>1 DEF PipelineInv, PipelineTypeOK
  <2> HIDE DEF x
  <2> QED
    BY <1>1, <2>1, <2>2, OneJobChanges
<1>4. /\ proc' \in Proc /\ proc'.pc = "apply" /\ proc'.req = proc.req
      /\ proc'.q = proc.q /\ proc'.tip = proc.tip
  BY <1>1, ProcGoes DEF Steps, RunSteps
<1>5. JournalsTruly
  BY <1>2, <1>3 DEF JournalsTruly
<1>6. /\ (PipelineTypeOK /\ StoresOK)'
      /\ QP!RequestKept /\ QP!WorkKept /\ QP!FinalKept
  BY <1>1, <1>3, <1>4, <1>5, JournalKeepsStores
<1>7. /\ row' = row /\ runner' = runner /\ tip' = tip /\ receipts' = receipts /\ Doubt' = Doubt
  BY <1>1 DEF queueVars, sourceVars, Doubt, Recorded
<1>8. CommandOK' /\ Aim' = "apply" /\ Req' = Req
  BY <1>1, <1>4, <1>6, <1>7, MovedKeepsCommand
     DEF PipelineInv, RunOK, PublicationSteps
<1>9. CorrectionRunOK' /\ PublicationRunOK'
  BY <1>1, <1>2, <1>3, <1>7, <1>8 DEF CorrectionRunOK, PublicationRunOK,
     CorrectionSteps, PublicationSteps, PipelineInv, RunOK
<1>10. NothingGenerated => NothingGenerated'
  BY <1>3, <1>7 DEF NothingGenerated, Q!Pending, Requests
<1>11. ClaimedFirst'
  BY <1>1, <1>4, <1>7, <1>8, <1>10 DEF ClaimedFirst, PipelineInv, RunOK
<1> QED
  BY <1>6, <1>8, <1>9, <1>11 DEF PipelineInv, RunOK

\* A correction applied before is answered with its receipt.
LEMMA ApplyAgainKeepsInv ==
  ASSUME PipelineInv, Apply, UNCHANGED sourceVars, Src!HasReceipt(Req, "adopted")
  PROVE  PipelineInv'
<1>1. /\ UNCHANGED <<queueVars, sourceVars, job, runner, site>>
      /\ Goto("ackAdopted") /\ proc \in Proc /\ ~ At("idle")
      /\ Aim = "apply" /\ Req \in Deviations
  BY DEF Apply, PipelineInv, PipelineTypeOK, RunOK, CommandOK, At, Aim,
     CorrectionSteps
<1>2. /\ proc' \in Proc /\ proc'.pc = "ackAdopted" /\ proc'.req = proc.req
      /\ proc'.q = proc.q /\ proc'.tip = proc.tip
  BY <1>1, ProcGoes DEF Steps, RunSteps
<1>3. (PipelineTypeOK /\ StoresOK)' /\ Steady
  BY <1>1, <1>2, LookingKeepsStores
<1>4. Doubt' = Doubt /\ receipts' = receipts
  BY <1>1 DEF sourceVars, Doubt, Recorded
<1>5. CommandOK' /\ Aim' = "ackAdopted" /\ Req' = Req
  BY <1>1, <1>2, <1>3, MovedKeepsCommand
     DEF PipelineInv, RunOK, PublicationSteps, Steady
<1>6. CorrectionRunOK' /\ PublicationRunOK' /\ ClaimedFirst'
  BY <1>1, <1>4, <1>5 DEF CorrectionRunOK, PublicationRunOK, ClaimedFirst,
     CorrectionSteps, PublicationSteps, PipelineInv, RunOK, Src!HasReceipt
<1> QED
  BY <1>3, <1>5, <1>6 DEF PipelineInv, RunOK

\* The local commit: nothing has been generated, no other commit is unrecorded,
\* and the intent to make this one is on disk.
LEMMA ApplyFirstKeepsInv ==
  ASSUME PipelineInv, Apply, receipts[Req] = None, tip = job[Req].intent,
         Src!ExpectedValueHolds(Req, row[Req].expected),
         tip' = tip \cup {Req},
         receipts' = [receipts EXCEPT ![Req] = [outcome |-> "adopted",
                                                base |-> tip,
                                                target |-> tip \cup {Req}]]
  PROVE  PipelineInv'
<1> DEFINE new == [outcome |-> "adopted", base |-> tip, target |-> tip \cup {Req}]
<1> USE DEF StoresOK, PipelineInv, RunOK
<1>1. /\ UNCHANGED <<queueVars, job, runner, site>>
      /\ Goto("ackAdopted") /\ proc \in Proc /\ ~ At("idle") /\ proc.pc = "apply"
      /\ Aim = "apply" /\ Req \in Deviations /\ Req \in Requests
      /\ proc.q.state = "claimed"
  BY DEF Apply, PipelineTypeOK, CommandOK, At, Aim, CorrectionSteps, Requests
<1>2. /\ row' = row /\ consent' = consent /\ job' = job /\ runner' = runner
      /\ site' = site
  BY <1>1 DEF queueVars
<1>3. /\ tip \in Contents /\ tip' \in Contents /\ new \in Src!Receipt
      /\ new.outcome = "adopted" /\ new.base = tip /\ new # None
      /\ receipts \in [Deviations -> {None} \cup Src!Receipt]
  <2>1. tip \in Contents /\ tip' \in Contents
    BY <1>1 DEF PipelineTypeOK, Src!SourceTypeOK, Contents, Src!Contents
  <2>2. new \in Src!Receipt
    BY <2>1 DEF Src!Receipt, Contents
  <2> QED
    BY <2>1, <2>2, PipelineAssumption DEF PipelineTypeOK, Src!SourceTypeOK
<1> HIDE DEF new
<1>4. /\ receipts' \in [Deviations -> {None} \cup Src!Receipt]
      /\ receipts'[Req] = new
      /\ \A d \in Deviations : d # Req => receipts'[d] = receipts[d]
  BY <1>1, <1>3 DEF new
<1>5. Req \notin tip
  BY <1>1 DEF SourceOK, Src!HasReceipt
<1>6. NothingGenerated
  BY <1>1 DEF ClaimedFirst
<1>7. /\ proc' \in Proc /\ proc'.pc = "ackAdopted" /\ proc'.req = proc.req
      /\ proc'.q = proc.q /\ proc'.tip = proc.tip
  BY <1>1, ProcGoes DEF Steps, RunSteps
<1>8. PipelineTypeOK'
  BY <1>2, <1>3, <1>4, <1>7 DEF PipelineTypeOK, Src!SourceTypeOK, Contents,
     Q!QueueTypeOK
<1>9. QueueOK' /\ QP!RequestKept /\ QP!WorkKept /\ QP!FinalKept
  BY <1>1, QueueStays, QueueGoesOn DEF RecordsNothing
<1>10. SourceOK'
  <2>1. row[Req].state # "absent"
    BY <1>1 DEF CommandOK
  <2> QED
    BY <1>1, <1>2, <1>3, <1>4, <2>1 DEF SourceOK, Src!HasReceipt
<1>11. QueueAgreesWithSource'
  <2> SUFFICES ASSUME NEW d \in Deviations
               PROVE  /\ row[d].adopted # None =>
                           /\ receipts'[d] # None /\ receipts'[d].outcome = "adopted"
                           /\ receipts'[d].target = row[d].adopted
                      /\ row[d].state = "rejected" =>
                           /\ receipts'[d] # None /\ receipts'[d].outcome = "cancelled"
                           /\ d \notin tip'
    BY <1>2 DEF QueueAgreesWithSource, Locally, Src!HasReceipt
  <2>1. CASE d = Req
    BY <2>1 DEF QueueAgreesWithSource, Locally, Src!HasReceipt
  <2>2. CASE d # Req
    BY <1>4, <2>2 DEF QueueAgreesWithSource, Locally, Src!HasReceipt
  <2> QED
    BY <2>1, <2>2
<1>12. ValuesOK'
  <2>1. row[Req].expected = runner.anchor
    BY <1>1 DEF CorrectionRunOK
  <2>2. ValueIn(receipts, tip, Department[Req]) =
          ValueIn(receipts, runner.anchor, Department[Req])
    BY <2>1, ActiveIsValue DEF Src!ExpectedValueHolds
  <2> QED
    BY <1>1, <1>2, <1>3, <1>4, <1>5, <2>1, <2>2, ValuesGoOn
<1>13. CandidatesOK' /\ SiteOK'
  BY <1>2, <1>6 DEF CandidatesOK, SiteOK, NothingGenerated, Q!Pending
<1>14. Doubt' \subseteq {Req} /\ job[Req].intent # None
  <2>1. Doubt \subseteq {Req} /\ job[Req].intent # None
    BY <1>1 DEF CorrectionRunOK, CorrectionSteps
  <2> QED
    BY <1>2, <2>1 DEF Doubt, Recorded
<1>15. RecordsOK'
  <2>1. Recorded' = Recorded
    BY <1>2 DEF Recorded
  <2> QED
    BY <1>2, <1>14, <2>1 DEF RecordsOK
<1>16. CommandOK' /\ Aim' = "ackAdopted" /\ Req' = Req
  BY <1>1, <1>7, <1>9, MovedKeepsCommand DEF PublicationSteps
<1>17. CorrectionRunOK' /\ PublicationRunOK' /\ ClaimedFirst'
  BY <1>3, <1>4, <1>14, <1>16 DEF CorrectionRunOK, PublicationRunOK,
     ClaimedFirst, PublicationSteps, Src!HasReceipt
<1> QED
  BY <1>8, <1>9, <1>10, <1>11, <1>12, <1>13, <1>15, <1>16, <1>17

\* So the worker's adoption keeps the invariant.
LEMMA ApplyKeepsInv ==
  ASSUME PipelineInv, Apply
  PROVE  PipelineInv'
  BY ApplyAgainKeepsInv, ApplyFirstKeepsInv DEF Apply, Src!WorkerAdopt, sourceVars

\* The acknowledgements are calls of the queue.
LEMMA AcksAreCalls ==
  ASSUME QueueOK, NEW tok, NEW src \in Contents
  PROVE  /\ \A d \in Deviations : Q!AckAdopted(d, tok, src) => QP!QueueNext
         /\ \A p \in Publications, pins \in Candidates, recs \in SUBSET Deviations :
              /\ Q!AckGenerated(p, tok, src, pins, recs) => QP!QueueNext
              /\ \A ev \in Evidence :
                   Q!AckConfirmed(p, tok, src, pins, recs, ev) => QP!QueueNext
<1>1. QP!QueueAssumption /\ QP!QueueInv /\ QP!RowsSound
  BY QueueConstants DEF QueueOK
<1>2. ASSUME NEW r \in Requests, QP!AckGuard(r, tok)
      PROVE  tok \in 1..MaxRevision[r]
  <2>1. r \in QP!Requests
    BY SameQueue
  <2>2. row[r] \in QP!Row /\ MaxRevision[r] \in Nat
    BY <1>1, <2>1 DEF QP!QueueInv, QP!QueueTypeOK, QP!QueueAssumption
  <2>3. row[r].token \in Nat /\ row[r].token <= MaxRevision[r]
    BY <1>1, <2>1, <2>2 DEF QP!RowsSound, QP!Row
  <2>4. tok = row[r].token /\ tok # 0
    BY <1>2 DEF QP!AckGuard
  <2> QED
    BY <2>2, <2>3, <2>4
<1>3. ASSUME NEW d \in Deviations, Q!AckAdopted(d, tok, src)
      PROVE  QP!QueueNext
  <2>1. QP!AckAdopted(d, tok, src)
    BY <1>3, SameAcks
  <2>2. tok \in 1..MaxRevision[d]
    BY <1>2, <2>1 DEF QP!AckAdopted, Requests
  <2> QED
    BY <2>1, <2>2 DEF QP!AckCall, QP!QueueNext
<1>4. ASSUME NEW p \in Publications, NEW pins \in Candidates,
             NEW recs \in SUBSET Deviations,
             Q!AckGenerated(p, tok, src, pins, recs)
      PROVE  QP!QueueNext
  <2>1. QP!AckGenerated(p, tok, src, pins, recs)
    BY <1>4, SameAcks
  <2>2. tok \in 1..MaxRevision[p]
    BY <1>2, <2>1 DEF QP!AckGenerated, Requests
  <2> QED
    BY <2>1, <2>2 DEF QP!AckCall, QP!QueueNext
<1>5. ASSUME NEW p \in Publications, NEW pins \in Candidates,
             NEW recs \in SUBSET Deviations, NEW ev \in Evidence,
             Q!AckConfirmed(p, tok, src, pins, recs, ev)
      PROVE  QP!QueueNext
  <2>1. QP!AckConfirmed(p, tok, src, pins, recs, ev)
    BY <1>5, SameAcks
  <2>2. tok \in 1..MaxRevision[p]
    BY <1>2, <2>1 DEF QP!AckConfirmed, Requests
  <2> QED
    BY <2>1, <2>2 DEF QP!AckCall, QP!QueueNext
<1> QED
  BY <1>3, <1>4, <1>5

\* A call that records the truth keeps types and stores, and is steady unless it
\* confirms the command's own publication.
LEMMA TrueCallKeepsStores ==
  ASSUME PipelineInv, [QP!QueueNext]_QP!queueVars, RecordsTruly,
         UNCHANGED <<sourceVars, job, runner, site>>
  PROVE  /\ StoresOK'
         /\ proc' \in Proc => PipelineTypeOK'
         /\ QP!RequestKept /\ QP!WorkKept /\ QP!FinalKept
         /\ \A r \in Requests : row'[r] \in Q!Row
         /\ \/ Req \notin Requests
            \/ row'[Req].state # "publication_confirmed"
            \/ row[Req].state = "publication_confirmed"
            \/ Aim = "ackConfirmed"
            => Steady
<1>1. QueueOK' /\ QP!WorkKept /\ QP!RequestKept /\ QP!FinalKept
  BY QueueGoesOn DEF PipelineInv, StoresOK
<1>2. StoresOK'
  BY QueueStepKeepsStores DEF PipelineInv
<1>3. Q!QueueTypeOK'
  BY <1>1, SameQueue DEF QueueOK, QP!QueueInv, Q!QueueTypeOK, QP!QueueTypeOK
<1>4. proc' \in Proc => PipelineTypeOK'
  BY <1>3 DEF PipelineInv, PipelineTypeOK, sourceVars, Src!SourceTypeOK
<1>5. \A r \in Requests : row'[r] \in Q!Row
  BY <1>3, SameQueue DEF Q!QueueTypeOK
<1> QED
  BY <1>1, <1>2, <1>4, <1>5 DEF Steady, SameWork, sourceVars

\* The adopted ACK names the receipt's target.
LEMMA AckAdoptedKeepsInv ==
  ASSUME PipelineInv, AckAdopted
  PROVE  PipelineInv' /\ CallsQueue
<1> USE DEF PipelineInv, StoresOK, RunOK
<1> DEFINE target == receipts[Req].target
<1>1. /\ UNCHANGED <<sourceVars, job, runner, site>>
      /\ Acked("recordAdopted") /\ proc \in Proc /\ proc.pc = "ackAdopted"
      /\ ~ At("idle") /\ Aim = "ackAdopted" /\ Req \in Deviations /\ Req \in Requests
      /\ \/ Q!AckAdopted(Req, proc.q.token, target)
         \/ /\ Q!AckRepeated(Req, proc.q.token, "adopted", target, None, None, None)
            /\ UNCHANGED queueVars
  BY DEF AckAdopted, PipelineTypeOK, CommandOK, At, Aim, CorrectionSteps, Requests
<1>2. /\ Src!HasReceipt(Req, "adopted") /\ target \in Contents /\ target # None
  <2>1. Src!HasReceipt(Req, "adopted")
    BY <1>1 DEF CorrectionRunOK
  <2>2. receipts[Req] \in Src!Receipt
    BY <1>1, <2>1 DEF PipelineTypeOK, Src!SourceTypeOK, Src!HasReceipt
  <2> QED
    BY <2>1, <2>2, PipelineAssumption DEF Src!Receipt, Contents
<1> HIDE DEF target
<1>3. /\ [QP!QueueNext]_QP!queueVars
      /\ \A q \in Requests : q # Req => row'[q] = row[q]
      /\ row'[Req].adopted = target /\ row'[Req].state = "adopted"
  <2>1. CASE Q!AckAdopted(Req, proc.q.token, target)
    <3>1. QP!AckAdopted(Req, proc.q.token, target)
      BY <2>1, SameAcks
    <3>2. /\ QP!OnlyRow(Req) /\ row'[Req].adopted = target
          /\ row'[Req].state = "adopted"
      BY <1>1, <1>2, <3>1, QueueConstants, QP!AckAdoptedEffect
         DEF QueueOK, QP!QueueInv
    <3> QED
      BY <1>1, <1>2, <2>1, <3>2, AcksAreCalls, SameQueue DEF QP!OnlyRow
  <2>2. CASE /\ Q!AckRepeated(Req, proc.q.token, "adopted", target, None, None, None)
             /\ UNCHANGED queueVars
    BY <2>2, QueueStays DEF RecordsNothing, queueVars, Q!AckRepeated
  <2> QED
    BY <1>1, <2>1, <2>2
<1> SUFFICES PipelineInv'
  BY <1>3 DEF CallsQueue
<1>4. RecordsTruly
  BY <1>1, <1>2, <1>3, PipelineAssumption
     DEF RecordsTruly, Locally, target, Requests
<1>5. /\ StoresOK'
      /\ proc' \in Proc => PipelineTypeOK'
      /\ QP!RequestKept /\ QP!WorkKept /\ QP!FinalKept
      /\ row'[Req] \in Q!Row
      /\ Steady
  BY <1>1, <1>3, <1>4, TrueCallKeepsStores
<1>6. CASE /\ proc' \in Proc /\ proc'.pc = proc.pc /\ proc'.ret = proc.ret
           /\ proc'.req = proc.req /\ proc'.tip = proc.tip /\ proc'.q = proc.q
  BY <1>5, <1>6, WaitingKeepsRun
<1>7. CASE /\ proc' \in Proc /\ proc'.pc = "recordAdopted" /\ proc'.req = proc.req
           /\ proc'.tip = {} /\ proc'.q.state = "absent"
  <2>1. CommandOK' /\ Aim' = "recordAdopted" /\ Req' = Req
    BY <1>1, <1>5, <1>7, MovedKeepsCommand DEF PublicationSteps, Steady
  <2>2. Doubt' = Doubt /\ receipts' = receipts /\ Doubt \subseteq {Req}
    BY <1>1 DEF sourceVars, Doubt, Recorded, CorrectionRunOK, CorrectionSteps
  <2>3. CorrectionRunOK' /\ PublicationRunOK' /\ ClaimedFirst'
    BY <1>2, <1>3, <2>1, <2>2 DEF CorrectionRunOK, PublicationRunOK, ClaimedFirst,
       PublicationSteps, Src!HasReceipt
  <2> QED
    BY <1>5, <1>7, <2>1, <2>3
<1>8. /\ "recordAdopted" \in Steps /\ "recordAdopted" \in RecordSteps
  BY DEF Steps, RecordSteps
<1> QED
  BY <1>1, <1>5, <1>6, <1>7, <1>8, ProcAcked

\* A history is what was recorded, and one more entry once it is appended.
LEMMA RecordAdoptedKeepsInv ==
  ASSUME PipelineInv, RecordAdopted
  PROVE  PipelineInv'
<1> USE DEF PipelineInv, StoresOK, RunOK
<1> DEFINE h == IF Listed(Req) THEN runner.history ELSE Append(runner.history, Req)
<1>1. /\ UNCHANGED <<queueVars, sourceVars, job, site>>
      /\ runner' = [runner EXCEPT
                      !.history = IF Listed(Req) THEN @ ELSE Append(@, Req),
                      !.completed[Req] = "adopted"]
      /\ proc' = NoProc /\ Aim = "recordAdopted" /\ runner \in Runner
      /\ Req \in Deviations /\ Req \in Requests
  BY DEF RecordAdopted, PipelineTypeOK, CommandOK, At, Aim, CorrectionSteps, Requests
<1>2. /\ row' = row /\ consent' = consent /\ tip' = tip /\ receipts' = receipts
      /\ job' = job /\ site' = site
  BY <1>1 DEF queueVars, sourceVars
<1>3. h \in Seq(Deviations) /\ {h[i] : i \in 1..Len(h)} = Recorded \cup {Req}
  <2>1. runner.history \in Seq(Deviations) /\ Len(runner.history) \in Nat
    BY <1>1 DEF Runner
  <2>2. CASE Listed(Req)
    BY <2>1, <2>2 DEF Listed, Recorded
  <2>3. CASE ~ Listed(Req)
    <3>1. h = Append(runner.history, Req)
      BY <2>3
    <3>2. /\ h \in Seq(Deviations) /\ Len(h) = Len(runner.history) + 1
          /\ \A i \in 1..Len(h) : h[i] = IF i <= Len(runner.history)
                                         THEN runner.history[i] ELSE Req
      BY <1>1, <2>1, <3>1
    <3>3. {h[i] : i \in 1..Len(h)} \subseteq Recorded \cup {Req}
      BY <2>1, <3>2 DEF Recorded
    <3>4. Recorded \cup {Req} \subseteq {h[i] : i \in 1..Len(h)}
      BY <2>1, <3>2 DEF Recorded
    <3> QED
      BY <3>2, <3>3, <3>4
  <2> QED
    BY <2>2, <2>3
<1>4. /\ runner' \in Runner /\ runner'.anchor = runner.anchor
      /\ runner'.history = h
      /\ runner'.completed = [runner.completed EXCEPT ![Req] = "adopted"]
  BY <1>1, <1>3 DEF Runner
<1> HIDE DEF h
<1>5. Recorded' = Recorded \cup {Req} /\ Doubt' \subseteq Doubt
  <2>1. Recorded' = {h[i] : i \in 1..Len(h)}
    BY <1>4 DEF Recorded
  <2> QED
    BY <1>2, <1>3, <1>4, <2>1 DEF Doubt
<1>6. Req \in tip /\ row[Req].adopted # None
  BY <1>1 DEF CorrectionRunOK, SourceOK
<1>7. PipelineTypeOK'
  <2>1. proc' \in Proc
    BY <1>1, ProcEnds DEF PipelineTypeOK
  <2> QED
    BY <1>2, <1>4, <2>1 DEF PipelineTypeOK, Src!SourceTypeOK, Q!QueueTypeOK
<1>8. RecordsOK'
  <2>1. runner.completed \in
          [Requests -> {None, "adopted", "rejected", "publication_confirmed"}]
    BY <1>1 DEF Runner
  <2> QED
    BY <1>1, <1>2, <1>4, <1>5, <1>6, <2>1 DEF RecordsOK
<1>9. StoresOK'
  <2>1. QueueOK'
    BY <1>1, QueueStays, QueueGoesOn DEF RecordsNothing
  <2>2. SourceOK' /\ QueueAgreesWithSource' /\ ValuesOK'
    <3>1. SourceOK' /\ QueueAgreesWithSource'
      BY <1>2 DEF SourceOK, QueueAgreesWithSource, Locally, Src!HasReceipt
    <3>2. ValuesOK'
      BY <1>2, <1>4, ValuesStayPut
    <3> QED
      BY <3>1, <3>2
  <2>3. CandidatesOK' /\ SiteOK'
    BY <1>2 DEF CandidatesOK, SiteOK, Q!Pending
  <2> QED
    BY <1>8, <2>1, <2>2, <2>3
<1>10. RunOK'
  <2>1. proc'.pc = "idle" /\ proc'.tip \subseteq tip'
    BY <1>1, ProcEnds DEF PipelineTypeOK
  <2> QED
    BY <2>1, IdleKeepsRun
<1> QED
  BY <1>7, <1>9, <1>10

----------------------------------------------------------------------------
(* A rejection.                                                            *)

\* One that the queue has already, and only state.json lacks.
LEMMA RejectReconcilesKeepsInv ==
  ASSUME PipelineInv, RejectReconciles
  PROVE  PipelineInv'
<1> USE DEF PipelineInv, RunOK
<1>1. /\ UNCHANGED <<queueVars, sourceVars, job, runner, site>>
      /\ proc.pc = "rejectOpen" /\ ToRecord("recordRejected") /\ proc \in Proc
      /\ ~ At("idle") /\ row[Req].state = "rejected"
  BY SameQueue DEF RejectReconciles, At, PipelineTypeOK, CommandOK
<1>2. /\ proc' \in Proc /\ proc'.pc = "recordRejected" /\ proc'.req = proc.req
      /\ proc'.tip = {} /\ proc'.q.state = "absent"
  BY <1>1, ProcEnds DEF Steps, RecordSteps
<1>3. (PipelineTypeOK /\ StoresOK)' /\ Steady
  BY <1>1, <1>2, LookingKeepsStores
<1>4. CommandOK' /\ Aim' = "recordRejected" /\ Req' = Req
  BY <1>1, <1>2, <1>3, MovedKeepsCommand
     DEF CorrectionSteps, PublicationSteps, Steady
<1>5. CorrectionRunOK' /\ PublicationRunOK' /\ ClaimedFirst'
  BY <1>1, <1>4 DEF CorrectionRunOK, PublicationRunOK, ClaimedFirst,
     CorrectionSteps, PublicationSteps, queueVars
<1> QED
  BY <1>3, <1>4, <1>5

\* The review of a correction: its tombstone is written under an intent.
LEMMA RejectDeviationKeepsInv ==
  ASSUME PipelineInv, NEW d \in Deviations, RejectDeviation(d)
  PROVE  PipelineInv'
<1> USE DEF PipelineInv, RunOK
<1>1. /\ UNCHANGED <<queueVars, sourceVars, job, runner, site>>
      /\ proc.pc = "rejectOpen" /\ Req = d /\ proc \in Proc /\ ~ At("idle")
  BY DEF RejectDeviation, At, PipelineTypeOK
<1>2. PICK pc \in {"rejectIntent", "cancel"} :
        /\ Goto(pc)
        /\ pc = "cancel" => job[d].intent # None
  BY DEF RejectDeviation
<1>3. /\ proc' \in Proc /\ proc'.pc = pc /\ proc'.req = proc.req
      /\ proc'.tip = proc.tip /\ proc'.q = proc.q
  BY <1>1, <1>2, ProcGoes DEF Steps, RejectSteps
<1>4. (PipelineTypeOK /\ StoresOK)' /\ Steady
  BY <1>1, <1>3, LookingKeepsStores
<1>5. CommandOK' /\ Aim' = pc /\ Req' = d
  BY <1>1, <1>2, <1>3, <1>4, MovedKeepsCommand DEF PublicationSteps, Steady
<1>6. CorrectionRunOK' /\ PublicationRunOK' /\ ClaimedFirst'
  BY <1>1, <1>2, <1>5 DEF CorrectionRunOK, PublicationRunOK, ClaimedFirst,
     CorrectionSteps, PublicationSteps
<1> QED
  BY <1>4, <1>5, <1>6

\* The review of a publication and of its members.
LEMMA RejectPublicationKeepsInv ==
  ASSUME PipelineInv, NEW p \in Publications, RejectPublication(p)
  PROVE  PipelineInv'
<1> USE DEF PipelineInv, RunOK
<1>1. /\ UNCHANGED <<queueVars, sourceVars, job, runner, site>>
      /\ proc.pc = "rejectOpen" /\ Req = p /\ proc \in Proc /\ ~ At("idle")
      /\ Goto("evidence") /\ Req \notin Deviations
  BY PipelineAssumption DEF RejectPublication, At, PipelineTypeOK
<1>2. /\ proc' \in Proc /\ proc'.pc = "evidence" /\ proc'.req = proc.req
      /\ proc'.tip = proc.tip /\ proc'.q = proc.q
  BY <1>1, ProcGoes DEF Steps, RejectSteps
<1>3. (PipelineTypeOK /\ StoresOK)' /\ Steady
  BY <1>1, <1>2, LookingKeepsStores
<1>4. CommandOK' /\ Aim' = "evidence" /\ Req' = Req
  BY <1>1, <1>2, <1>3, MovedKeepsCommand
     DEF CorrectionSteps, PublicationSteps, Steady
<1>5. CorrectionRunOK' /\ PublicationRunOK' /\ ClaimedFirst'
  BY <1>1, <1>4 DEF CorrectionRunOK, PublicationRunOK, ClaimedFirst,
     CorrectionSteps, PublicationSteps
<1> QED
  BY <1>3, <1>4, <1>5

\* The intent to cancel is of the content that was read.
LEMMA RejectIntentKeepsInv ==
  ASSUME PipelineInv, RejectIntent
  PROVE  PipelineInv'
<1> USE DEF PipelineInv, RunOK
<1>1. /\ UNCHANGED <<queueVars, sourceVars, runner, site>>
      /\ job' = [job EXCEPT ![Req].intent = proc.tip]
      /\ Goto("cancel") /\ proc.pc = "rejectIntent" /\ proc \in Proc /\ ~ At("idle")
      /\ Req \in Deviations /\ Req \in Requests /\ job[Req] \in Job
  BY DEF RejectIntent, PipelineTypeOK, CommandOK, At, Aim, Requests
<1>2. proc.tip \in Contents /\ proc.tip # None /\ proc.tip \subseteq tip
  BY <1>1, PipelineAssumption DEF Proc, CommandOK
<1>3. /\ job' \in [Requests -> Job] /\ job'[Req].intent = proc.tip
      /\ job'[Req].candidate = job[Req].candidate
      /\ job'[Req].observation = job[Req].observation
      /\ \A q \in Requests : q # Req => job'[q] = job[q]
  <2> DEFINE x == [job[Req] EXCEPT !.intent = proc.tip]
  <2>1. /\ x \in Job /\ x.intent = proc.tip
        /\ x.candidate = job[Req].candidate
        /\ x.observation = job[Req].observation
    BY <1>1, <1>2, JobWork
  <2>2. job' = [job EXCEPT ![Req] = x] /\ job \in [Requests -> Job]
    BY <1>1 DEF PipelineTypeOK
  <2> HIDE DEF x
  <2> QED
    BY <1>1, <2>1, <2>2, OneJobChanges
<1>4. /\ proc' \in Proc /\ proc'.pc = "cancel" /\ proc'.req = proc.req
      /\ proc'.q = proc.q /\ proc'.tip = proc.tip
  BY <1>1, ProcGoes DEF Steps, RejectSteps
<1>5. JournalsTruly
  BY <1>2, <1>3 DEF JournalsTruly
<1>6. /\ (PipelineTypeOK /\ StoresOK)'
      /\ QP!RequestKept /\ QP!WorkKept /\ QP!FinalKept
  BY <1>1, <1>3, <1>4, <1>5, JournalKeepsStores
<1>7. CommandOK' /\ Aim' = "cancel" /\ Req' = Req
  BY <1>1, <1>4, <1>6, MovedKeepsCommand DEF PublicationSteps, sourceVars
<1>8. CorrectionRunOK' /\ PublicationRunOK' /\ ClaimedFirst'
  BY <1>2, <1>3, <1>7 DEF CorrectionRunOK, PublicationRunOK, ClaimedFirst,
     CorrectionSteps, PublicationSteps
<1> QED
  BY <1>6, <1>7, <1>8

\* The evidence is a line the invariant does not speak of.
LEMMA JournalEvidenceKeepsInv ==
  ASSUME PipelineInv, JournalEvidence
  PROVE  PipelineInv'
<1> USE DEF PipelineInv, RunOK
<1>1. /\ UNCHANGED <<queueVars, sourceVars, runner, site>>
      /\ job' = [job EXCEPT ![Req].evidence = proc.tip]
      /\ Goto("reject") /\ proc.pc = "evidence" /\ proc \in Proc /\ ~ At("idle")
      /\ Aim = "evidence" /\ Req \in Requests /\ job[Req] \in Job
  BY DEF JournalEvidence, PipelineTypeOK, CommandOK, At, Aim
<1>2. /\ proc' \in Proc /\ proc'.pc = "reject" /\ proc'.req = proc.req
      /\ proc'.q = proc.q /\ proc'.tip = proc.tip
  BY <1>1, ProcGoes DEF Steps, RejectSteps
<1>3. (PipelineTypeOK /\ StoresOK)' /\ Steady
  <2> DEFINE x == [job[Req] EXCEPT !.evidence = proc.tip]
  <2>1. proc.tip \in {None} \cup Contents
    BY <1>1, ProcFields
  <2>2. x \in Job /\ SameWork(job[Req], x)
    BY <1>1, <2>1, JobMarks
  <2>3. job' = [job EXCEPT ![Req] = x]
    BY <1>1
  <2> HIDE DEF x
  <2> QED
    BY <1>1, <1>2, <2>2, <2>3, MarksKeepStores
<1>4. CommandOK' /\ Aim' = "reject" /\ Req' = Req
  BY <1>1, <1>2, <1>3, MovedKeepsCommand
     DEF CorrectionSteps, PublicationSteps, Steady
<1>5. CorrectionRunOK' /\ PublicationRunOK' /\ ClaimedFirst'
  BY <1>1, <1>4 DEF CorrectionRunOK, PublicationRunOK, ClaimedFirst,
     CorrectionSteps, PublicationSteps, sourceVars, Src!HasReceipt
<1> QED
  BY <1>3, <1>4, <1>5

\* A tombstone that is there already is answered again.
LEMMA CancelAgainKeepsInv ==
  ASSUME PipelineInv, Cancel, UNCHANGED sourceVars, Src!HasReceipt(Req, "cancelled")
  PROVE  PipelineInv'
<1> USE DEF PipelineInv, RunOK
<1>1. /\ UNCHANGED <<queueVars, sourceVars, job, runner, site>>
      /\ proc.pc = "cancel" /\ proc \in Proc /\ ~ At("idle") /\ Req \in Deviations
      /\ Goto("evidence") \/ proc' = NoProc
  BY DEF Cancel, At, Aim, PipelineTypeOK, CommandOK
<1>2. CASE proc' = NoProc
  <2>1. proc' \in Proc /\ proc'.pc = "idle" /\ proc'.tip \subseteq tip'
    BY <1>1, <1>2, ProcEnds
  <2> QED
    BY <1>1, <2>1, IdleKeepsRun, LookingKeepsStores
<1>3. CASE Goto("evidence")
  <2>1. /\ proc' \in Proc /\ proc'.pc = "evidence" /\ proc'.req = proc.req
        /\ proc'.tip = proc.tip /\ proc'.q = proc.q
    BY <1>1, <1>3, ProcGoes DEF Steps, RejectSteps
  <2>2. (PipelineTypeOK /\ StoresOK)' /\ Steady
    BY <1>1, <2>1, LookingKeepsStores
  <2>3. CommandOK' /\ Aim' = "evidence" /\ Req' = Req
    BY <1>1, <2>1, <2>2, MovedKeepsCommand
       DEF CorrectionSteps, PublicationSteps, Steady
  <2>4. CorrectionRunOK' /\ PublicationRunOK' /\ ClaimedFirst'
    BY <1>1, <2>3 DEF CorrectionRunOK, PublicationRunOK, ClaimedFirst,
       CorrectionSteps, PublicationSteps, sourceVars, Src!HasReceipt
  <2> QED
    BY <2>2, <2>3, <2>4
<1> QED
  BY <1>1, <1>2, <1>3

\* A new tombstone: the queue has recorded no adoption, because there was no
\* receipt of one.
LEMMA CancelFirstKeepsInv ==
  ASSUME PipelineInv, Cancel, receipts[Req] = None, UNCHANGED tip,
         receipts' = [receipts EXCEPT ![Req] = [outcome |-> "cancelled",
                                                base |-> job[Req].intent,
                                                target |-> tip]]
  PROVE  PipelineInv'
<1> DEFINE new == [outcome |-> "cancelled", base |-> job[Req].intent,
                   target |-> tip]
<1> USE DEF StoresOK, PipelineInv, RunOK
<1>1. /\ UNCHANGED <<queueVars, job, runner, site>>
      /\ proc.pc = "cancel" /\ proc \in Proc /\ ~ At("idle")
      /\ Aim = "cancel" /\ Req \in Deviations /\ Req \in Requests
      /\ Goto("evidence") \/ proc' = NoProc
  BY DEF Cancel, At, Aim, PipelineTypeOK, CommandOK, Requests
<1>2. /\ row' = row /\ consent' = consent /\ job' = job /\ runner' = runner
      /\ site' = site
  BY <1>1 DEF queueVars
<1>3. /\ new \in Src!Receipt /\ new.outcome = "cancelled" /\ new.base \subseteq tip
      /\ new # None
      /\ tip \in Contents /\ receipts \in [Deviations -> {None} \cup Src!Receipt]
  <2>1. job[Req].intent \in Contents /\ job[Req].intent \subseteq tip
    BY <1>1 DEF PipelineTypeOK, Job, CorrectionRunOK, SourceOK
  <2>2. tip \in Contents /\ receipts \in [Deviations -> {None} \cup Src!Receipt]
    BY DEF PipelineTypeOK, Src!SourceTypeOK, Contents
  <2>3. new \in Src!Receipt
    BY <2>1, <2>2 DEF Src!Receipt, Contents
  <2> QED
    BY <2>1, <2>2, <2>3, PipelineAssumption
<1> HIDE DEF new
<1>4. /\ receipts' \in [Deviations -> {None} \cup Src!Receipt]
      /\ receipts'[Req] = new
      /\ \A d \in Deviations : d # Req => receipts'[d] = receipts[d]
  BY <1>1, <1>3 DEF new
<1>5. /\ proc' \in Proc
      /\ \/ proc'.pc = "idle" /\ proc'.tip = {}
         \/ /\ proc'.pc = "evidence" /\ proc'.req = proc.req
            /\ proc'.tip = proc.tip /\ proc'.q = proc.q
  BY <1>1, ProcGoes, ProcEnds DEF Steps, RejectSteps
<1>6. PipelineTypeOK'
  BY <1>2, <1>3, <1>4, <1>5 DEF PipelineTypeOK, Src!SourceTypeOK, Contents,
     Q!QueueTypeOK
<1>7. QueueOK' /\ QP!RequestKept /\ QP!WorkKept /\ QP!FinalKept
  BY <1>1, QueueStays, QueueGoesOn DEF RecordsNothing
<1>8. SourceOK'
  <2>1. row[Req].state # "absent"
    BY <1>1 DEF CommandOK
  <2> QED
    BY <1>1, <1>2, <1>3, <1>4, <2>1 DEF SourceOK, Src!HasReceipt
<1>9. QueueAgreesWithSource'
  <2> SUFFICES ASSUME NEW d \in Deviations
               PROVE  /\ row[d].adopted # None =>
                           /\ receipts'[d] # None /\ receipts'[d].outcome = "adopted"
                           /\ receipts'[d].target = row[d].adopted
                      /\ row[d].state = "rejected" =>
                           /\ receipts'[d] # None /\ receipts'[d].outcome = "cancelled"
                           /\ d \notin tip
    BY <1>2 DEF QueueAgreesWithSource, Locally, Src!HasReceipt
  <2>1. CASE d = Req
    BY <2>1 DEF QueueAgreesWithSource, Locally, Src!HasReceipt
  <2>2. CASE d # Req
    BY <1>4, <2>2 DEF QueueAgreesWithSource, Locally, Src!HasReceipt
  <2> QED
    BY <2>1, <2>2
<1>10. ValuesOK'
  BY <1>1, <1>2, <1>3, <1>4, ValuesStay
<1>11. CandidatesOK' /\ SiteOK' /\ RecordsOK'
  BY <1>2 DEF CandidatesOK, SiteOK, Q!Pending, RecordsOK, Doubt, Recorded
<1>12. RunOK'
  <2>1. CASE proc'.pc = "idle" /\ proc'.tip = {}
    BY <2>1, IdleKeepsRun
  <2>2. CASE /\ proc'.pc = "evidence" /\ proc'.req = proc.req
             /\ proc'.tip = proc.tip /\ proc'.q = proc.q
    <3>1. CommandOK' /\ Aim' = "evidence" /\ Req' = Req
      BY <1>1, <1>7, <2>2, MovedKeepsCommand DEF CorrectionSteps, PublicationSteps
    <3>2. CorrectionRunOK' /\ PublicationRunOK' /\ ClaimedFirst'
      BY <1>3, <1>4, <3>1 DEF CorrectionRunOK, PublicationRunOK,
         ClaimedFirst, CorrectionSteps, PublicationSteps, Src!HasReceipt
    <3> QED
      BY <3>1, <3>2
  <2> QED
    BY <1>5, <2>1, <2>2
<1> QED
  BY <1>6, <1>7, <1>8, <1>9, <1>10, <1>11, <1>12

\* So the worker's cancellation keeps the invariant.
LEMMA CancelKeepsInv ==
  ASSUME PipelineInv, Cancel
  PROVE  PipelineInv'
  BY CancelAgainKeepsInv, CancelFirstKeepsInv DEF Cancel, Src!WorkerCancel, sourceVars

\* reject_school_change finds the tombstone in the source.
LEMMA RejectCallKeepsInv ==
  ASSUME PipelineInv, RejectCall
  PROVE  PipelineInv' /\ CallsQueue
<1> USE DEF PipelineInv, StoresOK, RunOK
<1>1. /\ UNCHANGED <<sourceVars, job, runner, site>>
      /\ Acked("recordRejected") /\ proc \in Proc /\ proc.pc = "reject"
      /\ ~ At("idle") /\ Aim = "reject" /\ Req \in Requests
      /\ Req \in Deviations => Req \in Locally("cancelled")
  BY DEF RejectCall, PipelineTypeOK, CommandOK, CorrectionRunOK, At, Aim, Locally
<1>2. /\ [QP!QueueNext]_QP!queueVars /\ QP!RecordsStay
      /\ row'[Req].state = "rejected"
      /\ \A q \in Requests : q # Req => row'[q].state = row[q].state
  <2>1. CASE \/ Req \in Deviations /\ Q!RejectDeviation(Req, proc.q.revision)
             \/ Req \in Publications /\ Q!RejectPublication(Req, proc.q.revision)
    <3>1. \/ Req \in Deviations /\ QP!RejectDeviation(Req, proc.q.revision)
          \/ Req \in Publications /\ QP!RejectPublication(Req, proc.q.revision)
      BY <2>1, SameRequestsAndRejections
    <3>2. proc.q.revision = row[Req].revision
      BY <3>1 DEF QP!RejectDeviation, QP!RejectPublication, QP!RejectGuard
    <3>3. QP!QueueNext
      BY <3>1, <3>2 DEF QP!QueueNext, QP!RejectCall
    <3>4. QP!QueueInv /\ QP!QueueAssumption /\ QP!Requests = Requests
      BY QueueConstants, SameQueue DEF QueueOK
    <3>5. /\ QP!RecordsStay /\ row'[Req].state = "rejected"
          /\ \A q \in QP!Requests : q # Req => row'[q].state = row[q].state
      BY <1>1, <3>1, <3>4, QP!RejectionsKeepRecords
    <3> QED
      BY <3>3, <3>4, <3>5
  <2>2. CASE row[Req].state = "rejected" /\ UNCHANGED queueVars
    BY <2>2, QueueStays DEF RecordsNothing, queueVars
  <2> QED
    BY <2>1, <2>2 DEF RejectCall
<1> SUFFICES PipelineInv'
  BY <1>2 DEF CallsQueue
<1>3. RecordsTruly
  <2>1. \A q \in Requests : QP!SameRecords(q)
    BY <1>2, SameQueue DEF QP!RecordsStay
  <2> QED
    BY <1>1, <1>2, <2>1 DEF RecordsTruly, QP!SameRecords, Requests
<1>4. /\ StoresOK'
      /\ proc' \in Proc => PipelineTypeOK'
      /\ QP!RequestKept /\ QP!WorkKept /\ QP!FinalKept
      /\ row'[Req] \in Q!Row
      /\ Steady
  BY <1>1, <1>2, <1>3, TrueCallKeepsStores
<1>5. CASE /\ proc' \in Proc /\ proc'.pc = proc.pc /\ proc'.ret = proc.ret
           /\ proc'.req = proc.req /\ proc'.tip = proc.tip /\ proc'.q = proc.q
  BY <1>4, <1>5, WaitingKeepsRun
<1>6. CASE /\ proc' \in Proc /\ proc'.pc = "recordRejected" /\ proc'.req = proc.req
           /\ proc'.tip = {} /\ proc'.q.state = "absent"
  <2>1. CommandOK' /\ Aim' = "recordRejected" /\ Req' = Req
    BY <1>1, <1>4, <1>6, MovedKeepsCommand
       DEF CorrectionSteps, PublicationSteps, Steady
  <2>2. CorrectionRunOK' /\ PublicationRunOK' /\ ClaimedFirst'
    BY <1>2, <2>1 DEF CorrectionRunOK, PublicationRunOK, ClaimedFirst,
       CorrectionSteps, PublicationSteps
  <2> QED
    BY <1>4, <1>6, <2>1, <2>2
<1>7. "recordRejected" \in Steps /\ "recordRejected" \in RecordSteps
  BY DEF Steps, RecordSteps
<1> QED
  BY <1>1, <1>4, <1>5, <1>6, <1>7, ProcAcked

\* A request state.json calls rejected is so in the queue.
LEMMA RecordRejectedKeepsInv ==
  ASSUME PipelineInv, RecordRejected
  PROVE  PipelineInv'
<1> USE DEF PipelineInv, StoresOK, RunOK
<1>1. /\ UNCHANGED <<queueVars, sourceVars, job, site>>
      /\ runner' = [runner EXCEPT !.completed[Req] = "rejected"]
      /\ proc' = NoProc /\ Req \in Requests /\ runner \in Runner
      /\ row[Req].state = "rejected"
  BY DEF RecordRejected, At, Aim, PipelineTypeOK, CommandOK, CorrectionRunOK
<1>2. /\ row' = row /\ consent' = consent /\ tip' = tip /\ receipts' = receipts
      /\ job' = job /\ site' = site
  BY <1>1 DEF queueVars, sourceVars
<1>3. /\ runner' \in Runner /\ runner'.anchor = runner.anchor
      /\ runner'.history = runner.history
      /\ runner'.completed = [runner.completed EXCEPT ![Req] = "rejected"]
  BY <1>1 DEF Runner
<1>4. /\ proc' \in Proc /\ proc'.pc = "idle" /\ proc'.tip \subseteq tip'
  BY <1>1, ProcEnds DEF PipelineTypeOK
<1>5. PipelineTypeOK'
  BY <1>2, <1>3, <1>4 DEF PipelineTypeOK, Src!SourceTypeOK, Q!QueueTypeOK
<1>6. Recorded' = Recorded /\ Doubt' = Doubt
  BY <1>2, <1>3 DEF Recorded, Doubt
<1>7. RecordsOK'
  <2>1. runner.completed \in
          [Requests -> {None, "adopted", "rejected", "publication_confirmed"}]
    BY <1>1 DEF Runner
  <2> QED
    BY <1>1, <1>2, <1>3, <1>6, <2>1 DEF RecordsOK
<1>8. QueueOK'
  BY <1>1, QueueStays, QueueGoesOn DEF RecordsNothing
<1>9. SourceOK' /\ QueueAgreesWithSource' /\ ValuesOK'
  <2>1. SourceOK' /\ QueueAgreesWithSource'
    BY <1>2 DEF SourceOK, QueueAgreesWithSource, Locally, Src!HasReceipt
  <2>2. ValuesOK'
    BY <1>2, <1>3, ValuesStayPut
  <2> QED
    BY <2>1, <2>2
<1>10. CandidatesOK' /\ SiteOK'
  BY <1>2 DEF CandidatesOK, SiteOK, Q!Pending
<1>11. RunOK'
  BY <1>4, IdleKeepsRun
<1> QED
  BY <1>5, <1>7, <1>8, <1>9, <1>10, <1>11

----------------------------------------------------------------------------
(* A publication.                                                          *)

\* A first candidate is of the tip the command read, which is still the source;
\* a later command goes on with the one it finds.
LEMMA GenerateKeepsInv ==
  ASSUME PipelineInv, Generate
  PROVE  PipelineInv'
<1> USE DEF PipelineInv, StoresOK, RunOK
<1>1. /\ UNCHANGED <<queueVars, sourceVars, runner, site>>
      /\ Goto("ackGenerated") /\ proc \in Proc /\ proc.pc = "generate"
      /\ ~ At("idle") /\ Aim = "generate" /\ Req \in Publications
      /\ Req \in Requests /\ job[Req] \in Job /\ row[Req].state # "absent"
      /\ proc.tip = row[Req].expected \cup row[Req].included
      /\ row[Req].expected = runner.anchor
      /\ row[Req].state # "publication_confirmed"
  BY DEF Generate, At, Aim, PipelineTypeOK, CommandOK, PublicationRunOK,
     PublicationSteps, Requests
<1>2. PICK c \in CandidatesOf(Req) :
        c.source = proc.tip /\ job' = [job EXCEPT ![Req].candidate = c]
  BY DEF Generate
<1>3. /\ c \in Candidates /\ c # None
      /\ \/ c = job[Req].candidate
         \/ job[Req].candidate = None /\ c.source = tip
  <2>1. CASE job[Req].candidate # None
    BY <1>1, <1>2, <2>1, PipelineAssumption DEF CandidatesOf, Job
  <2>2. CASE job[Req].candidate = None
    <3>1. PICK b \in Builds : c = [source |-> tip, build |-> b]
      BY <1>2, <2>2 DEF CandidatesOf, NewCandidates
    <3>2. c \in Candidates
      BY <3>1 DEF Candidates, Contents, PipelineTypeOK, Src!SourceTypeOK
    <3> QED
      BY <2>2, <3>1, <3>2, PipelineAssumption
  <2> QED
    BY <2>1, <2>2
<1>4. /\ job' \in [Requests -> Job] /\ job'[Req].candidate = c
      /\ job'[Req].intent = job[Req].intent
      /\ job'[Req].observation = job[Req].observation
      /\ \A q \in Requests : q # Req => job'[q] = job[q]
  <2> DEFINE x == [job[Req] EXCEPT !.candidate = c]
  <2>1. /\ x \in Job /\ x.candidate = c /\ x.intent = job[Req].intent
        /\ x.observation = job[Req].observation
    BY <1>1, <1>3, JobWork
  <2>2. job' = [job EXCEPT ![Req] = x] /\ job \in [Requests -> Job]
    BY <1>1, <1>2 DEF PipelineTypeOK
  <2> HIDE DEF x
  <2> QED
    BY <1>1, <2>1, <2>2, OneJobChanges
<1>5. /\ proc' \in Proc /\ proc'.pc = "ackGenerated" /\ proc'.req = proc.req
      /\ proc'.q = proc.q /\ proc'.tip = proc.tip
  BY <1>1, ProcGoes DEF Steps, RunSteps
<1>6. JournalsTruly
  BY <1>1, <1>2, <1>3, <1>4 DEF JournalsTruly
<1>7. /\ (PipelineTypeOK /\ StoresOK)'
      /\ QP!RequestKept /\ QP!WorkKept /\ QP!FinalKept
  BY <1>1, <1>4, <1>5, <1>6, JournalKeepsStores
<1>8. CommandOK' /\ Aim' = "ackGenerated" /\ Req' = Req
  BY <1>1, <1>5, <1>7, MovedKeepsCommand DEF CorrectionSteps, sourceVars
<1>9. CorrectionRunOK' /\ PublicationRunOK' /\ ClaimedFirst'
  BY <1>1, <1>3, <1>4, <1>5, <1>8 DEF CorrectionRunOK, PublicationRunOK,
     ClaimedFirst, CorrectionSteps, PublicationSteps, queueVars
<1> QED
  BY <1>7, <1>8, <1>9

\* A pinned publication goes on to another of its steps.
LEMMA PublicationGoesOn ==
  ASSUME PipelineInv, (PipelineTypeOK /\ StoresOK)', UNCHANGED <<queueVars, runner>>,
         tip \subseteq tip', proc.pc \in PublicationSteps \ {"ackConfirmed"},
         Goto(proc'.pc), job'[Req].candidate = job[Req].candidate,
         row[Req].pins # None, job[Req].candidate # None,
         proc'.pc \in {"deploy", "spawn", "settle", "observe", "ackConfirmed"},
         proc'.pc = "ackConfirmed" =>
           job'[Req].observation # None /\ Req \in site'.landed
  PROVE  PipelineInv'
<1> USE DEF PipelineInv, StoresOK, RunOK
<1>1. /\ proc \in Proc /\ ~ At("idle") /\ Aim = proc.pc /\ Req \in Publications
      /\ row[Req].expected = runner.anchor
      /\ row[Req].state # "publication_confirmed"
  BY DEF PipelineTypeOK, At, Aim, CommandOK, PublicationRunOK, PublicationSteps
<1>2. proc'.req = proc.req /\ proc'.q = proc.q /\ proc'.tip = proc.tip
  BY <1>1, ProcGoes DEF Steps, RunSteps
<1>3. QP!RequestKept /\ QP!FinalKept
  BY QueueStays, QueueGoesOn DEF RecordsNothing
<1>4. CommandOK' /\ Aim' = proc'.pc /\ Req' = Req
  BY <1>1, <1>2, <1>3, MovedKeepsCommand DEF CorrectionSteps
<1>5. CorrectionRunOK' /\ PublicationRunOK' /\ ClaimedFirst'
  BY <1>1, <1>4 DEF CorrectionRunOK, PublicationRunOK, ClaimedFirst,
     CorrectionSteps, PublicationSteps, queueVars
<1> QED
  BY <1>4, <1>5

\* What the preflight saw: the queue is pinned to the job's candidate.
LEMMA PreflightSeesPins ==
  ASSUME PipelineInv, proc.pc \in {"preflight", "deploy"}, PreflightHolds
  PROVE  /\ Req \in Publications /\ Req \in Requests /\ job[Req] \in Job
         /\ proc \in Proc /\ proc.pc \in PublicationSteps
         /\ job[Req].candidate # None /\ row[Req].pins # None
<1>1. proc.pc \in PublicationSteps /\ Aim = proc.pc
  BY DEF PublicationSteps, Aim
<1>2. Req \in Publications /\ job[Req].candidate # None
  BY <1>1 DEF PipelineInv, RunOK, CommandOK, PublicationRunOK
<1>3. row[Req].pins = job[Req].candidate
  BY DEF PreflightHolds, Q!PreflightPasses
<1> QED
  BY <1>1, <1>2, <1>3 DEF PipelineInv, PipelineTypeOK, Requests

\* The first preflight, and the publishing record.
LEMMA PreflightKeepsInv ==
  ASSUME PipelineInv, Preflight
  PROVE  PipelineInv'
<1>1. /\ UNCHANGED <<queueVars, sourceVars, runner, site>>
      /\ job' = [job EXCEPT ![Req].publishing = TRUE]
      /\ proc.pc = "preflight" /\ PreflightHolds
      /\ \E pc \in {"observe", "settle", "deploy"} : Goto(pc)
  BY DEF Preflight, At
<1>2. /\ Req \in Publications /\ Req \in Requests /\ job[Req] \in Job
      /\ proc \in Proc /\ proc.pc \in PublicationSteps
      /\ job[Req].candidate # None /\ row[Req].pins # None
  BY <1>1, PreflightSeesPins
<1>3. /\ proc' \in Proc /\ Goto(proc'.pc)
      /\ proc'.pc \in {"observe", "settle", "deploy"}
  BY <1>1, <1>2, ProcGoes DEF Steps, RunSteps
<1>4. (PipelineTypeOK /\ StoresOK)' /\ Steady
  <2> DEFINE x == [job[Req] EXCEPT !.publishing = TRUE]
  <2>1. x \in Job /\ SameWork(job[Req], x)
    BY <1>2, JobMarks
  <2>2. job' = [job EXCEPT ![Req] = x]
    BY <1>1
  <2> HIDE DEF x
  <2> QED
    BY <1>1, <1>2, <1>3, <2>1, <2>2, MarksKeepStores
<1>5. job'[Req].candidate = job[Req].candidate
  BY <1>2, <1>4 DEF Steady, SameWork
<1> QED
  BY <1>1, <1>2, <1>3, <1>4, <1>5, PublicationGoesOn DEF Steady

\* The second preflight, and what production showed before.
LEMMA DeployPreflightKeepsInv ==
  ASSUME PipelineInv, DeployPreflight
  PROVE  PipelineInv'
<1>1. /\ UNCHANGED <<queueVars, sourceVars, runner, site>>
      /\ job' = [job EXCEPT ![Req].previous = site.canonical]
      /\ proc.pc = "deploy" /\ PreflightHolds /\ Goto("spawn")
  BY DEF DeployPreflight, At
<1>2. /\ Req \in Publications /\ Req \in Requests /\ job[Req] \in Job
      /\ proc \in Proc /\ proc.pc \in PublicationSteps
      /\ job[Req].candidate # None /\ row[Req].pins # None
  BY <1>1, PreflightSeesPins
<1>3. proc' \in Proc /\ Goto(proc'.pc) /\ proc'.pc = "spawn"
  BY <1>1, <1>2, ProcGoes DEF Steps, RunSteps
<1>4. (PipelineTypeOK /\ StoresOK)' /\ Steady
  <2> DEFINE x == [job[Req] EXCEPT !.previous = site.canonical]
  <2>1. site.canonical \in {None} \cup Releases
    BY DEF PipelineInv, PipelineTypeOK, Site
  <2>2. x \in Job /\ SameWork(job[Req], x)
    BY <1>2, <2>1, JobMarks
  <2>3. job' = [job EXCEPT ![Req] = x]
    BY <1>1
  <2> HIDE DEF x
  <2> QED
    BY <1>1, <1>2, <1>3, <2>2, <2>3, MarksKeepStores
<1>5. job'[Req].candidate = job[Req].candidate
  BY <1>2, <1>4 DEF Steady, SameWork
<1> QED
  BY <1>1, <1>2, <1>3, <1>4, <1>5, PublicationGoesOn DEF Steady

\* What a command past its preflight knows.
LEMMA PastPreflight ==
  ASSUME PipelineInv, proc.pc \in {"spawn", "settle", "observe", "ackConfirmed"}
  PROVE  /\ Req \in Publications /\ Req \in Requests /\ job[Req] \in Job
         /\ proc \in Proc /\ proc.pc \in PublicationSteps
         /\ job[Req].candidate # None /\ row[Req].pins # None
         /\ row[Req].expected = runner.anchor
<1>1. proc.pc \in PublicationSteps /\ Aim = proc.pc
  BY DEF PublicationSteps, Aim
<1> QED
  BY <1>1 DEF PipelineInv, PipelineTypeOK, RunOK, CommandOK, PublicationRunOK,
     PublicationSteps, Requests

\* The upload starts.
LEMMA SpawnKeepsInv ==
  ASSUME PipelineInv, Spawn
  PROVE  PipelineInv' /\ site.content \subseteq site'.content
<1>1. /\ UNCHANGED <<queueVars, sourceVars, job, runner>>
      /\ site' = [site EXCEPT !.started = @ \cup {Req}]
      /\ proc.pc = "spawn" /\ Goto("settle")
  BY DEF Spawn, At
<1>2. /\ Req \in Publications /\ proc \in Proc /\ proc.pc \in PublicationSteps
      /\ job[Req].candidate # None /\ row[Req].pins # None
  BY <1>1, PastPreflight
<1>3. proc' \in Proc /\ Goto(proc'.pc) /\ proc'.pc = "settle"
  BY <1>1, <1>2, ProcGoes DEF Steps, RunSteps
<1>4. SiteGoesOn
  <2>1. /\ site \in Site /\ site.landed \subseteq site.started
        /\ \A p \in site.started : row[p].pins # None
    BY DEF PipelineInv, PipelineTypeOK, StoresOK, SiteOK
  <2>2. /\ site' \in Site /\ site'.content = site.content
        /\ site'.started = site.started \cup {Req}
        /\ site'.landed = site.landed
    BY <1>1, <1>2, <2>1 DEF Site
  <2> QED
    BY <1>2, <2>1, <2>2 DEF SiteGoesOn
<1>5. StoresOK' /\ site.content \subseteq site'.content
  BY <1>1, <1>4, SiteStepKeepsStores DEF PipelineInv
<1>6. PipelineTypeOK'
  BY <1>1, <1>3, <1>4 DEF PipelineInv, PipelineTypeOK, queueVars, sourceVars,
     Src!SourceTypeOK, Q!QueueTypeOK, SiteGoesOn
<1>7. PipelineInv'
  BY <1>1, <1>2, <1>3, <1>5, <1>6, PublicationGoesOn DEF sourceVars
<1> QED
  BY <1>5, <1>7

\* The deployment is found in production.
LEMMA SettleKeepsInv ==
  ASSUME PipelineInv, Settle
  PROVE  PipelineInv'
<1>1. /\ UNCHANGED <<queueVars, sourceVars, runner, site>>
      /\ job' = [job EXCEPT ![Req].deployment = TRUE]
      /\ proc.pc = "settle" /\ Goto("observe")
  BY DEF Settle, At
<1>2. /\ Req \in Publications /\ Req \in Requests /\ job[Req] \in Job
      /\ proc \in Proc /\ proc.pc \in PublicationSteps
      /\ job[Req].candidate # None /\ row[Req].pins # None
  BY <1>1, PastPreflight
<1>3. proc' \in Proc /\ Goto(proc'.pc) /\ proc'.pc = "observe"
  BY <1>1, <1>2, ProcGoes DEF Steps, RunSteps
<1>4. (PipelineTypeOK /\ StoresOK)' /\ Steady
  <2> DEFINE x == [job[Req] EXCEPT !.deployment = TRUE]
  <2>1. x \in Job /\ SameWork(job[Req], x)
    BY <1>2, JobMarks
  <2>2. job' = [job EXCEPT ![Req] = x]
    BY <1>1
  <2> HIDE DEF x
  <2> QED
    BY <1>1, <1>2, <1>3, <2>1, <2>2, MarksKeepStores
<1>5. job'[Req].candidate = job[Req].candidate
  BY <1>2, <1>4 DEF Steady, SameWork
<1> QED
  BY <1>1, <1>2, <1>3, <1>4, <1>5, PublicationGoesOn DEF Steady

\* The observation is journaled before the publication is confirmed.
LEMMA ObserveKeepsInv ==
  ASSUME PipelineInv, Observe
  PROVE  PipelineInv'
<1>1. /\ UNCHANGED <<queueVars, sourceVars, runner, site>>
      /\ proc.pc = "observe" /\ Goto("ackConfirmed") /\ Req \in site.landed
  BY DEF Observe, At, InProduction
<1>2. PICK ev \in Evidence : job' = [job EXCEPT ![Req].observation = ev]
  BY DEF Observe
<1>3. /\ Req \in Publications /\ Req \in Requests /\ job[Req] \in Job
      /\ proc \in Proc /\ proc.pc \in PublicationSteps
      /\ job[Req].candidate # None /\ row[Req].pins # None
      /\ row[Req].state # "publication_confirmed"
  <2>1. Aim = "observe"
    BY <1>1 DEF Aim
  <2> QED
    BY <1>1, <2>1, PastPreflight
       DEF PipelineInv, RunOK, PublicationRunOK, PublicationSteps
<1>4. /\ job' \in [Requests -> Job] /\ job'[Req].observation = ev
      /\ job'[Req].intent = job[Req].intent
      /\ job'[Req].candidate = job[Req].candidate
      /\ \A q \in Requests : q # Req => job'[q] = job[q]
  <2> DEFINE x == [job[Req] EXCEPT !.observation = ev]
  <2>1. /\ x \in Job /\ x.observation = ev /\ x.intent = job[Req].intent
        /\ x.candidate = job[Req].candidate
    BY <1>3, JobWork
  <2>2. job' = [job EXCEPT ![Req] = x] /\ job \in [Requests -> Job]
    BY <1>2 DEF PipelineInv, PipelineTypeOK
  <2> HIDE DEF x
  <2> QED
    BY <1>3, <2>1, <2>2, OneJobChanges
<1>5. proc' \in Proc /\ Goto(proc'.pc) /\ proc'.pc = "ackConfirmed"
  BY <1>1, <1>3, ProcGoes DEF Steps, RunSteps
<1>6. JournalsTruly
  BY <1>3, <1>4 DEF JournalsTruly
<1>7. (PipelineTypeOK /\ StoresOK)'
  BY <1>1, <1>4, <1>5, <1>6, JournalKeepsStores
<1>8. job'[Req].observation # None /\ Req \in site'.landed /\ tip \subseteq tip'
  BY <1>1, <1>4, PipelineAssumption DEF sourceVars
<1> QED
  BY <1>1, <1>3, <1>4, <1>5, <1>7, <1>8, PublicationGoesOn DEF PublicationSteps

\* The receipts a publication is acknowledged with are of corrections.
LEMMA ReceiptsAreCorrections ==
  ASSUME PipelineTypeOK
  PROVE  Src!Applied(runner.history) \in SUBSET Deviations
<1>1. runner.history \in Seq(Deviations)
  BY DEF PipelineTypeOK, Runner
<1> QED
  BY <1>1 DEF Src!Applied, Src!AppliedUpTo

\* The generated ACK pins the queue to the journaled candidate.
LEMMA GeneratedIsTrue ==
  ASSUME PipelineInv, Req \in Publications, NEW tok, job[Req].candidate # None,
         Q!AckGenerated(Req, tok, job[Req].candidate.source, job[Req].candidate,
                        Src!Applied(runner.history))
  PROVE  QP!QueueNext /\ RecordsTruly /\ row'[Req].state = "generated"
<1> DEFINE c == job[Req].candidate
<1> DEFINE recs == Src!Applied(runner.history)
<1>1. /\ c \in Candidates /\ c.source \in Contents /\ recs \in SUBSET Deviations
      /\ QP!QueueInv /\ QP!QueueTypeOK /\ QP!QueueAssumption
  <2>1. job[Req] \in Job /\ c \in Candidates
    BY DEF PipelineInv, PipelineTypeOK, Requests, Job
  <2>2. c.source \in Contents
    BY <2>1 DEF Candidates
  <2> QED
    BY <2>1, <2>2, ReceiptsAreCorrections, QueueConstants
       DEF PipelineInv, StoresOK, QueueOK, QP!QueueInv
<1>2. QP!AckGenerated(Req, tok, c.source, c, recs)
  BY SameAcks
<1> HIDE DEF c, recs
<1>3. QP!QueueNext
  <2>1. Q!AckGenerated(Req, tok, c.source, c, recs)
    BY DEF c, recs
  <2> QED
    BY <1>1, <2>1, AcksAreCalls DEF PipelineInv, StoresOK
<1>4. /\ \A r \in Requests : r # Req /\ r \notin row[Req].included => row'[r] = row[r]
      /\ row'[Req].pins = c /\ row'[Req].state = "generated"
      /\ \A d \in row[Req].included :
           /\ d \in Deviations
           /\ QP!SameRecords(d)
           /\ row'[d].state = "generated"
  <2>1. /\ \A r \in QP!Requests :
             r # Req /\ r \notin row[Req].included => row'[r] = row[r]
        /\ row'[Req].pins = c /\ row'[Req].state = "generated"
        /\ \A d \in row[Req].included :
             /\ d \in Deviations
             /\ QP!SameRecords(d)
             /\ row'[d].state = "generated"
    BY <1>1, <1>2, QP!AckGeneratedEffect
  <2> QED
    BY <2>1, SameQueue
<1>5. RecordsTruly
  <2>1. ASSUME NEW p \in Publications
        PROVE  /\ row'[p].pins # None => row'[p].pins \in {row[p].pins, job[p].candidate}
               /\ row'[p].state = "publication_confirmed" => row'[p] = row[p]
    <3>1. CASE p = Req
      BY <1>4, <3>1 DEF c
    <3>2. CASE p # Req
      BY <1>4, <3>2, PipelineAssumption DEF Requests
    <3> QED
      BY <3>1, <3>2
  <2>2. ASSUME NEW d \in Deviations
        PROVE  row'[d].adopted = row[d].adopted
               /\ (row'[d].state = "rejected" => row[d].state = "rejected")
    <3>1. d # Req /\ d \in Requests
      BY PipelineAssumption DEF Requests
    <3> QED
      BY <1>4, <3>1 DEF QP!SameRecords
  <2> QED
    BY <2>1, <2>2 DEF RecordsTruly
<1> QED
  BY <1>3, <1>4, <1>5

\* A generated publication goes on to its preflight.
LEMMA ToPreflightKeepsInv ==
  ASSUME PipelineInv, (PipelineTypeOK /\ StoresOK)', Steady, UNCHANGED job,
         proc.pc = "ackGenerated", proc'.pc = "preflight", proc'.req = proc.req,
         proc'.tip = proc.tip, proc'.q \in {proc.q, row'[Req]}
  PROVE  PipelineInv'
<1> USE DEF PipelineInv, StoresOK, RunOK
<1>1. /\ ~ At("idle") /\ Aim = "ackGenerated" /\ Req \in Publications
      /\ Req \in Requests /\ row[Req].expected = runner.anchor
      /\ row[Req].state # "publication_confirmed" /\ row[Req].state # "absent"
      /\ job[Req].candidate # None
  BY DEF At, Aim, CommandOK, PublicationRunOK, PublicationSteps, Requests
<1>2. CommandOK' /\ Aim' = "preflight" /\ Req' = Req
  BY <1>1, MovedKeepsCommand DEF Steady, CorrectionSteps
<1>3. /\ row'[Req].expected = row[Req].expected
      /\ row'[Req].state # "publication_confirmed"
      /\ runner' = runner
  BY <1>1, SameQueue DEF Steady, QP!RequestKept, QP!SameRequest
<1>4. CorrectionRunOK' /\ PublicationRunOK' /\ ClaimedFirst'
  BY <1>1, <1>2, <1>3 DEF CorrectionRunOK, PublicationRunOK, ClaimedFirst,
     CorrectionSteps, PublicationSteps
<1> QED
  BY <1>2, <1>4

\* So the generated ACK keeps the invariant, sent, sent again, or left out.
LEMMA AckGeneratedKeepsInv ==
  ASSUME PipelineInv, AckGenerated
  PROVE  PipelineInv' /\ CallsQueue
<1> DEFINE c == job[Req].candidate
<1> DEFINE recs == Src!Applied(runner.history)
<1>1. /\ UNCHANGED <<sourceVars, job, runner, site>>
      /\ proc.pc = "ackGenerated" /\ proc \in Proc
      /\ Aim = "ackGenerated" /\ Req \in Publications /\ Req \in Requests
      /\ c # None /\ Req \notin Deviations
      /\ row[Req].state # "publication_confirmed"
  BY PipelineAssumption
     DEF AckGenerated, At, Aim, PipelineInv, PipelineTypeOK, RunOK, CommandOK,
         PublicationRunOK, PublicationSteps, Requests
<1>2. CASE Goto("preflight") /\ UNCHANGED queueVars
  <2>1. /\ proc' \in Proc /\ proc'.pc = "preflight" /\ proc'.req = proc.req
        /\ proc'.q = proc.q /\ proc'.tip = proc.tip
    BY <1>1, <1>2, ProcGoes DEF Steps, RunSteps
  <2>2. (PipelineTypeOK /\ StoresOK)' /\ Steady
    BY <1>1, <1>2, <2>1, LookingKeepsStores
  <2> QED
    BY <1>1, <1>2, <2>1, <2>2, QueueStays, ToPreflightKeepsInv
       DEF CallsQueue, RecordsNothing
<1>3. CASE /\ \/ Q!AckGenerated(Req, proc.q.token, c.source, c, recs)
              \/ UNCHANGED queueVars
           /\ Acked("preflight")
  <2>1. /\ [QP!QueueNext]_QP!queueVars /\ RecordsTruly
        /\ row'[Req].state # "publication_confirmed"
    <3>1. CASE Q!AckGenerated(Req, proc.q.token, c.source, c, recs)
      <4>1. QP!QueueNext /\ RecordsTruly /\ row'[Req].state = "generated"
        BY <1>1, <3>1, GeneratedIsTrue
      <4> QED
        BY <4>1
    <3>2. CASE UNCHANGED queueVars
      <4>1. row' = row
        BY <3>2 DEF queueVars
      <4> QED
        BY <1>1, <3>2, <4>1, QueueStays, NothingIsTrue DEF RecordsNothing
    <3> QED
      BY <1>3, <3>1, <3>2
  <2> SUFFICES PipelineInv'
    BY <2>1 DEF CallsQueue
  <2>2. /\ StoresOK'
        /\ proc' \in Proc => PipelineTypeOK'
        /\ row'[Req] \in Q!Row
        /\ Steady
    BY <1>1, <2>1, TrueCallKeepsStores
  <2>3. "preflight" \in Steps /\ "preflight" \notin RecordSteps
    BY DEF Steps, RunSteps, RecordSteps
  <2>4. CASE /\ proc' \in Proc /\ proc'.pc = proc.pc /\ proc'.ret = proc.ret
             /\ proc'.req = proc.req /\ proc'.tip = proc.tip /\ proc'.q = proc.q
    BY <2>2, <2>4, WaitingKeepsRun DEF PipelineInv
  <2>5. CASE /\ proc' \in Proc /\ proc'.pc = "preflight" /\ proc'.req = proc.req
             /\ proc'.tip = proc.tip /\ proc'.q = row'[Req]
    BY <1>1, <2>2, <2>5, ToPreflightKeepsInv
  <2> QED
    BY <1>1, <1>3, <2>2, <2>3, <2>4, <2>5, ProcAcked
<1> QED
  BY <1>2, <1>3 DEF AckGenerated

\* The confirming ACK names what was observed in production.
LEMMA ConfirmedIsTrue ==
  ASSUME PipelineInv, Req \in Publications, NEW tok, job[Req].candidate # None,
         job[Req].observation # None, Req \in site.landed,
         Q!AckConfirmed(Req, tok, job[Req].candidate.source, job[Req].candidate,
                        Src!Applied(runner.history), job[Req].observation)
  PROVE  /\ QP!QueueNext /\ RecordsTruly
         /\ row'[Req].state = "publication_confirmed"
<1> DEFINE c == job[Req].candidate
<1> DEFINE recs == Src!Applied(runner.history)
<1> DEFINE ev == job[Req].observation
<1>1. /\ c \in Candidates /\ c.source \in Contents /\ recs \in SUBSET Deviations
      /\ ev \in Evidence
      /\ QP!QueueInv /\ QP!QueueTypeOK /\ QP!QueueAssumption
  <2>1. job[Req] \in Job /\ c \in Candidates /\ ev \in Evidence
    BY DEF PipelineInv, PipelineTypeOK, Requests, Job
  <2>2. c.source \in Contents
    BY <2>1 DEF Candidates
  <2> QED
    BY <2>1, <2>2, ReceiptsAreCorrections, QueueConstants
       DEF PipelineInv, StoresOK, QueueOK, QP!QueueInv
<1>2. QP!AckConfirmed(Req, tok, c.source, c, recs, ev)
  BY SameAcks
<1> HIDE DEF c, recs, ev
<1>3. QP!QueueNext
  <2>1. Q!AckConfirmed(Req, tok, c.source, c, recs, ev)
    BY DEF c, recs, ev
  <2> QED
    BY <1>1, <2>1, AcksAreCalls DEF PipelineInv, StoresOK
<1>4. /\ \A r \in Requests : r # Req /\ r \notin row[Req].included => row'[r] = row[r]
      /\ row'[Req].pins = row[Req].pins /\ row'[Req].publication = ev
      /\ row'[Req].state = "publication_confirmed"
      /\ \A d \in row[Req].included :
           /\ d \in Deviations
           /\ QP!SameRecords(d)
           /\ row'[d].state = "publication_confirmed"
  <2>1. /\ \A r \in QP!Requests :
             r # Req /\ r \notin row[Req].included => row'[r] = row[r]
        /\ row'[Req].pins = row[Req].pins /\ row'[Req].publication = ev
        /\ row'[Req].state = "publication_confirmed"
        /\ \A d \in row[Req].included :
             /\ d \in Deviations
             /\ QP!SameRecords(d)
             /\ row'[d].state = "publication_confirmed"
    BY <1>1, <1>2, QP!AckConfirmedEffect
  <2> QED
    BY <2>1, SameQueue
<1>5. RecordsTruly
  <2>1. ASSUME NEW p \in Publications
        PROVE  /\ row'[p].pins = row[p].pins
               /\ \/ row'[p] = row[p]
                  \/ /\ p \in site.landed
                     /\ row'[p].publication = job[p].observation
                     /\ row'[p].publication # None
    <3>1. CASE p = Req
      BY <1>4, <3>1 DEF ev
    <3>2. CASE p # Req
      BY <1>4, <3>2, PipelineAssumption DEF Requests
    <3> QED
      BY <3>1, <3>2
  <2>2. ASSUME NEW d \in Deviations
        PROVE  row'[d].adopted = row[d].adopted
               /\ (row'[d].state = "rejected" => row[d].state = "rejected")
    <3>1. d # Req /\ d \in Requests
      BY PipelineAssumption DEF Requests
    <3> QED
      BY <1>4, <3>1 DEF QP!SameRecords
  <2> QED
    BY <2>1, <2>2 DEF RecordsTruly
<1> QED
  BY <1>3, <1>4, <1>5

\* The tip is still the candidate's content when it is confirmed: no correction
\* came between, and when the ACK is repeated the receipts are the cohort.
LEMMA ConfirmedHoldsTheTip ==
  ASSUME PipelineInv, AckConfirmed
  PROVE  tip \cap Deviations = job[Req].candidate.source \cap Deviations
<1> DEFINE c == job[Req].candidate
<1> DEFINE recs == Src!Applied(runner.history)
<1>1. /\ Req \in Publications /\ c # None /\ row[Req].pins # None
      /\ row[Req].expected = runner.anchor
      /\ tip = runner.anchor \cup recs
  BY PastPreflight DEF AckConfirmed, At, Src!ChainHolds
<1>2. CASE Q!AckConfirmed(Req, proc.q.token, c.source, c, recs, job[Req].observation)
  <2>1. Q!Pending(Req)
    BY <1>2 DEF Q!AckConfirmed, Q!Pending, Q!Terminal
  <2> QED
    BY <1>1, <2>1 DEF PipelineInv, StoresOK, CandidatesOK
<1>3. CASE Q!AckRepeated(Req, proc.q.token, "publication_confirmed", c.source, c,
                         recs, job[Req].observation)
  <2>1. recs = row[Req].receipts
    BY <1>1, <1>3 DEF Q!AckRepeated
  <2>2. row[Req].receipts = row[Req].included
    BY <1>1 DEF PipelineInv, StoresOK, QueueOK, QP!QueueInv, QP!PinnedNeverReleased
  <2>3. c.source = row[Req].expected \cup row[Req].included
    BY <1>1 DEF PipelineInv, StoresOK, CandidatesOK
  <2> QED
    BY <1>1, <2>1, <2>2, <2>3
<1> QED
  BY <1>2, <1>3 DEF AckConfirmed

\* So the confirming ACK keeps the invariant.
LEMMA AckConfirmedKeepsInv ==
  ASSUME PipelineInv, AckConfirmed
  PROVE  PipelineInv' /\ CallsQueue
<1> DEFINE c == job[Req].candidate
<1> DEFINE recs == Src!Applied(runner.history)
<1> DEFINE ev == job[Req].observation
<1>1. /\ UNCHANGED <<sourceVars, job, runner, site>>
      /\ proc.pc = "ackConfirmed" /\ proc \in Proc /\ Acked("recordConfirmed")
      /\ Aim = "ackConfirmed" /\ Req \in Publications /\ Req \in Requests
      /\ c # None /\ ev # None /\ Req \in site.landed /\ ~ At("idle")
      /\ \/ Q!AckConfirmed(Req, proc.q.token, c.source, c, recs, ev)
         \/ row[Req].state = "publication_confirmed" /\ UNCHANGED queueVars
  BY DEF AckConfirmed, At, Aim, PipelineInv, PipelineTypeOK, RunOK, CommandOK,
     PublicationRunOK, PublicationSteps, Requests, Q!AckRepeated
<1>2. tip \cap Deviations = job[Req].candidate.source \cap Deviations
  BY ConfirmedHoldsTheTip
<1>3. /\ [QP!QueueNext]_QP!queueVars /\ RecordsTruly
      /\ row'[Req].state = "publication_confirmed"
  <2>1. CASE Q!AckConfirmed(Req, proc.q.token, c.source, c, recs, ev)
    <3>1. /\ QP!QueueNext /\ RecordsTruly
          /\ row'[Req].state = "publication_confirmed"
      BY <1>1, <2>1, ConfirmedIsTrue
    <3> QED
      BY <3>1
  <2>2. CASE row[Req].state = "publication_confirmed" /\ UNCHANGED queueVars
    <3>1. row' = row
      BY <2>2 DEF queueVars
    <3> QED
      BY <2>2, <3>1, QueueStays, NothingIsTrue DEF RecordsNothing
  <2> QED
    BY <1>1, <2>1, <2>2
<1> SUFFICES PipelineInv'
  BY <1>3 DEF CallsQueue
<1>4. /\ StoresOK'
      /\ proc' \in Proc => PipelineTypeOK'
      /\ QP!RequestKept /\ QP!FinalKept
      /\ row'[Req] \in Q!Row
      /\ Steady
  BY <1>1, <1>3, TrueCallKeepsStores
<1>5. CASE /\ proc' \in Proc /\ proc'.pc = proc.pc /\ proc'.ret = proc.ret
           /\ proc'.req = proc.req /\ proc'.tip = proc.tip /\ proc'.q = proc.q
  BY <1>4, <1>5, WaitingKeepsRun DEF PipelineInv
<1>6. CASE /\ proc' \in Proc /\ proc'.pc = "recordConfirmed" /\ proc'.req = proc.req
           /\ proc'.tip = {} /\ proc'.q.state = "absent"
  <2>1. CommandOK' /\ Aim' = "recordConfirmed" /\ Req' = Req
    BY <1>1, <1>4, <1>6, MovedKeepsCommand
       DEF PipelineInv, RunOK, CorrectionSteps, Steady
  <2>2. tip' = tip /\ job' = job
    BY <1>1 DEF sourceVars
  <2>3. CorrectionRunOK' /\ PublicationRunOK' /\ ClaimedFirst'
    BY <1>1, <1>2, <1>3, <2>1, <2>2 DEF CorrectionRunOK, PublicationRunOK,
       ClaimedFirst, CorrectionSteps, PublicationSteps
  <2> QED
    BY <1>4, <1>6, <2>1, <2>3 DEF PipelineInv, RunOK
<1>7. "recordConfirmed" \in Steps /\ "recordConfirmed" \in RecordSteps
  BY DEF Steps, RecordSteps
<1> QED
  BY <1>1, <1>4, <1>5, <1>6, <1>7, ProcAcked

\* The candidate that was confirmed is the new anchor: every commit is in it, and
\* its cohort was confirmed with it.
LEMMA RecordConfirmedKeepsInv ==
  ASSUME PipelineInv, RecordConfirmed
  PROVE  PipelineInv'
<1> USE DEF PipelineInv, StoresOK, RunOK
<1> DEFINE c == job[Req].candidate
<1> DEFINE done == [r \in Requests |-> IF r \in {Req} \cup row[Req].included
                                       THEN "publication_confirmed"
                                       ELSE runner.completed[r]]
<1>1. /\ UNCHANGED <<queueVars, sourceVars, job, site>>
      /\ runner' = [anchor |-> c.source, epoch |-> runner.epoch + 1,
                    history |-> <<>>, completed |-> done]
      /\ proc' = NoProc /\ runner \in Runner /\ proc \in Proc
      /\ Req \in Publications /\ Req \in Requests /\ job[Req] \in Job
      /\ c # None /\ row[Req].state = "publication_confirmed"
      /\ tip \cap Deviations = c.source \cap Deviations
  BY DEF RecordConfirmed, At, Aim, PipelineTypeOK, CommandOK, PublicationRunOK,
     Requests
<1>2. /\ row' = row /\ consent' = consent /\ tip' = tip /\ receipts' = receipts
      /\ job' = job /\ site' = site
  BY <1>1 DEF queueVars, sourceVars
<1>3. /\ c \in Candidates /\ c.source \in Contents
      /\ row[Req].pins = c
      /\ \A d \in row[Req].included : row[d].state = "publication_confirmed"
  <2>1. c \in Candidates
    BY <1>1 DEF Job
  <2>2. row[Req].pins # None
    BY <1>1 DEF QueueOK, QP!QueueInv, QP!GeneratedIsPinned
  <2>3. row[Req].pins = c
    BY <1>1, <2>2 DEF CandidatesOK
  <2>4. c.source \in Contents
    BY <2>1 DEF Candidates
  <2> QED
    BY <1>1, <2>1, <2>3, <2>4 DEF QueueOK, QP!QueueInv, QP!ConfirmedTogether
<1> HIDE DEF c
<1>4. done \in [Requests -> {None, "adopted", "rejected", "publication_confirmed"}]
  BY <1>1 DEF Runner
<1>5. /\ \A r \in Requests : done[r] = "adopted" => row[r].adopted # None
      /\ \A r \in Requests : done[r] \in {"rejected", "publication_confirmed"} =>
           row[r].state = done[r]
  BY <1>1, <1>3 DEF RecordsOK
<1> HIDE DEF done
<1>6. /\ runner' \in Runner /\ runner'.anchor = c.source
      /\ runner'.history = <<>> /\ runner'.completed = done
  BY <1>1, <1>3, <1>4 DEF Runner
<1>7. Recorded' = {} /\ Doubt' = {}
  <2>1. Recorded' = {}
    BY <1>6 DEF Recorded
  <2> QED
    BY <1>1, <1>2, <1>6, <2>1 DEF Doubt
<1>8. RecordsOK'
  <2>1. \E p \in Publications : /\ row[p].state = "publication_confirmed"
                                /\ row[p].pins.source = c.source
    BY <1>1, <1>3
  <2> QED
    BY <1>1, <1>2, <1>5, <1>6, <1>7, <2>1 DEF RecordsOK
<1>9. proc' \in Proc /\ proc'.pc = "idle" /\ proc'.tip \subseteq tip'
  BY <1>1, ProcEnds
<1>10. PipelineTypeOK'
  BY <1>2, <1>6, <1>9 DEF PipelineTypeOK, Src!SourceTypeOK, Q!QueueTypeOK
<1>11. QueueOK'
  BY <1>1, QueueStays, QueueGoesOn DEF RecordsNothing
<1>12. SourceOK' /\ QueueAgreesWithSource' /\ ValuesOK'
  <2>1. SourceOK' /\ QueueAgreesWithSource'
    BY <1>2 DEF SourceOK, QueueAgreesWithSource, Locally, Src!HasReceipt
  <2>2. ValuesOK'
    BY <1>1, <1>2, <1>6, ValuesAreAnchored
  <2> QED
    BY <2>1, <2>2
<1>13. CandidatesOK' /\ SiteOK'
  BY <1>2 DEF CandidatesOK, SiteOK, Q!Pending
<1>14. RunOK'
  BY <1>9, IdleKeepsRun
<1> QED
  BY <1>8, <1>10, <1>11, <1>12, <1>13, <1>14

----------------------------------------------------------------------------
(* The invariant, and what follows from it.                                *)

\* In the beginning all stores are empty.
LEMMA InitHasPipelineInv ==
  ASSUME Init
  PROVE  PipelineInv
<1> USE DEF Init
<1>1. NoProc.pc = "idle" /\ NoProc.tip = {}
  BY DEF NoProc
<1>2. /\ row = [r \in Requests |-> Q!NoRow] /\ tip = {}
      /\ receipts = [d \in Deviations |-> None]
      /\ Q!NoRow.state = "absent" /\ Q!NoRow.adopted = None /\ Q!NoRow.pins = None
      /\ Q!NoRow \in Q!Row
  BY SameQueue DEF Q!QueueInit, Src!SourceInit, Q!NoRow, Q!Row, Q!States
<1>3. /\ runner.anchor = {} /\ runner.epoch = 1 /\ runner.history = <<>>
      /\ runner.completed = [r \in Requests |-> None]
      /\ site.content = {} /\ site.started = {} /\ site.landed = {}
      /\ site.canonical = "baseline"
      /\ job = [r \in Requests |-> NoJob]
  OBVIOUS
<1>4. /\ Deviations \subseteq Requests /\ Publications \subseteq Requests
      /\ \A r \in Requests : row[r] = Q!NoRow
      /\ NoJob.intent = None /\ NoJob.candidate = None /\ NoJob \in Job
  BY <1>2 DEF Requests, NoJob, Job
<1>5. QueueOK
  <2>1. QP!QueueInit
    BY SameQueue
  <2>2. QP!QueueInv
    BY <2>1, QueueConstants, QP!InitHasInv
  <2>3. QP!RowsSound
    BY <2>1, QueueConstants DEF QP!QueueInit, QP!RowsSound, QP!NoRow,
       QP!QueueAssumption
  <2> QED
    BY <2>2, <2>3 DEF QueueOK
<1>6. PipelineTypeOK
  <2>1. Q!QueueTypeOK
    BY <1>5, SameQueue DEF QueueOK, QP!QueueInv
  <2>2. Src!SourceTypeOK
    BY <1>2 DEF Src!SourceTypeOK, Src!Contents
  <2>3. job \in [Requests -> Job] /\ site \in Site
    BY <1>3, <1>4 DEF Site, Releases, Contents, Src!Contents
  <2>4. runner \in Runner
    <3>1. {} \in Contents /\ <<>> \in Seq(Deviations)
      BY DEF Contents, Src!Contents
    <3> QED
      BY <3>1 DEF Runner
  <2>5. proc \in Proc
    BY <1>2 DEF NoProc, Proc, Contents, Src!Contents
  <2> QED
    BY <2>1, <2>2, <2>3, <2>4, <2>5 DEF PipelineTypeOK
<1>7. Locally("adopted") = {} /\ Recorded = {} /\ Doubt = {}
  <2>1. Recorded = {}
    BY <1>3 DEF Recorded
  <2> QED
    BY <1>2, <2>1 DEF Locally, Src!HasReceipt, Doubt
<1>8. SourceOK /\ QueueAgreesWithSource /\ ValuesOK
  <2>1. SourceOK /\ QueueAgreesWithSource
    BY <1>2, <1>3, <1>4 DEF SourceOK, QueueAgreesWithSource, Src!HasReceipt
  <2>2. ValuesOK
    BY <1>2, <1>3 DEF ValuesOK, NoChangeUnseen, Touch
  <2> QED
    BY <2>1, <2>2
<1>9. CandidatesOK /\ SiteOK /\ RecordsOK
  <2>1. None \notin {"adopted", "rejected", "publication_confirmed"}
    BY PipelineAssumption
  <2> QED
    BY <1>2, <1>3, <1>4, <1>7, <2>1 DEF CandidatesOK, SiteOK, RecordsOK
<1>10. RunOK
  <2>1. Aim = "idle" /\ proc.tip \subseteq tip /\ At("idle")
    BY <1>1 DEF Aim, At
  <2> QED
    BY <1>1, <2>1 DEF RunOK, CommandOK, CorrectionRunOK, PublicationRunOK,
       ClaimedFirst, CorrectionSteps, PublicationSteps
<1> QED
  BY <1>5, <1>6, <1>8, <1>9, <1>10 DEF PipelineInv, StoresOK

\* Every step of a command keeps the invariant, calls the queue by its rules and
\* takes nothing off the site.
LEMMA CommandKeepsInv ==
  ASSUME PipelineInv, Command
  PROVE  PipelineInv' /\ CallsQueue /\ site.content \subseteq site'.content
<1>1. ASSUME UNCHANGED queueVars
      PROVE  CallsQueue
  BY <1>1, QueueStays DEF RecordsNothing, CallsQueue
<1>2. ASSUME NEW r \in Requests, Run(r) \/ Reject(r)
      PROVE  PipelineInv' /\ UNCHANGED <<queueVars, site>>
  BY <1>2, StartsKeepInv DEF Run, Reject
<1>3. ASSUME NEW d \in Deviations, OpenDeviation(d) \/ RejectDeviation(d)
      PROVE  PipelineInv' /\ UNCHANGED <<queueVars, site>>
  BY <1>3, OpenDeviationKeepsInv, RejectDeviationKeepsInv
     DEF OpenDeviation, RejectDeviation
<1>4. ASSUME NEW p \in Publications, OpenPublication(p) \/ RejectPublication(p)
      PROVE  PipelineInv' /\ UNCHANGED <<queueVars, site>>
  BY <1>4, OpenPublicationKeepsInv, RejectPublicationKeepsInv
     DEF OpenPublication, RejectPublication
<1>5. CASE ClaimRead \/ ClaimJournal \/ Reclaim \/ WriteIntent \/ Apply \/ RecordAdopted
  <2>1. UNCHANGED <<queueVars, site>>
    BY <1>5 DEF ClaimRead, ClaimJournal, Reclaim, WriteIntent, Apply, RecordAdopted
  <2> QED
    BY <1>1, <1>5, <2>1, ClaimReadKeepsInv, ClaimJournalKeepsInv, ReclaimKeepsInv,
       WriteIntentKeepsInv, ApplyKeepsInv, RecordAdoptedKeepsInv
<1>6. CASE ClaimCall \/ RenewLease \/ AckAdopted \/ AckGenerated \/ AckConfirmed
           \/ RejectCall
  <2>1. UNCHANGED site
    BY <1>6 DEF ClaimCall, RenewLease, AckAdopted, AckGenerated, AckConfirmed,
       RejectCall
  <2> QED
    BY <1>6, <2>1, ClaimCallKeepsInv, RenewLeaseKeepsInv, AckAdoptedKeepsInv,
       AckGeneratedKeepsInv, AckConfirmedKeepsInv, RejectCallKeepsInv
<1>7. CASE Generate \/ Preflight \/ DeployPreflight \/ Settle \/ Observe
           \/ RecordConfirmed
  <2>1. UNCHANGED <<queueVars, site>>
    BY <1>7 DEF Generate, Preflight, DeployPreflight, Settle, Observe,
       RecordConfirmed
  <2> QED
    BY <1>1, <1>7, <2>1, GenerateKeepsInv, PreflightKeepsInv,
       DeployPreflightKeepsInv, SettleKeepsInv, ObserveKeepsInv,
       RecordConfirmedKeepsInv
<1>8. CASE Spawn
  <2>1. UNCHANGED queueVars
    BY <1>8 DEF Spawn
  <2> QED
    BY <1>1, <1>8, <2>1, SpawnKeepsInv
<1>9. CASE RejectReconciles \/ RejectIntent \/ Cancel \/ JournalEvidence
           \/ RecordRejected
  <2>1. UNCHANGED <<queueVars, site>>
    BY <1>9 DEF RejectReconciles, RejectIntent, Cancel, JournalEvidence,
       RecordRejected
  <2> QED
    BY <1>1, <1>9, <2>1, RejectReconcilesKeepsInv, RejectIntentKeepsInv,
       CancelKeepsInv, JournalEvidenceKeepsInv, RecordRejectedKeepsInv
<1> QED
  BY <1>1, <1>2, <1>3, <1>4, <1>5, <1>6, <1>7, <1>8, <1>9 DEF Command

\* So does every step of the rest of the world, and a step that does nothing.
LEMMA NextKeepsPipelineInv ==
  ASSUME PipelineInv, [Next]_vars
  PROVE  PipelineInv' /\ CallsQueue /\ site.content \subseteq site'.content
<1>1. ASSUME UNCHANGED queueVars
      PROVE  CallsQueue
  BY <1>1, QueueStays DEF RecordsNothing, CallsQueue
<1>2. CASE Admin \/ ConsentChanges \/ \E r \in Requests : FailByHand(r)
  <2>1. UNCHANGED site
    BY <1>2 DEF Admin, ConsentChanges, FailByHand
  <2> QED
    BY <1>2, <2>1, OutsideCallsKeepInv
<1>3. ASSUME NEW r \in Requests, LeaseExpires(r)
      PROVE  PipelineInv' /\ CallsQueue /\ UNCHANGED site
  BY <1>3, LeaseExpiresKeepsInv DEF LeaseExpires
<1>4. CASE OtherRelease \/ \E p \in Publications : UploadLands(p)
  <2>1. UNCHANGED queueVars
    BY <1>4 DEF OtherRelease, UploadLands
  <2> QED
    BY <1>1, <1>4, <2>1, SiteChangesKeepInv
<1>5. CASE Stop \/ OtherEdit
  <2>1. UNCHANGED <<queueVars, site>>
    BY <1>5 DEF Stop, OtherEdit
  <2> QED
    BY <1>1, <1>5, <2>1, StopKeepsInv, OtherEditKeepsInv
<1>6. CASE UNCHANGED vars
  <2>1. UNCHANGED <<queueVars, sourceVars, job, runner, site, proc>>
    BY <1>6 DEF vars, queueVars, sourceVars
  <2>2. (PipelineTypeOK /\ StoresOK)' /\ Steady
    BY <2>1, LookingKeepsStores DEF PipelineInv, PipelineTypeOK
  <2>3. RunOK'
    BY <2>1, <2>2, WaitingKeepsRun DEF PipelineInv
  <2> QED
    BY <1>1, <2>1, <2>2, <2>3 DEF PipelineInv
<1> QED
  BY <1>2, <1>3, <1>4, <1>5, <1>6, CommandKeepsInv DEF Next, Environment

\* The inductive invariant holds throughout.
THEOREM PipelineIsInvariant == Spec => []PipelineInv
<1>1. Init => PipelineInv
  BY InitHasPipelineInv
<1>2. PipelineInv /\ [Next]_vars => PipelineInv'
  BY NextKeepsPipelineInv
<1> QED
  BY <1>1, <1>2, PTL DEF Spec

\* Every variable keeps to its type: the four stores never hold a value their
\* columns, journals and files have no room for.
THEOREM PipelineIsTyped == Spec => []PipelineTypeOK
<1>1. PipelineInv => PipelineTypeOK
  BY DEF PipelineInv
<1> QED
  BY <1>1, PipelineIsInvariant, PTL

\* The queue calls a correction adopted only with the change and its receipt in
\* the source, and rejected only with its tombstone there, wherever a command
\* stopped (controller 477-513, worker 158-177).
THEOREM QueueAlwaysAgrees == Spec => []QueueAgreesWithSource
<1>1. PipelineInv => QueueAgreesWithSource
  BY DEF PipelineInv, StoresOK
<1> QED
  BY <1>1, PipelineIsInvariant, PTL

\* A value that a correction changed is replaced only by a correction whose
\* author was shown the content with that change (worker 199, controller 267).
THEOREM NothingIsOverwrittenBlindly == Spec => []NoBlindOverwrite
<1>1. ASSUME NEW c \in Deviations
      PROVE  Src!ActiveValue(receipts[c].base, Department[c]) =
               ValueIn(receipts, receipts[c].base, Department[c])
  BY ActiveIsValue
<1>2. PipelineInv => NoBlindOverwrite
  BY <1>1 DEF PipelineInv, StoresOK, ValuesOK, NoChangeUnseen, NoBlindOverwrite,
     Locally, Src!HasReceipt, ChangedTheValue
<1> QED
  BY <1>2, PipelineIsInvariant, PTL

\* A publication is pinned to the content its admin saw and its cohort, nothing
\* else (SQL 17-19, controller 326).
THEOREM CohortIsPublishedExactly == Spec => []PublishesExactlyItsCohort
<1>1. PipelineInv => PublishesExactlyItsCohort
  BY DEF PipelineInv, StoresOK, CandidatesOK, PublishesExactlyItsCohort
<1> QED
  BY <1>1, PipelineIsInvariant, PTL

\* From the candidate until the confirmation no correction changes the source
\* (SQL 17-19).
THEOREM SourceStaysFrozen == Spec => []SourceFrozenWhilePublishing
<1>1. PipelineInv => SourceFrozenWhilePublishing
  BY DEF PipelineInv, StoresOK, CandidatesOK, SourceFrozenWhilePublishing
<1> QED
  BY <1>1, PipelineIsInvariant, PTL

\* An upload that may have started keeps the pins of the one candidate uploaded
\* and is never rejected, and a publication is confirmed only after that upload
\* was in production and observed (controller 367-389, publish 830-882).
THEOREM UploadStaysPinned == Spec => []UploadIsPinned
<1>1. PipelineInv => UploadIsPinned
  <2> SUFFICES ASSUME PipelineInv
               PROVE  UploadIsPinned
    OBVIOUS
  <2>1. ASSUME NEW p \in site.started
        PROVE  /\ row[p].pins = job[p].candidate /\ row[p].pins # None
               /\ row[p].state \in {"generated", "publication_confirmed", "blocked"}
    <3>1. p \in Publications
      BY DEF PipelineInv, PipelineTypeOK, Site
    <3>2. row[p].pins # None
      BY DEF PipelineInv, StoresOK, SiteOK
    <3>3. row[p].pins = job[p].candidate
      BY <3>1, <3>2 DEF PipelineInv, StoresOK, CandidatesOK
    <3> QED
      BY <3>1, <3>2, <3>3 DEF PipelineInv, StoresOK, QueueOK, QP!QueueInv,
         QP!PinnedNeverReleased
  <2> QED
    BY <2>1 DEF PipelineInv, StoresOK, SiteOK, UploadIsPinned
<1> QED
  BY <1>1, PipelineIsInvariant, PTL

\* A set whose members are all the same has one member at most.
LEMMA AtMostOne ==
  ASSUME NEW S, \A x, y \in S : x = y
  PROVE  Cardinality(S) <= 1
<1>1. CASE S = {}
  BY <1>1, FS_EmptySet
<1>2. CASE \E x : x \in S
  <2>1. PICK x : S = {x}
    BY <1>2
  <2> QED
    BY <2>1, FS_Singleton
<1> QED
  BY <1>1, <1>2

\* An entry appended to the history, unless it is there, is recorded.
LEMMA HistoryGrows ==
  ASSUME runner \in Runner, NEW d \in Deviations,
         runner' = [runner EXCEPT
                      !.history = IF Listed(d) THEN @ ELSE Append(@, d),
                      !.completed[d] = "adopted"]
  PROVE  Recorded' = Recorded \cup {d}
<1> DEFINE h == IF Listed(d) THEN runner.history ELSE Append(runner.history, d)
<1>1. runner.history \in Seq(Deviations) /\ Len(runner.history) \in Nat
  BY DEF Runner
<1>2. runner'.history = h
  BY DEF Runner
<1>3. CASE Listed(d)
  BY <1>1, <1>2, <1>3 DEF Listed, Recorded
<1>4. CASE ~ Listed(d)
  <2>1. h = Append(runner.history, d)
    BY <1>4
  <2> HIDE DEF h
  <2>2. /\ h \in Seq(Deviations) /\ Len(h) = Len(runner.history) + 1
        /\ \A i \in 1..Len(h) : h[i] = IF i <= Len(runner.history)
                                       THEN runner.history[i] ELSE d
    BY <1>1, <2>1
  <2>3. {h[i] : i \in 1..Len(h)} \subseteq Recorded \cup {d}
    BY <1>1, <2>2 DEF Recorded
  <2>4. Recorded \cup {d} \subseteq {h[i] : i \in 1..Len(h)}
    BY <1>1, <2>2 DEF Recorded
  <2> QED
    BY <1>2, <2>3, <2>4 DEF Recorded
<1> QED
  BY <1>3, <1>4


\* No commit that is in doubt was recorded before.
DoubtIsNew == \A d \in Doubt : runner.completed[d] # "adopted"

\* A step records an adoption together with its entry in the history, and drops
\* the history only for an anchor that holds all of it.
LEMMA DoubtStaysNew ==
  ASSUME PipelineInv, DoubtIsNew, [Next]_vars
  PROVE  DoubtIsNew'
<1>1. ASSUME UNCHANGED runner, (tip' \cap Deviations) \subseteq tip
      PROVE  DoubtIsNew'
  <2>1. Doubt' \subseteq Doubt
    BY <1>1 DEF Doubt, Recorded
  <2> QED
    BY <1>1, <2>1 DEF DoubtIsNew
<1>2. UNCHANGED <<tip, runner>> => DoubtIsNew'
  BY DEF DoubtIsNew, Doubt, Recorded
<1>3. CASE Apply
  <2>1. /\ UNCHANGED <<runner, row>> /\ Req \in Deviations /\ Req \in Requests
        /\ Src!WorkerAdopt(Req, job[Req].intent, row[Req].expected)
    BY <1>3 DEF Apply, PipelineInv, RunOK, CommandOK, At, Aim, CorrectionSteps, Requests,
       queueVars
  <2>2. CASE tip' = tip
    BY <1>2, <2>1, <2>2
  <2>3. CASE receipts[Req] = None /\ tip' = tip \cup {Req}
    <3>1. Req \notin Locally("adopted")
      BY <2>3 DEF Locally, Src!HasReceipt
    <3>2. runner.completed[Req] # "adopted"
      BY <2>1, <3>1 DEF PipelineInv, StoresOK, RecordsOK, QueueAgreesWithSource
    <3>3. Doubt' \subseteq Doubt \cup {Req}
      BY <2>1, <2>3 DEF Doubt, Recorded
    <3> QED
      BY <2>1, <3>2, <3>3 DEF DoubtIsNew
  <2> QED
    BY <2>1, <2>2, <2>3 DEF Src!WorkerAdopt
<1>4. CASE RecordAdopted
  <2>1. /\ UNCHANGED sourceVars /\ runner \in Runner
        /\ Req \in Deviations /\ Req \in Requests
        /\ runner' = [runner EXCEPT
                        !.history = IF Listed(Req) THEN @ ELSE Append(@, Req),
                        !.completed[Req] = "adopted"]
    BY <1>4 DEF RecordAdopted, PipelineInv, PipelineTypeOK, RunOK, CommandOK, At, Aim,
       CorrectionSteps, Requests
  <2>2. Recorded' = Recorded \cup {Req}
    BY <2>1, HistoryGrows
  <2>3. /\ Doubt' \subseteq Doubt \ {Req}
        /\ \A d \in Doubt : d # Req => runner'.completed[d] = runner.completed[d]
    BY <2>1, <2>2 DEF Doubt, sourceVars, Runner, Requests
  <2> QED
    BY <2>3 DEF DoubtIsNew
<1>5. CASE RecordConfirmed
  <2>1. /\ tip' = tip /\ runner'.anchor = job[Req].candidate.source
        /\ tip \cap Deviations = job[Req].candidate.source \cap Deviations
    BY <1>5 DEF RecordConfirmed, PipelineInv, RunOK, PublicationRunOK, At, Aim, sourceVars
  <2> QED
    BY <2>1 DEF DoubtIsNew, Doubt
<1>6. CASE RecordRejected
  <2>1. /\ UNCHANGED sourceVars /\ runner \in Runner /\ Req \in Requests
        /\ runner' = [runner EXCEPT !.completed[Req] = "rejected"]
    BY <1>6 DEF RecordRejected, PipelineInv, PipelineTypeOK, RunOK, CommandOK, At, Aim
  <2>2. /\ Doubt' = Doubt
        /\ \A d \in Requests : runner'.completed[d] = "adopted" =>
             runner.completed[d] = "adopted"
    BY <2>1 DEF Doubt, Recorded, sourceVars, Runner
  <2>3. Doubt \subseteq Requests
    BY DEF Doubt, Requests
  <2> QED
    BY <2>2, <2>3 DEF DoubtIsNew
<1>7. CASE Cancel \/ OtherEdit
  <2>1. UNCHANGED runner /\ (tip' \cap Deviations) \subseteq tip
    BY <1>7, PipelineAssumption DEF Cancel, OtherEdit, Src!WorkerCancel, Src!OtherEdit
  <2> QED
    BY <1>1, <2>1
<1> QED
  BY <1>2, <1>3, <1>4, <1>5, <1>6, <1>7
  DEF Next, Command, Environment, vars, sourceVars, Run, Reject, OpenDeviation,
      RejectDeviation, OpenPublication, RejectPublication, ClaimRead, ClaimCall,
      ClaimJournal, Reclaim, RenewLease, WriteIntent, AckAdopted, Generate, AckGenerated,
      Preflight, DeployPreflight, Spawn, Settle, Observe, AckConfirmed, RejectReconciles,
      RejectIntent, JournalEvidence, RejectCall, Admin, ConsentChanges, Stop,
      OtherRelease, LeaseExpires, FailByHand, UploadLands

\* state.json never says more than the queue and the source, and less only by one
\* commit, whose intent is on disk and which it has not recorded before (runner
\* 283-306, controller 270-278, 311-328, 435-438).
THEOREM StateFileStaysTruthful == Spec => []StateFileIsTruthful
<1>1. PipelineInv /\ DoubtIsNew => StateFileIsTruthful
  <2> SUFFICES ASSUME PipelineInv, DoubtIsNew
               PROVE  StateFileIsTruthful
    OBVIOUS
  <2>1. RecordsOK
    BY DEF PipelineInv, StoresOK
  <2>2. Cardinality(Doubt) <= 1
    BY <2>1, AtMostOne DEF RecordsOK
  <2> QED
    BY <2>1, <2>2 DEF RecordsOK, Doubt, DoubtIsNew, StateFileIsTruthful
<1>2. Init => DoubtIsNew
  BY DEF Init, Src!SourceInit, DoubtIsNew, Doubt
<1>3. PipelineInv /\ DoubtIsNew /\ [Next]_vars => DoubtIsNew'
  BY DoubtStaysNew
<1> QED
  BY <1>1, <1>2, <1>3, PipelineIsInvariant, PTL DEF Spec

\* The site never goes back to an earlier content, also when an upload lands late
\* (publish 805-868).
THEOREM SiteAlwaysGrows == Spec => SiteOnlyGrows
<1>1. PipelineInv /\ [Next]_vars => [site.content \subseteq site'.content]_vars
  BY NextKeepsPipelineInv
<1> QED
  BY <1>1, PipelineIsInvariant, PTL DEF Spec, SiteOnlyGrows

\* All the pipeline does to the queue are calls the queue's own specification has,
\* so that whatever is proved of the queue under any owner holds here: its ACKs,
\* claims and rejections are never sent with arguments it is not about.
THEOREM QueueIsUsedAsSpecified == Spec => QP!QueueSpec
<1>1. Init => QP!QueueInit
  BY SameQueue DEF Init
<1>2. PipelineInv /\ [Next]_vars => [QP!QueueNext]_QP!queueVars
  BY NextKeepsPipelineInv DEF CallsQueue
<1> QED
  BY <1>1, <1>2, PipelineIsInvariant, PTL DEF Spec, QP!QueueSpec

----------------------------------------------------------------------------
(* What the refinement needs beyond the invariant of the pipeline.          *)

\* The site shows what was uploaded to it, and every anchor; what a candidate
\* was made on top of is public already; and what is public came with a cohort.
SiteHistory ==
  /\ \A p \in site.landed : job[p].candidate.source \subseteq site.content
  /\ runner.anchor \subseteq site.content
  /\ \A p \in Publications : job[p].candidate # None => row[p].expected \subseteq site.content
  /\ \A d \in site.content \cap Deviations : \E q \in site.landed : d \in row[q].included

\* A command is about to adopt a correction that is not in the source, on the
\* strength of a claim it has read.
Adopting ==
  /\ Aim \in {"intent", "apply"} /\ proc.pc \notin {"claim", "claiming"}
  /\ receipts[Req] = None /\ proc.q.state = "claimed"

\* The claim still holds, in state if not in time: only a failure reported by
\* hand would take it back.
ClaimStands == Adopting => row[Req].state = "claimed"

----------------------------------------------------------------------------
(* Facts about the queue, in the names of the pipeline.                     *)

\* What the queue's invariant says of publications and their members.
LEMMA QueueFacts ==
  ASSUME PipelineInv
  PROVE  /\ \A p, q \in Publications : Q!Pending(p) /\ Q!Pending(q) => p = q
         /\ \A p \in Publications : row[p].state \notin {"absent", "rejected"} =>
              \A d \in row[p].included : row[d].pubId = p
         /\ \A p \in Publications : row[p].state = "publication_confirmed" =>
              \A d \in row[p].included : row[d].state = "publication_confirmed"
         /\ \A p \in Publications : row[p].pins # None =>
              row[p].state \in {"generated", "publication_confirmed", "blocked"}
         /\ \A p \in Publications, d \in Deviations :
              Q!Pending(p) /\ row[d].state = "claimed" => d \in row[p].included
         /\ \A r \in Requests : row[r].state = "absent" => row[r].pins = None
         /\ \A p \in Publications : row[p].included \subseteq Deviations
         /\ \A p \in Publications :
              Q!Pending(p) <=> row[p].state \notin {"absent", "publication_confirmed", "rejected"}
         /\ Requests = Deviations \cup Publications
         /\ Deviations \cap Publications = {}
         /\ None \notin Requests
<1>1. QP!QueueInv /\ QP!RowsSound
  BY DEF PipelineInv, StoresOK, QueueOK
<1>2. \A p \in Publications : Q!Pending(p) <=> QP!Pending(p)
  BY SameQueue
<1>3. /\ \A p, q \in Publications : QP!Pending(p) /\ QP!Pending(q) => p = q
      /\ \A p \in Publications : row[p].state \notin {"absent", "rejected"} =>
           \A d \in row[p].included : row[d].pubId = p
  BY <1>1 DEF QP!QueueInv, QP!CohortsDisjoint
<1>4. \A p \in Publications : row[p].state = "publication_confirmed" =>
        \A d \in row[p].included : row[d].state = "publication_confirmed"
  BY <1>1 DEF QP!QueueInv, QP!ConfirmedTogether
<1>5. \A p \in Publications : row[p].pins # None =>
        row[p].state \in {"generated", "publication_confirmed", "blocked"}
  BY <1>1 DEF QP!QueueInv, QP!PinnedNeverReleased
<1>6. \A p \in Publications, d \in Deviations :
        QP!Pending(p) /\ row[d].state = "claimed" => d \in row[p].included
  BY <1>1 DEF QP!QueueInv, QP!LaterCorrectionsWait
<1>7. \A r \in Requests : row[r].state = "absent" => row[r].pins = None
  BY <1>1, SameQueue DEF QP!RowsSound, QP!NoRow
<1>8. /\ \A p \in Publications : row[p].included \subseteq Deviations
      /\ Deviations \cap Publications = {} /\ None \notin Requests
  BY <1>1, QP!RowsTyped, QueueConstants, SameQueue DEF QP!QueueInv, Requests
<1>9. \A p \in Publications :
        Q!Pending(p) <=> row[p].state \notin {"absent", "publication_confirmed", "rejected"}
  BY DEF Q!Pending, Q!Terminal
<1> QED
  BY <1>2, <1>3, <1>4, <1>5, <1>6, <1>7, <1>8, <1>9 DEF Requests

\* The same of the next state.
LEMMA QueueFactsNext ==
  ASSUME PipelineInv'
  PROVE  /\ \A p, q \in Publications : Q!Pending(p)' /\ Q!Pending(q)' => p = q
         /\ \A p \in Publications :
              Q!Pending(p)' <=> row'[p].state \notin {"absent", "publication_confirmed", "rejected"}
         /\ \A p \in Publications : row'[p].pins # None =>
              row'[p].state \in {"generated", "publication_confirmed", "blocked"}
<1>1. QP!QueueInv'
  BY DEF PipelineInv, StoresOK, QueueOK
<1>2. \A p \in Publications :
        Q!Pending(p)' <=> row'[p].state \notin {"absent", "publication_confirmed", "rejected"}
  BY DEF Q!Pending, Q!Terminal
<1>3. \A p, q \in Publications :
        /\ row'[p].state \notin {"absent", "publication_confirmed", "rejected"}
        /\ row'[q].state \notin {"absent", "publication_confirmed", "rejected"}
        => p = q
  BY <1>1 DEF QP!QueueInv, QP!CohortsDisjoint, QP!Pending, QP!Terminal
<1>4. \A p \in Publications : row'[p].pins # None =>
        row'[p].state \in {"generated", "publication_confirmed", "blocked"}
  BY <1>1 DEF QP!QueueInv, QP!PinnedNeverReleased
<1> QED
  BY <1>2, <1>3, <1>4

\* What is on its way to the site is pinned.
LEMMA LandedIsPinned ==
  ASSUME PipelineInv
  PROVE  /\ site.landed \subseteq site.started /\ site.started \subseteq Publications
         /\ \A p \in site.started :
              /\ row[p].pins # None /\ row[p].pins = job[p].candidate
              /\ row[p].state \in {"generated", "publication_confirmed", "blocked"}
         /\ \A p \in Publications : row[p].state = "publication_confirmed" => p \in site.landed
         /\ site.content \subseteq tip
<1>1. site \in Site
  BY DEF PipelineInv, PipelineTypeOK
<1>2. site.started \subseteq Publications
  BY <1>1 DEF Site
<1>3. SiteOK /\ CandidatesOK
  BY DEF PipelineInv, StoresOK
<1>4. /\ site.landed \subseteq site.started
      /\ \A p \in site.started : row[p].pins # None
      /\ \A p \in Publications : row[p].state = "publication_confirmed" => p \in site.landed
      /\ site.content \subseteq tip
  BY <1>3 DEF SiteOK
<1>5. \A p \in Publications : row[p].pins # None => row[p].pins = job[p].candidate
  BY <1>3 DEF CandidatesOK
<1> QED
  BY <1>2, <1>4, <1>5, QueueFacts

----------------------------------------------------------------------------
(* What is public stays so, and came with a cohort.                         *)

\* Only an upload that lands puts something on the site, only a confirmation
\* moves the anchor, only publisher.generate makes a candidate, and only the
\* worker and a tool of others change the source.
LEMMA WhoChangesWhat ==
  ASSUME PipelineInv, [Next]_vars
  PROVE  /\ \/ site'.landed = site.landed /\ site'.content = site.content
            \/ \E p \in Publications : UploadLands(p)
         /\ runner'.anchor = runner.anchor \/ RecordConfirmed
         /\ \/ \A p \in Publications : job'[p].candidate = job[p].candidate
            \/ Generate
         /\ UNCHANGED sourceVars \/ Apply \/ Cancel \/ OtherEdit
<1>0. /\ job \in [Requests -> Job] /\ site \in Site /\ runner \in Runner
      /\ Publications \subseteq Requests
      /\ \A r \in Requests : job[r] \in Job
  BY DEF PipelineInv, PipelineTypeOK, Requests
<1>j. ASSUME NEW r \in Requests, NEW x \in Job, job' = [job EXCEPT ![r] = x],
             x.candidate = job[r].candidate
      PROVE  \A p \in Publications : job'[p].candidate = job[p].candidate
  BY <1>0, <1>j
<1>a. ~ At("idle") => Req \in Requests
  BY DEF PipelineInv, RunOK, CommandOK
<1>1. CASE \E r \in Requests : Run(r) \/ Reject(r)
  <2>1. PICK r \in Requests : Run(r) \/ Reject(r)
    BY <1>1
  <2>2. job[r] \in Job /\ job[r].epoch \in Nat /\ runner.epoch \in Nat
    BY <1>0 DEF Job, Runner
  <2>3. PICK v \in Nat : job' = [job EXCEPT ![r] = [job[r] EXCEPT !.epoch = v]]
    BY <2>1, <2>2, <1>0 DEF Run, Reject
  <2>4. \A p \in Publications : job'[p].candidate = job[p].candidate
    BY <1>j, <2>2, <2>3, JobMarks DEF SameWork
  <2> QED
    BY <2>1, <2>4 DEF Run, Reject
<1>2. CASE \/ \E d \in Deviations : OpenDeviation(d) \/ RejectDeviation(d)
           \/ \E p \in Publications : OpenPublication(p) \/ RejectPublication(p)
  BY <1>2 DEF OpenDeviation, RejectDeviation, OpenPublication, RejectPublication
<1>3. CASE ClaimRead \/ ClaimCall \/ Reclaim \/ RenewLease
  BY <1>3 DEF ClaimRead, ClaimCall, Reclaim, RenewLease
<1>4. CASE ClaimJournal \/ Preflight \/ DeployPreflight \/ Settle \/ JournalEvidence
  <2>1. Req \in Requests /\ job[Req] \in Job
    BY <1>0, <1>4, <1>a DEF ClaimJournal, Preflight, DeployPreflight, Settle, JournalEvidence, At
  <2>2. /\ proc.q.token \in Nat /\ site.canonical \in {None} \cup Releases
        /\ proc.tip \in {None} \cup Contents
    BY ProcFields, <1>0 DEF PipelineInv, PipelineTypeOK, Q!Row, Site
  <2>3. PICK x \in Job : /\ job' = [job EXCEPT ![Req] = x]
                         /\ x.candidate = job[Req].candidate
    <3>1. CASE ClaimJournal
      BY <2>1, <2>2, <3>1, JobMarks DEF ClaimJournal, SameWork
    <3>2. CASE Preflight
      BY <2>1, <3>2, JobMarks DEF Preflight, SameWork
    <3>3. CASE DeployPreflight
      <4> DEFINE x == [job[Req] EXCEPT !.previous = site.canonical]
      <4>1. job' = [job EXCEPT ![Req] = x]
        BY <3>3 DEF DeployPreflight
      <4>2. x \in Job /\ x.candidate = job[Req].candidate
        BY <2>1, <2>2, JobMarks DEF SameWork
      <4> HIDE DEF x
      <4> QED
        BY <4>1, <4>2
    <3>4. CASE Settle
      BY <2>1, <3>4, JobMarks DEF Settle, SameWork
    <3>5. CASE JournalEvidence
      <4> DEFINE x == [job[Req] EXCEPT !.evidence = proc.tip]
      <4>1. job' = [job EXCEPT ![Req] = x]
        BY <3>5 DEF JournalEvidence
      <4>2. x \in Job /\ x.candidate = job[Req].candidate
        BY <2>1, <2>2, JobMarks DEF SameWork
      <4> HIDE DEF x
      <4> QED
        BY <4>1, <4>2
    <3> QED
      BY <1>4, <3>1, <3>2, <3>3, <3>4, <3>5
  <2>4. \A p \in Publications : job'[p].candidate = job[p].candidate
    BY <1>j, <2>1, <2>3
  <2> QED
    BY <1>4, <2>4 DEF ClaimJournal, Preflight, DeployPreflight, Settle, JournalEvidence
<1>5. CASE WriteIntent \/ RejectIntent \/ Observe
  <2>1. Req \in Requests /\ job[Req] \in Job
    BY <1>0, <1>5, <1>a DEF WriteIntent, RejectIntent, Observe, At
  <2>2. /\ proc.tip \in {None} \cup Contents
        /\ BaseSource \in {None} \cup Contents
    BY <2>1, ProcFields DEF PipelineInv, PipelineTypeOK, Job, BaseSource
  <2>3. PICK x \in Job : /\ job' = [job EXCEPT ![Req] = x]
                         /\ x.candidate = job[Req].candidate
    <3>1. CASE WriteIntent
      <4> DEFINE x == [job[Req] EXCEPT !.intent = BaseSource]
      <4>1. job' = [job EXCEPT ![Req] = x]
        BY <3>1 DEF WriteIntent
      <4>2. x \in Job /\ x.candidate = job[Req].candidate
        BY <2>1, <2>2, JobWork
      <4> HIDE DEF x
      <4> QED
        BY <4>1, <4>2
    <3>2. CASE RejectIntent
      <4> DEFINE x == [job[Req] EXCEPT !.intent = proc.tip]
      <4>1. job' = [job EXCEPT ![Req] = x]
        BY <3>2 DEF RejectIntent
      <4>2. x \in Job /\ x.candidate = job[Req].candidate
        BY <2>1, <2>2, JobWork
      <4> HIDE DEF x
      <4> QED
        BY <4>1, <4>2
    <3>3. CASE Observe
      <4>1. PICK ev \in Evidence : job' = [job EXCEPT ![Req].observation = ev]
        BY <3>3 DEF Observe
      <4>2. ev \in {None} \cup Evidence
        OBVIOUS
      <4> DEFINE x == [job[Req] EXCEPT !.observation = ev]
      <4>3. job' = [job EXCEPT ![Req] = x]
        BY <4>1
      <4>4. x \in Job /\ x.candidate = job[Req].candidate
        BY <2>1, <4>2, JobWork
      <4> HIDE DEF x
      <4> QED
        BY <4>3, <4>4
    <3> QED
      BY <1>5, <3>1, <3>2, <3>3
  <2>4. \A p \in Publications : job'[p].candidate = job[p].candidate
    BY <1>j, <2>1, <2>3
  <2> QED
    BY <1>5, <2>4 DEF WriteIntent, RejectIntent, Observe
<1>6. CASE \/ Apply \/ AckAdopted \/ AckGenerated \/ AckConfirmed \/ Generate
           \/ RejectReconciles \/ Cancel \/ RejectCall
  BY <1>6 DEF Apply, AckAdopted, AckGenerated, AckConfirmed, Generate,
              RejectReconciles, Cancel, RejectCall
<1>7. CASE RecordAdopted \/ RecordConfirmed \/ RecordRejected
  <2>1. RecordAdopted \/ RecordRejected => runner'.anchor = runner.anchor
    BY <1>0 DEF RecordAdopted, RecordRejected, Runner
  <2> QED
    BY <1>7, <2>1 DEF RecordAdopted, RecordConfirmed, RecordRejected
<1>8. CASE Spawn \/ OtherRelease
  BY <1>0, <1>8 DEF Spawn, OtherRelease, Site
<1>9. CASE \/ Admin \/ ConsentChanges \/ Stop \/ OtherEdit
           \/ \E r \in Requests : LeaseExpires(r) \/ FailByHand(r)
           \/ \E p \in Publications : UploadLands(p)
           \/ UNCHANGED vars
  <2>1. CASE Admin \/ ConsentChanges \/ Stop
    BY <2>1 DEF Admin, ConsentChanges, Stop, sourceVars
  <2>2. CASE OtherEdit
    BY <2>2 DEF OtherEdit
  <2>3. CASE \E r \in Requests : LeaseExpires(r) \/ FailByHand(r)
    BY <2>3 DEF LeaseExpires, FailByHand, sourceVars
  <2>4. CASE \E p \in Publications : UploadLands(p)
    BY <2>4 DEF UploadLands, sourceVars
  <2>5. CASE UNCHANGED vars
    BY <2>5 DEF vars, sourceVars
  <2> QED
    BY <1>9, <2>1, <2>2, <2>3, <2>4, <2>5
<1> QED
  BY <1>1, <1>2, <1>3, <1>4, <1>5, <1>6, <1>7, <1>8, <1>9 DEF Next, Command, Environment

\* What an upload is of: what the admin saw and the cohort.
LEMMA UploadLandsAsPinned ==
  ASSUME PipelineInv, NEW p \in Publications, UploadLands(p)
  PROVE  /\ p \notin site.landed /\ site'.landed = site.landed \cup {p}
         /\ site'.content = row[p].expected \cup row[p].included
         /\ job[p].candidate # None
         /\ site'.content = job[p].candidate.source
         /\ Q!Pending(p)
<1>1. p \in site.started /\ p \notin site.landed
  BY DEF UploadLands
<1>2. /\ site'.landed = site.landed \cup {p}
      /\ site'.content = job[p].candidate.source
  BY DEF UploadLands, PipelineInv, PipelineTypeOK, Site
<1>3. /\ row[p].pins # None /\ row[p].pins = job[p].candidate
      /\ row[p].state \in {"generated", "publication_confirmed", "blocked"}
      /\ row[p].state = "publication_confirmed" => p \in site.landed
  BY <1>1, LandedIsPinned
<1>4. job[p].candidate.source = row[p].expected \cup row[p].included
  BY <1>3 DEF PipelineInv, StoresOK, CandidatesOK
<1>5. Q!Pending(p)
  BY <1>1, <1>3, QueueFacts
<1> QED
  BY <1>1, <1>2, <1>3, <1>4, <1>5

\* The history of the site goes on: the anchor moves to what was confirmed in
\* production, and each candidate is made on top of the anchor.
LEMMA SiteHistoryGoesOn ==
  ASSUME PipelineInv, SiteHistory, [Next]_vars
  PROVE  SiteHistory'
<1>1. /\ PipelineInv' /\ CallsQueue /\ site.content \subseteq site'.content
      /\ QP!WorkKept /\ QP!RequestKept
  BY NextKeepsPipelineInv, QueueGoesOn DEF CallsQueue, PipelineInv, StoresOK
<1>2. \/ site'.landed = site.landed /\ site'.content = site.content
      \/ \E p \in Publications : UploadLands(p)
  BY WhoChangesWhat
<1>3. \A r \in Requests : row[r].state # "absent" =>
        /\ row'[r].state # "absent"
        /\ row'[r].expected = row[r].expected /\ row'[r].included = row[r].included
  BY <1>1, SameQueue DEF QP!RequestKept, QP!SameRequest
<1>4. \A p \in site.landed :
        /\ row[p].state # "absent"
        /\ job'[p].candidate = job[p].candidate
        /\ p \in Publications
  <2> SUFFICES ASSUME NEW p \in site.landed
               PROVE  /\ row[p].state # "absent"
                      /\ job'[p].candidate = job[p].candidate
                      /\ p \in Publications
    OBVIOUS
  <2>1. /\ p \in Publications /\ p \in Requests /\ row[p].pins # None
        /\ row[p].pins = job[p].candidate /\ row[p].state # "absent"
    BY LandedIsPinned, QueueFacts DEF Requests
  <2>2. row'[p].pins = row[p].pins
    BY <1>1, <2>1, SameQueue DEF QP!WorkKept
  <2>3. row'[p].pins = job'[p].candidate
    BY <1>1, <2>1, <2>2 DEF PipelineInv, StoresOK, CandidatesOK
  <2> QED
    BY <2>1, <2>2, <2>3
<1>5. ASSUME NEW p \in site'.landed
      PROVE  job'[p].candidate.source \subseteq site'.content
  <2>1. CASE p \in site.landed
    BY <1>1, <1>4, <2>1 DEF SiteHistory
  <2>2. CASE p \notin site.landed
    <3>1. PICK q \in Publications : UploadLands(q)
      BY <1>2, <2>2
    <3>2. p = q
      BY <2>2, <3>1, UploadLandsAsPinned
    <3>3. site'.content = job[q].candidate.source /\ UNCHANGED job
      BY <3>1, UploadLandsAsPinned DEF UploadLands
    <3> QED
      BY <3>2, <3>3
  <2> QED
    BY <2>1, <2>2
<1>6. runner'.anchor \subseteq site'.content
  <2>1. CASE runner'.anchor = runner.anchor
    BY <1>1, <2>1 DEF SiteHistory
  <2>2. CASE RecordConfirmed
    <3>1. /\ runner'.anchor = job[Req].candidate.source
          /\ Req \in Publications /\ row[Req].state = "publication_confirmed"
      BY <2>2 DEF RecordConfirmed, PipelineInv, RunOK, CommandOK,
         PublicationRunOK, At, Aim
    <3>2. Req \in site.landed
      BY <3>1, LandedIsPinned
    <3> QED
      BY <1>1, <3>1, <3>2 DEF SiteHistory
  <2> QED
    BY <2>1, <2>2, WhoChangesWhat
<1>7. ASSUME NEW p \in Publications, job'[p].candidate # None
      PROVE  row'[p].expected \subseteq site'.content
  <2>0. p \in Requests
    BY DEF Requests
  <2>1. CASE job[p].candidate # None
    <3>1. row[p].state # "absent" /\ row[p].expected \subseteq site.content
      BY <2>1 DEF SiteHistory, PipelineInv, StoresOK, CandidatesOK
    <3> QED
      BY <1>1, <1>3, <2>0, <3>1
  <2>2. CASE job[p].candidate = None /\ Generate
    <3>1. job' = [job EXCEPT ![Req].candidate = job'[Req].candidate]
          /\ UNCHANGED queueVars
      <4>1. PICK c \in CandidatesOf(Req) :
              job' = [job EXCEPT ![Req].candidate = c]
        BY <2>2 DEF Generate
      <4>2. job[Req] \in Job /\ Req \in Requests /\ job \in [Requests -> Job]
        BY <2>2 DEF PipelineInv, PipelineTypeOK, RunOK, CommandOK, Generate, At
      <4>3. job'[Req].candidate = c
        BY <4>1, <4>2 DEF Job
      <4> QED
        BY <2>2, <4>1, <4>3 DEF Generate
    <3>2. p = Req
      BY <1>7, <2>0, <2>2, <3>1 DEF PipelineInv, PipelineTypeOK
    <3>3. row[Req].expected = runner.anchor
      BY <2>2 DEF Generate, PipelineInv, RunOK, PublicationRunOK, At, Aim,
         PublicationSteps
    <3> QED
      BY <1>1, <3>1, <3>2, <3>3 DEF SiteHistory, queueVars
  <2> QED
    BY <1>7, <2>1, <2>2, WhoChangesWhat
<1>8. ASSUME NEW d \in site'.content \cap Deviations
      PROVE  \E q \in site'.landed : d \in row'[q].included
  <2>1. CASE d \in site.content
    <3>1. PICK q \in site.landed : d \in row[q].included
      BY <2>1 DEF SiteHistory
    <3>2. q \in site'.landed
      BY <1>2, UploadLandsAsPinned
    <3>3. row'[q].included = row[q].included
      BY <1>3, <1>4 DEF Requests
    <3> QED
      BY <3>1, <3>2, <3>3
  <2>2. CASE d \notin site.content
    <3>1. PICK q \in Publications : UploadLands(q)
      BY <1>2, <2>2
    <3>2. /\ site'.landed = site.landed \cup {q}
          /\ site'.content = row[q].expected \cup row[q].included
          /\ job[q].candidate # None
      BY <3>1, UploadLandsAsPinned
    <3>3. row[q].expected \subseteq site.content
      BY <3>2 DEF SiteHistory
    <3>4. d \in row[q].included /\ UNCHANGED row
      BY <2>2, <3>1, <3>2, <3>3 DEF UploadLands, queueVars
    <3> QED
      BY <3>2, <3>4
  <2> QED
    BY <2>1, <2>2
<1> QED
  BY <1>5, <1>6, <1>7, <1>8 DEF SiteHistory

----------------------------------------------------------------------------
(* The claim a local commit rests on.                                      *)

\* Only at these steps does a command still have a local commit before it.
LEMMA AdoptingIsAt ==
  /\ Adopting => proc.pc \in {"claimed", "intent", "apply"}
  /\ proc'.pc \notin {"claimed", "intent", "apply"} => ~ Adopting'
<1>1. Adopting => proc.pc \in {"claimed", "intent", "apply"}
  BY DEF Adopting, Aim
<1>2. Adopting' => proc'.pc \in {"claimed", "intent", "apply"}
  BY DEF Adopting, Aim
<1> QED
  BY <1>1, <1>2

\* No other step of a command leads there.
LEMMA OthersAreNotAdopting ==
  ASSUME PipelineInv, Command
  PROVE  \/ ClaimRead \/ ClaimCall \/ ClaimJournal \/ RenewLease \/ WriteIntent
         \/ proc'.pc \notin {"claimed", "intent", "apply"}
<1>0. proc \in Proc /\ Req \in {None} \cup Requests /\ NoProc.pc = "idle"
  BY ProcFields DEF PipelineInv, PipelineTypeOK, NoProc, Req
<1> DEFINE Elsewhere == proc'.pc \notin {"claimed", "intent", "apply"}
<1>g. \A pc \in Steps : Goto(pc) => proc'.pc = pc
  BY <1>0, ProcGoes
<1>t. \A pc \in Steps : ToRecord(pc) => proc'.pc = pc
  BY DEF ToRecord, NoProc
<1>a. \A pc \in Steps : Acked(pc) => proc'.pc \in {pc, proc.pc}
  <2> TAKE pc \in Steps
  <2>1. proc' = [proc EXCEPT !.retried = TRUE] => proc'.pc = proc.pc
    BY <1>0 DEF Proc
  <2>2. proc' = [proc EXCEPT !.pc = pc, !.q = row'[Req], !.retried = FALSE]
          => proc'.pc = pc
    BY <1>0 DEF Proc
  <2> QED
    BY <1>t, <2>1, <2>2 DEF Acked
<1>1. CASE \E r \in Requests : Run(r) \/ Reject(r)
  <2>1. Elsewhere
    BY <1>1 DEF Run, Reject, NoProc
  <2> QED
    BY <2>1
<1>2. CASE \E d \in Deviations : OpenDeviation(d) \/ RejectDeviation(d)
  <2>1. PICK d \in Deviations : OpenDeviation(d) \/ RejectDeviation(d)
    BY <1>2
  <2>2. \/ ToRecord("recordAdopted") \/ Goto("rejectIntent") \/ Goto("cancel")
        \/ proc' = [proc EXCEPT !.pc = "claim", !.ret = "intent",
                                !.q = row[d], !.tip = tip]
    BY <2>1 DEF OpenDeviation, RejectDeviation
  <2>3. proc' = [proc EXCEPT !.pc = "claim", !.ret = "intent",
                             !.q = row[d], !.tip = tip] => proc'.pc = "claim"
    BY <1>0 DEF Proc
  <2>4. Elsewhere
    BY <1>g, <1>t, <2>2, <2>3 DEF Steps, RecordSteps, RejectSteps
  <2> QED
    BY <2>4
<1>3. CASE \E p \in Publications : OpenPublication(p) \/ RejectPublication(p)
  <2>1. PICK p \in Publications : OpenPublication(p) \/ RejectPublication(p)
    BY <1>3
  <2>2. \/ ToRecord("recordConfirmed") \/ Goto("evidence")
        \/ proc' = [proc EXCEPT !.pc = "claim", !.ret = "generate",
                                !.q = row[p], !.tip = tip]
    BY <2>1 DEF OpenPublication, RejectPublication
  <2>3. proc' = [proc EXCEPT !.pc = "claim", !.ret = "generate",
                             !.q = row[p], !.tip = tip] => proc'.pc = "claim"
    BY <1>0 DEF Proc
  <2>4. Elsewhere
    BY <1>g, <1>t, <2>2, <2>3 DEF Steps, RecordSteps, RejectSteps
  <2> QED
    BY <2>4
<1>4. CASE Reclaim
  <2>1. proc' = [proc EXCEPT !.pc = "claim", !.ret = proc.pc]
    BY <1>4 DEF Reclaim
  <2>2. proc'.pc = "claim"
    BY <1>0, <2>1 DEF Proc
  <2> QED
    BY <2>2
<1>5. CASE Apply \/ Generate \/ DeployPreflight \/ Spawn \/ Settle \/ Observe
  <2>1. \/ Goto("ackAdopted") \/ Goto("ackGenerated") \/ Goto("spawn")
        \/ Goto("settle") \/ Goto("observe") \/ Goto("ackConfirmed")
    BY <1>5 DEF Apply, Generate, DeployPreflight, Spawn, Settle, Observe
  <2>2. Elsewhere
    BY <1>g, <2>1 DEF Steps, RunSteps
  <2> QED
    BY <2>2
<1>6. CASE Preflight
  <2>1. Goto("observe") \/ Goto("settle") \/ Goto("deploy")
    BY <1>6 DEF Preflight
  <2>2. Elsewhere
    BY <1>g, <2>1 DEF Steps, RunSteps
  <2> QED
    BY <2>2
<1>7. CASE AckAdopted \/ AckConfirmed \/ RejectCall
  <2>1. /\ proc.pc \in {"ackAdopted", "ackConfirmed", "reject"}
        /\ Acked("recordAdopted") \/ Acked("recordConfirmed") \/ Acked("recordRejected")
    BY <1>7 DEF AckAdopted, AckConfirmed, RejectCall, At
  <2>2. Elsewhere
    BY <1>a, <2>1 DEF Steps, RecordSteps
  <2> QED
    BY <2>2
<1>8. CASE AckGenerated
  <2>1. /\ proc.pc = "ackGenerated"
        /\ Goto("preflight") \/ Acked("preflight")
    BY <1>8 DEF AckGenerated, At
  <2>2. Elsewhere
    BY <1>a, <1>g, <2>1 DEF Steps, RunSteps
  <2> QED
    BY <2>2
<1>9. CASE RecordAdopted \/ RecordConfirmed \/ RecordRejected
  <2>1. proc' = NoProc
    BY <1>9 DEF RecordAdopted, RecordConfirmed, RecordRejected
  <2> QED
    BY <1>0, <2>1
<1>10. CASE RejectReconciles \/ RejectIntent \/ Cancel \/ JournalEvidence
  <2>1. \/ ToRecord("recordRejected") \/ Goto("cancel") \/ Goto("evidence")
        \/ Goto("reject") \/ proc' = NoProc
    BY <1>10 DEF RejectReconciles, RejectIntent, Cancel, JournalEvidence
  <2>2. Elsewhere
    BY <1>0, <1>g, <1>t, <2>1 DEF Steps, RecordSteps, RejectSteps
  <2> QED
    BY <2>2
<1> QED
  BY <1>1, <1>2, <1>3, <1>4, <1>5, <1>6, <1>7, <1>8, <1>9, <1>10 DEF Command

\* What a step of others does with the state of a claimed correction: nothing,
\* unless its failure is reported by hand.
LEMMA ClaimIsNotTaken ==
  ASSUME PipelineInv, NEW d \in Deviations, row[d].state = "claimed",
         \/ \E g \in Contents :
              \/ \E c \in Deviations : Q!RequestDeviation(c, g)
              \/ \E p \in Publications : Q!RequestPublication(p, g)
         \/ \E r \in Requests : Q!LeaseExpires(r)
         \/ UNCHANGED row
  PROVE  row'[d].state = "claimed"
<1>0. /\ QP!QueueTypeOK /\ QP!QueueAssumption
      /\ d \in QP!Requests /\ QP!Requests = Requests
  BY QueueConstants, SameQueue DEF PipelineInv, StoresOK, QueueOK, QP!QueueInv, Requests
<1>1. ASSUME NEW g \in Contents, NEW c \in Deviations, Q!RequestDeviation(c, g)
      PROVE  row'[d].state = "claimed"
  <2>1. QP!OnlyRow(c) /\ row[c].state = "absent"
    BY <1>0, <1>1, SameRequestsAndRejections, QP!RequestDeviationEffect
  <2>2. row'[d] = row[d]
    BY <1>0, <2>1 DEF QP!OnlyRow
  <2> QED
    BY <2>2
<1>2. ASSUME NEW g \in Contents, NEW p \in Publications, Q!RequestPublication(p, g)
      PROVE  row'[d].state = "claimed"
  <2>1. /\ \A r \in Requests : r # p /\ r \notin QP!OpenCohort => row'[r] = row[r]
        /\ \A c \in QP!OpenCohort : row'[c].state = row[c].state
    BY <1>0, <1>2, SameRequestsAndRejections, QP!RequestPublicationEffect
  <2>2. d # p /\ d \in Requests
    BY QueueFacts DEF Requests
  <2> QED
    BY <2>1, <2>2
<1>3. ASSUME NEW r \in Requests, Q!LeaseExpires(r)
      PROVE  row'[d].state = "claimed"
  <2>1. QP!OnlyRow(r) /\ row'[r].state = row[r].state
    BY <1>0, <1>3, SameLeaseSteps, QP!LapseEffect
  <2> QED
    BY <1>0, <2>1 DEF QP!OnlyRow
<1> QED
  BY <1>1, <1>2, <1>3

\* A claim that was read stands until the local commit.
LEMMA ClaimStandsGoesOn ==
  ASSUME PipelineInv, ClaimStands, ~ ManualFail, [Next]_vars
  PROVE  ClaimStands'
<1>0. proc \in Proc /\ (~ At("idle") => Req \in Requests)
  BY DEF PipelineInv, PipelineTypeOK, RunOK, CommandOK
<1>d. Adopting => Req \in Deviations
  BY DEF Adopting, PipelineInv, RunOK, CommandOK, CorrectionSteps
<1>1. CASE ClaimRead
  <2>1. proc'.q = row[Req] /\ row' = row /\ proc'.req = proc.req
    BY <1>0, <1>1 DEF ClaimRead, queueVars, Proc
  <2> QED
    BY <2>1 DEF ClaimStands, Adopting, Req
<1>2. CASE ClaimCall \/ RenewLease
  <2>1. proc'.q = row'[Req] /\ proc'.req = proc.req
    BY <1>0, <1>2 DEF ClaimCall, RenewLease, Proc
  <2> QED
    BY <2>1 DEF ClaimStands, Adopting, Req
<1>3. CASE ClaimJournal \/ WriteIntent
  <2>1. /\ row' = row /\ receipts' = receipts
        /\ proc'.q = proc.q /\ proc'.req = proc.req
        /\ \/ proc.pc = "claimed" /\ proc'.pc = proc.ret /\ proc.ret \in Checkpoints
           \/ proc.pc = "intent" /\ proc'.pc = "apply"
    BY <1>0, <1>3 DEF ClaimJournal, WriteIntent, Goto, At, Proc, PipelineInv, RunOK,
       CommandOK, queueVars, sourceVars
  <2>2. Adopting' => Adopting
    BY <2>1 DEF Adopting, Aim, Req, Checkpoints
  <2> QED
    BY <2>1, <2>2 DEF ClaimStands, Req
<1>4. ASSUME \/ Admin \/ ConsentChanges \/ OtherRelease \/ OtherEdit
             \/ \E r \in Requests : LeaseExpires(r)
             \/ \E p \in Publications : UploadLands(p)
             \/ UNCHANGED vars
      PROVE  ClaimStands'
  <2>1. /\ receipts' = receipts
        /\ proc'.pc = proc.pc /\ proc'.ret = proc.ret /\ proc'.req = proc.req
        /\ proc'.q.state = proc.q.state
    <3>1. CASE \E r \in Requests : LeaseExpires(r)
      <4>1. proc.q \in Q!Row
        BY <1>0, ProcFields
      <4>2. proc' = proc \/ proc' = [proc EXCEPT !.q = [proc.q EXCEPT !.live = FALSE]]
        BY <3>1 DEF LeaseExpires
      <4>3. [proc.q EXCEPT !.live = FALSE].state = proc.q.state
        BY <4>1 DEF Q!Row
      <4> QED
        BY <1>0, <3>1, <4>2, <4>3 DEF LeaseExpires, sourceVars, Proc
    <3>2. CASE UNCHANGED vars
      BY <3>2 DEF vars
    <3>3. CASE OtherEdit
      BY <3>3 DEF OtherEdit, Src!OtherEdit
    <3>4. CASE Admin \/ ConsentChanges \/ OtherRelease
      BY <3>4 DEF Admin, ConsentChanges, OtherRelease, sourceVars
    <3>5. CASE \E p \in Publications : UploadLands(p)
      BY <3>5 DEF UploadLands, sourceVars
    <3> QED
      BY <1>4, <3>1, <3>2, <3>3, <3>4, <3>5
  <2>2. Adopting' => Adopting
    BY <2>1 DEF Adopting, Aim, Req
  <2>3. SUFFICES ASSUME Adopting
                 PROVE  row'[Req].state = "claimed"
    BY <2>1, <2>2 DEF ClaimStands, Req
  <2>4. Req \in Deviations /\ row[Req].state = "claimed"
    BY <1>d, <2>3 DEF ClaimStands
  <2>5. \/ \E g \in Contents :
             \/ \E c \in Deviations : Q!RequestDeviation(c, g)
             \/ \E p \in Publications : Q!RequestPublication(p, g)
        \/ \E r \in Requests : Q!LeaseExpires(r)
        \/ UNCHANGED row
    <3>1. CASE Admin
      <4>1. Shown \subseteq Contents
        BY ShownAreContents DEF PipelineInv
      <4> QED
        BY <3>1, <4>1 DEF Admin
    <3>2. CASE \E r \in Requests : LeaseExpires(r)
      BY <3>2 DEF LeaseExpires, queueVars
    <3>3. CASE ConsentChanges \/ OtherRelease \/ OtherEdit
      BY <3>3 DEF ConsentChanges, Q!ConsentChanges, OtherRelease, OtherEdit, queueVars
    <3>4. CASE \E p \in Publications : UploadLands(p)
      BY <3>4 DEF UploadLands, queueVars
    <3>5. CASE UNCHANGED vars
      BY <3>5 DEF vars
    <3> QED
      BY <1>4, <3>1, <3>2, <3>3, <3>4, <3>5
  <2> QED
    BY <2>4, <2>5, ClaimIsNotTaken
<1>5. CASE \E r \in Requests : FailByHand(r)
  BY <1>5 DEF FailByHand
<1>6. CASE Stop
  <2>1. proc'.pc = "idle"
    BY <1>6 DEF Stop, NoProc
  <2> QED
    BY <2>1, AdoptingIsAt DEF ClaimStands
<1>7. CASE Command
  BY <1>1, <1>2, <1>3, <1>7, OthersAreNotAdopting, AdoptingIsAt DEF ClaimStands
<1> QED
  BY <1>4, <1>5, <1>6, <1>7 DEF Next, Environment

----------------------------------------------------------------------------
(* The mapping.                                                            *)

\* The cohort that is held, as the mapping names it.
Frozen == IF Holding = {} THEN None
          ELSE row[CHOOSE p \in Holding : TRUE].included

\* At most one publication holds a cohort, so which one is chosen is clear.
LEMMA FrozenByHolding ==
  PipelineInv =>
    /\ \A p \in Holding : Frozen = row[p].included
    /\ Holding = {} => Frozen = None
<1> SUFFICES ASSUME PipelineInv, NEW p \in Holding
             PROVE  Frozen = row[p].included
  BY DEF Frozen
<1> DEFINE c == CHOOSE q \in Holding : TRUE
<1>1. c \in Holding
  OBVIOUS
<1>2. \A q, r \in Holding : q = r
  BY QueueFacts DEF Holding
<1>3. c = p
  BY <1>1, <1>2
<1>4. Frozen = row[c].included
  BY <1>1 DEF Frozen
<1> QED
  BY <1>3, <1>4

\* The same of the next state.
LEMMA FrozenByHoldingNext ==
  (PipelineInv =>
     /\ \A p \in Holding : Frozen = row[p].included
     /\ Holding = {} => Frozen = None)'
  BY FrozenByHolding, PTL

\* The cohort that is held stays.
LEMMA FrozenKept ==
  ASSUME PipelineInv, PipelineInv', Holding' = Holding,
         \A p \in Holding : row'[p].included = row[p].included
  PROVE  Frozen' = Frozen
<1>1. CASE Holding = {}
  BY <1>1, FrozenByHolding, FrozenByHoldingNext
<1>2. ASSUME NEW p \in Holding
      PROVE  Frozen' = Frozen
  <2>1. Frozen = row[p].included /\ Frozen' = row'[p].included
    BY FrozenByHolding, FrozenByHoldingNext
  <2> QED
    BY <2>1
<1> QED
  BY <1>1, <1>2

\* A correction is where it was, as long as the source, its tombstones and the
\* site hold what they held and no request comes up.
LEMMA PhaseKept ==
  ASSUME NEW d \in Deviations,
         d \in site'.content <=> d \in site.content, d \in tip' <=> d \in tip,
         receipts'[d] = receipts[d],
         row'[d].state = "absent" <=> row[d].state = "absent"
  PROVE  TruePhase(d)' = TruePhase(d)
  BY DEF TruePhase, Src!HasReceipt

\* A step that changes none of it, and no publication on its way, is none of the
\* life cycle.
LEMMA NothingMoves ==
  ASSUME PipelineInv, PipelineInv', Holding' = Holding,
         \A p \in Holding : row'[p].included = row[p].included,
         \A d \in Deviations : TruePhase(d)' = TruePhase(d)
  PROVE  UNCHANGED Lifecycle!vars
<1>1. Frozen' = Frozen
  BY FrozenKept
<1> QED
  BY <1>1 DEF Lifecycle!vars, Frozen

\* One correction moves from one phase to another.
LEMMA OneMoves ==
  ASSUME PipelineInv, PipelineInv', Holding' = Holding,
         \A p \in Holding : row'[p].included = row[p].included,
         NEW d \in Deviations, NEW from, NEW to,
         TruePhase(d) = from, TruePhase(d)' = to,
         \A c \in Deviations : c # d => TruePhase(c)' = TruePhase(c)
  PROVE  Lifecycle!Move(d, from, to)
<1>1. Frozen' = Frozen
  BY FrozenKept
<1>2. [c \in Deviations |-> TruePhase(c)'] =
        [[c \in Deviations |-> TruePhase(c)] EXCEPT ![d] = to]
  OBVIOUS
<1> QED
  BY <1>1, <1>2 DEF Lifecycle!Move, Frozen

----------------------------------------------------------------------------
(* The calls of the queue.                                                 *)

\* A call that neither makes a request nor gives a publication up is none of
\* the life cycle: what it may confirm is in production already.
LEMMA QuietCall ==
  ASSUME PipelineInv, PipelineInv', CallsQueue, UNCHANGED <<sourceVars, site>>,
         \A r \in Requests : row[r].state = "absent" => row'[r].state = "absent",
         \A p \in Publications : row'[p].state = "rejected" => row[p].state = "rejected"
  PROVE  UNCHANGED Lifecycle!vars
<1>1. QP!RequestKept /\ QP!FinalKept
  BY QueueGoesOn DEF PipelineInv, StoresOK, CallsQueue
<1>2. \A r \in Requests :
        /\ row[r].state = "absent" <=> row'[r].state = "absent"
        /\ row[r].state # "absent" => row'[r].included = row[r].included
        /\ row[r].state \in {"publication_confirmed", "rejected"} =>
             row'[r].state = row[r].state
  BY <1>1, SameQueue DEF QP!RequestKept, QP!SameRequest, QP!FinalKept
<1>3. \A p \in Publications : row'[p].state = "publication_confirmed" => p \in site.landed
  BY DEF PipelineInv, StoresOK, SiteOK
<1>4. ASSUME NEW p \in Publications
      PROVE  p \in Holding' <=> p \in Holding
  <2>1. p \in Requests
    BY DEF Requests
  <2> QED
    BY <1>2, <1>3, <2>1, QueueFacts, QueueFactsNext DEF Holding
<1>5. Holding' = Holding
  BY <1>4 DEF Holding
<1>6. \A p \in Holding : row'[p].included = row[p].included
  BY <1>2, QueueFacts DEF Holding, Requests
<1>7. ASSUME NEW d \in Deviations
      PROVE  TruePhase(d)' = TruePhase(d)
  <2>1. row[d].state = "absent" <=> row'[d].state = "absent"
    BY <1>2 DEF Requests
  <2> QED
    BY <2>1, PhaseKept DEF sourceVars
<1> QED
  BY <1>5, <1>6, <1>7, NothingMoves

\* Claims, renewals and the clock are quiet, and so is a change of consent.
LEMMA LeaseCallsAreQuiet ==
  ASSUME PipelineInv, PipelineInv', CallsQueue, UNCHANGED <<sourceVars, site>>,
         \/ \E r \in Requests : QP!LeaseCall(r) \/ QP!LeaseExpires(r)
         \/ UNCHANGED row
  PROVE  UNCHANGED Lifecycle!vars
<1>0. /\ QP!QueueInv /\ QP!QueueTypeOK /\ QP!QueueAssumption
      /\ QP!Requests = Requests /\ Publications \subseteq Requests
  BY QueueConstants, SameQueue DEF PipelineInv, StoresOK, QueueOK, QP!QueueInv, Requests
<1>1. CASE UNCHANGED row
  BY <1>1, QuietCall
<1>2. ASSUME NEW r \in Requests, QP!LeaseCall(r) \/ QP!LeaseExpires(r)
      PROVE  UNCHANGED Lifecycle!vars
  <2>1. QP!NothingEnds
    BY <1>0, <1>2, QP!LeaseStepsKeepRecords
  <2>2. QP!OnlyRow(r) /\ row[r].state # "absent"
    <3>1. ASSUME NEW rev, NEW src \in Contents, QP!Claim(r, rev, src)
          PROVE  QP!OnlyRow(r) /\ row[r].state # "absent"
      <4>1. QP!OnlyRow(r)
        BY <1>0, <3>1, QP!ClaimEffect
      <4> QED
        BY <3>1, <4>1 DEF QP!Claim
    <3>2. ASSUME NEW tok, NEW rev, QP!Renew(r, tok, rev)
          PROVE  QP!OnlyRow(r) /\ row[r].state # "absent"
      <4>1. QP!OnlyRow(r)
        BY <1>0, <3>2, QP!RenewEffect
      <4> QED
        BY <3>2, <4>1 DEF QP!Renew
    <3>3. ASSUME NEW tok, NEW code \in QP!FailureCodes, QP!Fail(r, tok, code)
          PROVE  QP!OnlyRow(r) /\ row[r].state # "absent"
      <4>1. QP!OnlyRow(r)
        BY <1>0, <3>3, QP!FailEffect
      <4> QED
        BY <3>3, <4>1 DEF QP!Fail, QP!Failable
    <3>4. ASSUME QP!LeaseExpires(r)
          PROVE  QP!OnlyRow(r) /\ row[r].state # "absent"
      <4>1. QP!OnlyRow(r)
        BY <1>0, <3>4, QP!LapseEffect
      <4>2. row[r].live
        BY <3>4 DEF QP!LeaseExpires
      <4>3. row[r].state = "absent" => ~ row[r].live
        BY <1>0 DEF PipelineInv, StoresOK, QueueOK, QP!RowsSound, QP!NoRow
      <4> QED
        BY <4>1, <4>2, <4>3
    <3> QED
      BY <1>2, <3>1, <3>2, <3>3, <3>4 DEF QP!LeaseCall
  <2>3. \A q \in Requests : row[q].state = "absent" => row'[q].state = "absent"
    BY <1>0, <2>2 DEF QP!OnlyRow
  <2>4. \A p \in Publications : row'[p].state = "rejected" => row[p].state = "rejected"
    BY <1>0, <2>1, SameQueue DEF QP!NothingEnds
  <2> QED
    BY <2>3, <2>4, QuietCall
<1> QED
  BY <1>1, <1>2

\* So are the ACKs: the life cycle has seen what they report when it happened.
LEMMA AcksAreQuiet ==
  ASSUME PipelineInv, PipelineInv', CallsQueue, UNCHANGED <<sourceVars, site>>,
         QP!AckCall
  PROVE  UNCHANGED Lifecycle!vars
<1>0. /\ QP!QueueInv /\ QP!QueueTypeOK /\ QP!QueueAssumption /\ QP!RowsSound
      /\ QP!Requests = Requests /\ Publications \subseteq Requests
      /\ Deviations \subseteq Requests
  BY QueueConstants, SameQueue DEF PipelineInv, StoresOK, QueueOK, QP!QueueInv, Requests
<1>1. ASSUME NEW d \in Deviations, NEW tok, NEW src \in Contents,
             QP!AckAdopted(d, tok, src)
      PROVE  UNCHANGED Lifecycle!vars
  <2>1. QP!OnlyRow(d) /\ row'[d].state = "adopted"
    BY <1>0, <1>1, QP!AckAdoptedEffect
  <2>2. row[d].state = "claimed"
    BY <1>1 DEF QP!AckAdopted
  <2>3. \A q \in Requests : row[q].state = "absent" => row'[q].state = "absent"
    BY <1>0, <2>1, <2>2 DEF QP!OnlyRow
  <2>4. \A p \in Publications : row'[p].state = "rejected" => row[p].state = "rejected"
    BY <1>0, <2>1, QueueFacts DEF QP!OnlyRow
  <2> QED
    BY <2>3, <2>4, QuietCall
<1>2. ASSUME NEW p \in Publications, NEW stage \in {"generated", "publication_confirmed"},
             row[p].state \in {"claimed", "generated"}, row'[p].state = stage,
             \A r \in Requests : r # p /\ r \notin row[p].included => row'[r] = row[r]
      PROVE  UNCHANGED Lifecycle!vars
  <2>1. \A d \in row[p].included : d \in Deviations /\ row[d].state # "absent"
    BY <1>0, <1>2, QueueFacts DEF QP!QueueInv, QP!MembersExist, QP!Active
  <2>2. \A q \in Requests : row[q].state = "absent" => row'[q].state = "absent"
    BY <1>2, <2>1
  <2>3. \A q \in Publications : row'[q].state = "rejected" => row[q].state = "rejected"
    BY <1>0, <1>2, <2>1, QueueFacts
  <2> QED
    BY <2>2, <2>3, QuietCall
<1>3. ASSUME NEW p \in Publications, NEW tok, NEW src \in Contents,
             NEW pins \in Candidates, NEW recs \in SUBSET Deviations,
             QP!AckGenerated(p, tok, src, pins, recs)
      PROVE  UNCHANGED Lifecycle!vars
  <2>1. /\ row'[p].state = "generated"
        /\ \A r \in Requests : r # p /\ r \notin row[p].included => row'[r] = row[r]
    BY <1>0, <1>3, QP!AckGeneratedEffect
  <2>2. row[p].state = "claimed"
    BY <1>3 DEF QP!AckGenerated
  <2> QED
    BY <1>2, <2>1, <2>2
<1>4. ASSUME NEW p \in Publications, NEW tok, NEW src, NEW pins, NEW recs,
             NEW ev \in Evidence, QP!AckConfirmed(p, tok, src, pins, recs, ev)
      PROVE  UNCHANGED Lifecycle!vars
  <2>1. /\ row'[p].state = "publication_confirmed"
        /\ \A r \in Requests : r # p /\ r \notin row[p].included => row'[r] = row[r]
    BY <1>0, <1>4, QP!AckConfirmedEffect
  <2>2. row[p].state = "generated"
    BY <1>4 DEF QP!AckConfirmed
  <2> QED
    BY <1>2, <2>1, <2>2
<1> QED
  BY <1>1, <1>3, <1>4 DEF QP!AckCall

\* The queue's own decision on a correction is quiet as well: its tombstone is
\* in the source before.
LEMMA RejectDeviationIsQuiet ==
  ASSUME PipelineInv, PipelineInv', CallsQueue, UNCHANGED <<sourceVars, site>>,
         NEW d \in Deviations, NEW rev, QP!RejectDeviation(d, rev)
  PROVE  UNCHANGED Lifecycle!vars
<1>0. /\ QP!QueueTypeOK /\ QP!QueueAssumption
      /\ QP!Requests = Requests /\ Publications \subseteq Requests
  BY QueueConstants, SameQueue DEF PipelineInv, StoresOK, QueueOK, QP!QueueInv, Requests
<1>1. QP!OnlyRow(d)
  BY <1>0, QP!RejectDeviationEffect
<1>2. row[d].state # "absent"
  BY DEF QP!RejectDeviation, QP!RejectGuard
<1>3. \A q \in Requests : row[q].state = "absent" => row'[q].state = "absent"
  BY <1>0, <1>1, <1>2 DEF QP!OnlyRow
<1>4. \A p \in Publications : row'[p].state = "rejected" => row[p].state = "rejected"
  BY <1>0, <1>1, QueueFacts DEF QP!OnlyRow
<1> QED
  BY <1>3, <1>4, QuietCall

\* A request for a correction submits it.
LEMMA RequestDeviationSubmits ==
  ASSUME PipelineInv, PipelineInv', UNCHANGED <<sourceVars, site>>,
         NEW d \in Deviations, NEW g \in Contents, QP!RequestDeviation(d, g)
  PROVE  Lifecycle!Submit(d)
<1>0. /\ QP!QueueTypeOK /\ QP!QueueAssumption /\ d \in Requests
      /\ QP!Requests = Requests /\ Publications \subseteq Requests
  BY QueueConstants, SameQueue DEF PipelineInv, StoresOK, QueueOK, QP!QueueInv, Requests
<1>1. QP!OnlyRow(d) /\ row[d].state = "absent" /\ row'[d] = QP!Received(g, {})
  BY <1>0, QP!RequestDeviationEffect
<1>2. row'[d].state = "received"
  BY <1>1 DEF QP!Received, QP!NoRow
<1>3. \A q \in Requests : q # d => row'[q] = row[q]
  BY <1>0, <1>1 DEF QP!OnlyRow
<1>4. \A p \in Publications : row'[p] = row[p]
  BY <1>0, <1>3, QueueFacts
<1>5. Holding' = Holding
  BY <1>4, QueueFacts, QueueFactsNext DEF Holding
<1>6. d \notin tip /\ receipts[d] = None
  <2>1. receipts[d] = None
    BY <1>1 DEF PipelineInv, StoresOK, SourceOK
  <2> QED
    BY <2>1 DEF PipelineInv, StoresOK, SourceOK, Src!HasReceipt
<1>7. d \notin site.content
  BY <1>6, LandedIsPinned
<1>8. TruePhase(d) = "none"
  BY <1>1, <1>6, <1>7 DEF TruePhase, Src!HasReceipt
<1>9. TruePhase(d)' = "pending"
  BY <1>2, <1>6, <1>7 DEF TruePhase, Src!HasReceipt, sourceVars
<1>10. \A c \in Deviations : c # d => TruePhase(c)' = TruePhase(c)
  <2> SUFFICES ASSUME NEW c \in Deviations, c # d
               PROVE  TruePhase(c)' = TruePhase(c)
    OBVIOUS
  <2>1. row'[c] = row[c]
    BY <1>3 DEF Requests
  <2> QED
    BY <2>1, PhaseKept DEF sourceVars
<1> QED
  BY <1>4, <1>5, <1>8, <1>9, <1>10, OneMoves DEF Lifecycle!Submit, Holding

\* A new publication freezes the open corrections: none was held before, and
\* none of them is public, because what is public stays bound to the publication
\* it came with.
LEMMA RequestPublicationFreezes ==
  ASSUME PipelineInv, PipelineInv', SiteHistory, UNCHANGED <<sourceVars, site>>,
         NEW p \in Publications, NEW g \in Contents, QP!RequestPublication(p, g)
  PROVE  Lifecycle!Freeze(QP!OpenCohort)
<1>0. /\ QP!QueueTypeOK /\ QP!QueueAssumption /\ p \in Requests
      /\ QP!Requests = Requests /\ Publications \subseteq Requests
  BY QueueConstants, SameQueue DEF PipelineInv, StoresOK, QueueOK, QP!QueueInv, Requests
<1>1. /\ row[p].state = "absent"
      /\ \A q \in Publications : ~ Q!Pending(q)
  BY SameQueue DEF QP!RequestPublication
<1>2. /\ row'[p] = QP!Received(g, QP!OpenCohort)
      /\ \A r \in Requests : r # p /\ r \notin QP!OpenCohort => row'[r] = row[r]
      /\ \A d \in QP!OpenCohort : row'[d].state = row[d].state
  BY <1>0, QP!RequestPublicationEffect
<1>3. row'[p].state = "received" /\ row'[p].included = QP!OpenCohort
  BY <1>2 DEF QP!Received, QP!NoRow
<1>4. \A d \in QP!OpenCohort :
        /\ d \in Deviations /\ row[d].pubId = None
        /\ row[d].state # "absent" /\ row[d].state # "rejected"
  BY DEF QP!OpenCohort
<1>5. Frozen = None
  <2>1. Holding = {}
    BY <1>1 DEF Holding
  <2> QED
    BY <2>1, FrozenByHolding
<1>6. Frozen' = QP!OpenCohort
  <2>1. p \notin site.landed
    BY <1>0, <1>1, LandedIsPinned
  <2>2. Q!Pending(p)'
    BY <1>3, QueueFactsNext
  <2>3. p \in Holding'
    BY <2>1, <2>2 DEF Holding
  <2> QED
    BY <1>3, <2>3, FrozenByHoldingNext
<1>7. ASSUME NEW d \in Deviations
      PROVE  TruePhase(d)' = TruePhase(d)
  <2>1. row'[d].state = row[d].state
    BY <1>2, QueueFacts DEF Requests
  <2> QED
    BY <2>1, PhaseKept DEF sourceVars
<1>8. ASSUME NEW d \in QP!OpenCohort
      PROVE  d \in Deviations /\ TruePhase(d) \notin {"none", "public"}
  <2>1. d \notin site.content
    <3> SUFFICES ASSUME d \in site.content
                 PROVE  FALSE
      OBVIOUS
    <3>1. PICK q \in site.landed : d \in row[q].included
      BY <1>4 DEF SiteHistory
    <3>2. row[d].pubId = q /\ q \in Publications
      BY <3>1, LandedIsPinned, QueueFacts
    <3> QED
      BY <1>4, <3>2, QueueFacts DEF Requests
  <2> QED
    BY <1>4, <2>1 DEF TruePhase
<1> QED
  BY <1>5, <1>6, <1>7, <1>8 DEF Lifecycle!Freeze, Frozen

\* The rejection of a publication thaws its cohort.  Nothing of it was pinned, so
\* nothing of it is on its way.
LEMMA RejectPublicationReleases ==
  ASSUME PipelineInv, PipelineInv', UNCHANGED <<sourceVars, site>>,
         NEW p \in Publications, NEW rev, QP!RejectPublication(p, rev)
  PROVE  Lifecycle!Release
<1>0. /\ QP!QueueTypeOK /\ QP!QueueAssumption /\ p \in Requests
      /\ QP!Requests = Requests /\ Publications \subseteq Requests
  BY QueueConstants, SameQueue DEF PipelineInv, StoresOK, QueueOK, QP!QueueInv, Requests
<1>1. /\ row[p].state \notin {"absent", "publication_confirmed", "rejected"}
      /\ row[p].pins = None
  BY SameQueue DEF QP!RejectPublication, QP!RejectGuard
<1>2. /\ row'[p].state = "rejected"
      /\ \A r \in Requests : r # p /\ r \notin row[p].included => row'[r] = row[r]
      /\ \A d \in row[p].included : row'[d].state = row[d].state
  BY <1>0, QP!RejectPublicationEffect
<1>3. p \in Holding
  BY <1>1, QueueFacts, LandedIsPinned DEF Holding
<1>4. Frozen # None
  <2>1. Frozen = row[p].included /\ row[p].included \subseteq Deviations
    BY <1>3, FrozenByHolding, QueueFacts
  <2> QED
    BY <1>0, <2>1 DEF QP!QueueAssumption
<1>5. Frozen' = None
  <2>1. ASSUME NEW q \in Publications, Q!Pending(q)'
        PROVE  FALSE
    <3>1. q # p
      BY <1>2, <2>1, QueueFactsNext
    <3>2. row'[q] = row[q]
      BY <1>0, <1>2, <3>1, QueueFacts
    <3> QED
      BY <1>3, <2>1, <3>1, <3>2, QueueFacts, QueueFactsNext DEF Holding
  <2>2. Holding' = {}
    BY <2>1 DEF Holding
  <2> QED
    BY <2>2, FrozenByHoldingNext
<1>6. ASSUME NEW d \in Deviations
      PROVE  TruePhase(d)' = TruePhase(d)
  <2>1. row'[d].state = row[d].state
    BY <1>2, QueueFacts DEF Requests
  <2> QED
    BY <2>1, PhaseKept DEF sourceVars
<1> QED
  BY <1>4, <1>5, <1>6 DEF Lifecycle!Release, Frozen

\* Every step that leaves the source and the site alone is a step of the life
\* cycle, or none.
LEMMA CallsAreLifecycle ==
  ASSUME PipelineInv, PipelineInv', SiteHistory, CallsQueue,
         UNCHANGED <<sourceVars, site>>
  PROVE  [Lifecycle!Next]_Lifecycle!vars
<1>1. CASE QP!AdminCall
  <2>1. \A d \in Deviations, g \in Contents : QP!RequestDeviation(d, g) =>
          Lifecycle!Submit(d)
    BY RequestDeviationSubmits
  <2>2. \A p \in Publications, g \in Contents : QP!RequestPublication(p, g) =>
          Lifecycle!Freeze(QP!OpenCohort)
    BY RequestPublicationFreezes
  <2>3. QP!OpenCohort \in SUBSET Deviations
    BY DEF QP!OpenCohort
  <2> QED
    BY <1>1, <2>1, <2>2, <2>3 DEF QP!AdminCall, Lifecycle!Next
<1>2. CASE \E r \in Requests : QP!LeaseCall(r) \/ QP!LeaseExpires(r)
  BY <1>2, LeaseCallsAreQuiet
<1>3. CASE QP!AckCall
  BY <1>3, AcksAreQuiet
<1>4. CASE QP!RejectCall
  BY <1>4, RejectDeviationIsQuiet, RejectPublicationReleases
     DEF QP!RejectCall, Lifecycle!Next
<1>5. CASE (\E d \in Deviations : QP!ConsentChanges(d)) \/ UNCHANGED QP!queueVars
  <2>1. UNCHANGED row
    BY <1>5 DEF QP!ConsentChanges, QP!queueVars
  <2> QED
    BY <2>1, LeaseCallsAreQuiet
<1> QED
  BY <1>1, <1>2, <1>3, <1>4, <1>5, SameQueue DEF CallsQueue, QP!QueueNext

----------------------------------------------------------------------------
(* The source and the site.                                                *)

\* A correction that is in the source twice is in it once.
LEMMA WorkersAgainIsQuiet ==
  ASSUME PipelineInv, PipelineInv', UNCHANGED <<queueVars, site>>,
         tip' \cap Deviations = tip \cap Deviations, receipts' = receipts
  PROVE  UNCHANGED Lifecycle!vars
<1>1. row' = row /\ site' = site
  BY DEF queueVars
<1>2. Holding' = Holding
  BY <1>1, QueueFacts, QueueFactsNext DEF Holding
<1>3. \A d \in Deviations : TruePhase(d)' = TruePhase(d)
  BY <1>1, PhaseKept
<1> QED
  BY <1>1, <1>2, <1>3, NothingMoves

\* What is uploading, and which release is shown, plays no part in it.
LEMMA SiteStepIsQuiet ==
  ASSUME PipelineInv, PipelineInv', UNCHANGED <<queueVars, sourceVars>>,
         site'.content = site.content, site'.landed = site.landed
  PROVE  UNCHANGED Lifecycle!vars
<1>1. row' = row /\ tip' = tip /\ receipts' = receipts
  BY DEF queueVars, sourceVars
<1>2. Holding' = Holding
  BY <1>1, QueueFacts, QueueFactsNext DEF Holding
<1>3. \A d \in Deviations : TruePhase(d)' = TruePhase(d)
  BY <1>1, PhaseKept
<1> QED
  BY <1>1, <1>2, <1>3, NothingMoves

\* The local commit adopts.  Its claim still holds, so while a cohort is held
\* the correction is one of its members.
LEMMA ApplyAdopts ==
  ASSUME PipelineInv, PipelineInv', ClaimStands, Apply, receipts[Req] = None
  PROVE  Lifecycle!Adopt(Req)
<1>1. /\ UNCHANGED <<queueVars, job, runner, site>> /\ proc.pc = "apply"
      /\ proc.q.state = "claimed" /\ Aim = "apply" /\ Req \in Deviations
  BY DEF Apply, At, Aim, PipelineInv, RunOK, CommandOK, CorrectionSteps
<1>2. /\ tip' = tip \cup {Req}
      /\ \A d \in Deviations : d # Req => receipts'[d] = receipts[d]
  <2>1. ~ Src!HasReceipt(Req, "adopted")
    BY DEF Src!HasReceipt
  <2>2. /\ tip' = tip \cup {Req}
        /\ receipts' = [receipts EXCEPT ![Req] = [outcome |-> "adopted", base |-> tip,
                                                  target |-> tip \cup {Req}]]
    BY <2>1 DEF Apply, Src!WorkerAdopt
  <2>3. receipts \in [Deviations -> {None} \cup Src!Receipt]
    BY DEF PipelineInv, PipelineTypeOK, Src!SourceTypeOK
  <2> QED
    BY <2>2, <2>3
<1>3. row' = row /\ site' = site /\ row[Req].state = "claimed"
  BY <1>1 DEF queueVars, ClaimStands, Adopting
<1>4. Holding' = Holding
  BY <1>3, QueueFacts, QueueFactsNext DEF Holding
<1>5. Req \notin tip
  BY <1>1 DEF PipelineInv, StoresOK, SourceOK, Src!HasReceipt
<1>6. Req \notin site.content
  BY <1>5, LandedIsPinned
<1>7. TruePhase(Req) = "pending"
  BY <1>3, <1>5, <1>6 DEF TruePhase, Src!HasReceipt
<1>8. \A d \in Deviations :
        TruePhase(d)' = IF d = Req THEN "adopted" ELSE TruePhase(d)
  <2> SUFFICES ASSUME NEW d \in Deviations
               PROVE  TruePhase(d)' = IF d = Req THEN "adopted" ELSE TruePhase(d)
    OBVIOUS
  <2>1. CASE d = Req
    BY <1>2, <1>3, <1>6, <2>1 DEF TruePhase
  <2>2. CASE d # Req
    BY <1>2, <1>3, <2>2, PhaseKept
  <2> QED
    BY <2>1, <2>2
<1>9. Frozen # None => Req \in Frozen
  <2>1. SUFFICES ASSUME NEW p \in Holding
                 PROVE  Req \in Frozen
    BY FrozenByHolding
  <2>2. Req \in row[p].included
    BY <1>1, <1>3, QueueFacts DEF Holding
  <2> QED
    BY <2>2, FrozenByHolding
<1>10. Frozen' = Frozen
  BY <1>3, <1>4, FrozenKept
<1>11. [c \in Deviations |-> TruePhase(c)'] =
         [[c \in Deviations |-> TruePhase(c)] EXCEPT ![Req] = "adopted"]
  BY <1>8
<1> QED
  BY <1>1, <1>7, <1>9, <1>10, <1>11 DEF Lifecycle!Adopt, Lifecycle!Move, Frozen

\* The tombstone cancels.
LEMMA CancelCancels ==
  ASSUME PipelineInv, PipelineInv', Cancel, receipts[Req] = None
  PROVE  Lifecycle!Cancel(Req)
<1>1. /\ UNCHANGED <<queueVars, job, runner, site>>
      /\ Req \in Deviations /\ row[Req].state # "absent"
  BY DEF Cancel, At, Aim, PipelineInv, RunOK, CommandOK, CorrectionSteps
<1>2. /\ tip' = tip
      /\ receipts'[Req] # None /\ receipts'[Req].outcome = "cancelled"
      /\ \A d \in Deviations : d # Req => receipts'[d] = receipts[d]
  <2> DEFINE x == [outcome |-> "cancelled", base |-> job[Req].intent, target |-> tip]
  <2>1. ~ Src!HasReceipt(Req, "cancelled")
    BY DEF Src!HasReceipt
  <2>2. tip' = tip /\ receipts' = [receipts EXCEPT ![Req] = x]
    BY <2>1 DEF Cancel, Src!WorkerCancel
  <2>3. receipts \in [Deviations -> {None} \cup Src!Receipt]
    BY DEF PipelineInv, PipelineTypeOK, Src!SourceTypeOK
  <2>4. receipts'[Req] = x /\ \A d \in Deviations : d # Req => receipts'[d] = receipts[d]
    BY <1>1, <2>2, <2>3
  <2>5. x # None
    <3>1. job[Req].intent # None /\ job[Req] \in Job /\ tip \in Contents
      BY <1>1 DEF Cancel, At, Aim, PipelineInv, PipelineTypeOK, RunOK,
         CorrectionRunOK, Requests, Src!SourceTypeOK, Contents
    <3>2. x \in Src!Receipt
      BY <3>1 DEF Job, Src!Receipt, Contents
    <3> QED
      BY <3>2, PipelineAssumption
  <2> QED
    BY <2>2, <2>4, <2>5
<1>3. row' = row /\ site' = site
  BY <1>1 DEF queueVars
<1>4. Holding' = Holding
  BY <1>3, QueueFacts, QueueFactsNext DEF Holding
<1>5. Req \notin tip
  BY <1>1 DEF PipelineInv, StoresOK, SourceOK, Src!HasReceipt
<1>6. Req \notin site.content
  BY <1>5, LandedIsPinned
<1>7. TruePhase(Req) = "pending"
  BY <1>1, <1>5, <1>6 DEF TruePhase, Src!HasReceipt
<1>8. \A d \in Deviations :
        TruePhase(d)' = IF d = Req THEN "cancelled" ELSE TruePhase(d)
  <2> SUFFICES ASSUME NEW d \in Deviations
               PROVE  TruePhase(d)' = IF d = Req THEN "cancelled" ELSE TruePhase(d)
    OBVIOUS
  <2>1. CASE d = Req
    BY <1>2, <1>3, <1>5, <1>6, <2>1 DEF TruePhase, Src!HasReceipt
  <2>2. CASE d # Req
    BY <1>2, <1>3, <2>2, PhaseKept
  <2> QED
    BY <2>1, <2>2
<1>9. Frozen' = Frozen
  BY <1>3, <1>4, FrozenKept
<1>10. [c \in Deviations |-> TruePhase(c)'] =
         [[c \in Deviations |-> TruePhase(c)] EXCEPT ![Req] = "cancelled"]
  BY <1>8
<1> QED
  BY <1>1, <1>7, <1>9, <1>10 DEF Lifecycle!Cancel, Lifecycle!Move, Frozen

\* The upload publishes: its candidate is what was public when it was made and
\* the cohort, so exactly the members become public, all of them adopted, and
\* none of them public before.
LEMMA UploadPublishes ==
  ASSUME PipelineInv, PipelineInv', SiteHistory, NEW p \in Publications,
         UploadLands(p)
  PROVE  Lifecycle!Publish
<1>1. /\ p \notin site.landed /\ site'.landed = site.landed \cup {p}
      /\ site'.content = row[p].expected \cup row[p].included
      /\ job[p].candidate # None /\ Q!Pending(p)
      /\ site'.content = job[p].candidate.source
  BY UploadLandsAsPinned
<1>2. row' = row /\ tip' = tip /\ receipts' = receipts
  BY DEF UploadLands, queueVars, sourceVars
<1>3. p \in Holding /\ Frozen = row[p].included
  BY <1>1, FrozenByHolding DEF Holding
<1>4. Frozen # None
  <2>1. row[p].included \subseteq Deviations /\ QP!QueueAssumption
    BY QueueFacts, QueueConstants
  <2> QED
    BY <1>3, <2>1 DEF QP!QueueAssumption
<1>5. Frozen' = None
  <2>1. Holding' = {}
    BY <1>1, <1>2, QueueFacts, QueueFactsNext DEF Holding
  <2> QED
    BY <2>1, FrozenByHoldingNext
<1>6. /\ site.content \subseteq site'.content
      /\ row[p].expected \subseteq site.content
  <2>1. row[p].expected \subseteq site.content
    BY <1>1 DEF SiteHistory
  <2>2. site.content \subseteq job[p].candidate.source
    BY <1>1 DEF PipelineInv, StoresOK, CandidatesOK
  <2> QED
    BY <1>1, <2>1, <2>2
<1>7. ASSUME NEW d \in row[p].included
      PROVE  /\ d \in Deviations
             /\ TruePhase(d) = "adopted" /\ TruePhase(d)' = "public"
  <2>1. d \in Deviations /\ row[d].pubId = p
    BY <1>1, QueueFacts
  <2>2. d \in tip
    BY <1>1 DEF PipelineInv, StoresOK, CandidatesOK
  <2>3. d \notin site.content
    <3> SUFFICES ASSUME d \in site.content
                 PROVE  FALSE
      OBVIOUS
    <3>1. PICK q \in site.landed : d \in row[q].included
      BY <2>1 DEF SiteHistory
    <3>2. row[d].pubId = q
      BY <3>1, LandedIsPinned, QueueFacts
    <3> QED
      BY <1>1, <2>1, <3>2
  <2>4. d \in site'.content
    BY <1>1
  <2> QED
    BY <2>1, <2>2, <2>3, <2>4 DEF TruePhase
<1>8. ASSUME NEW d \in Deviations, d \notin row[p].included
      PROVE  TruePhase(d)' = TruePhase(d)
  <2>1. d \in site'.content <=> d \in site.content
    BY <1>1, <1>6, <1>8
  <2> QED
    BY <1>2, <2>1, PhaseKept
<1>9. [d \in Deviations |-> TruePhase(d)'] =
        [c \in Deviations |-> IF c \in Frozen THEN "public" ELSE TruePhase(c)]
  BY <1>3, <1>7, <1>8
<1> QED
  BY <1>3, <1>4, <1>5, <1>7, <1>9 DEF Lifecycle!Publish, Frozen

----------------------------------------------------------------------------
(* The refinement.                                                         *)

\* Only the worker, a tool of others, the uploader and other releases touch the
\* source or the site.
LEMMA WhoTouchesTheWorld ==
  ASSUME [Next]_vars
  PROVE  \/ UNCHANGED <<sourceVars, site>>
         \/ Apply \/ Cancel \/ OtherEdit \/ Spawn \/ OtherRelease
         \/ \E p \in Publications : UploadLands(p)
<1>1. CASE \E r \in Requests : Run(r) \/ Reject(r)
  BY <1>1 DEF Run, Reject
<1>2. CASE \E d \in Deviations : OpenDeviation(d) \/ RejectDeviation(d)
  BY <1>2 DEF OpenDeviation, RejectDeviation
<1>3. CASE \E p \in Publications : OpenPublication(p) \/ RejectPublication(p)
  BY <1>3 DEF OpenPublication, RejectPublication
<1>4. CASE ClaimRead \/ ClaimCall \/ ClaimJournal \/ Reclaim \/ RenewLease
  BY <1>4 DEF ClaimRead, ClaimCall, ClaimJournal, Reclaim, RenewLease
<1>5. CASE WriteIntent \/ AckAdopted \/ RecordAdopted \/ Generate \/ AckGenerated
  BY <1>5 DEF WriteIntent, AckAdopted, RecordAdopted, Generate, AckGenerated
<1>6. CASE Preflight \/ DeployPreflight \/ Settle \/ Observe
  BY <1>6 DEF Preflight, DeployPreflight, Settle, Observe
<1>7. CASE AckConfirmed \/ RecordConfirmed \/ RejectReconciles \/ RejectIntent
  BY <1>7 DEF AckConfirmed, RecordConfirmed, RejectReconciles, RejectIntent
<1>8. CASE JournalEvidence \/ RejectCall \/ RecordRejected
  BY <1>8 DEF JournalEvidence, RejectCall, RecordRejected
<1>9. CASE Admin \/ ConsentChanges \/ Stop
  BY <1>9 DEF Admin, ConsentChanges, Stop
<1>10. CASE \E r \in Requests : LeaseExpires(r) \/ FailByHand(r)
  BY <1>10 DEF LeaseExpires, FailByHand
<1>11. CASE UNCHANGED vars
  BY <1>11 DEF vars, sourceVars
<1> QED
  BY <1>1, <1>2, <1>3, <1>4, <1>5, <1>6, <1>7, <1>8, <1>9, <1>10, <1>11
     DEF Next, Command, Environment

\* Every step of the pipeline is a step of the life cycle, or none.
LEMMA NextIsLifecycle ==
  ASSUME PipelineInv, SiteHistory, ClaimStands, ~ ManualFail, [Next]_vars
  PROVE  [Lifecycle!Next]_Lifecycle!vars
<1>0. PipelineInv' /\ CallsQueue
  BY NextKeepsPipelineInv
<1>1. CASE UNCHANGED <<sourceVars, site>>
  BY <1>0, <1>1, CallsAreLifecycle
<1>2. CASE Apply
  <2>1. CASE receipts[Req] = None
    <3>1. Lifecycle!Adopt(Req) /\ Req \in Deviations
      BY <1>0, <1>2, <2>1, ApplyAdopts DEF Apply, At, Aim, PipelineInv, RunOK,
         CommandOK, CorrectionSteps
    <3> QED
      BY <3>1 DEF Lifecycle!Next
  <2>2. CASE receipts[Req] # None
    <3>1. UNCHANGED <<queueVars, site>> /\ tip' = tip /\ receipts' = receipts
      BY <1>2, <2>2 DEF Apply, Src!WorkerAdopt
    <3> QED
      BY <1>0, <3>1, WorkersAgainIsQuiet
  <2> QED
    BY <2>1, <2>2
<1>3. CASE Cancel
  <2>1. CASE receipts[Req] = None
    <3>1. Lifecycle!Cancel(Req) /\ Req \in Deviations
      BY <1>0, <1>3, <2>1, CancelCancels DEF Cancel, At, Aim, PipelineInv, RunOK,
         CommandOK, CorrectionSteps
    <3> QED
      BY <3>1 DEF Lifecycle!Next
  <2>2. CASE receipts[Req] # None
    <3>1. UNCHANGED <<queueVars, site>> /\ tip' = tip /\ receipts' = receipts
      BY <1>3, <2>2 DEF Cancel, Src!WorkerCancel
    <3> QED
      BY <1>0, <3>1, WorkersAgainIsQuiet
  <2> QED
    BY <2>1, <2>2
<1>4. CASE OtherEdit
  <2>1. PICK e \in Edits : Src!OtherEdit(e)
    BY <1>4 DEF OtherEdit
  <2>2. /\ tip' = tip \cup {e} /\ receipts' = receipts
        /\ UNCHANGED <<queueVars, site>>
    BY <1>4, <2>1 DEF OtherEdit, Src!OtherEdit
  <2>3. e \notin Deviations
    BY PipelineAssumption
  <2> QED
    BY <1>0, <2>2, <2>3, WorkersAgainIsQuiet
<1>5. CASE Spawn
  <2>1. /\ UNCHANGED <<queueVars, sourceVars>>
        /\ site'.content = site.content /\ site'.landed = site.landed
    BY <1>5 DEF Spawn, PipelineInv, PipelineTypeOK, Site
  <2> QED
    BY <1>0, <2>1, SiteStepIsQuiet
<1>6. CASE OtherRelease
  <2>1. /\ UNCHANGED <<queueVars, sourceVars>>
        /\ site'.content = site.content /\ site'.landed = site.landed
    BY <1>6 DEF OtherRelease, PipelineInv, PipelineTypeOK, Site
  <2> QED
    BY <1>0, <2>1, SiteStepIsQuiet
<1>7. CASE \E p \in Publications : UploadLands(p)
  BY <1>0, <1>7, UploadPublishes DEF Lifecycle!Next
<1>8. \/ UNCHANGED <<sourceVars, site>>
      \/ Apply \/ Cancel \/ OtherEdit \/ Spawn \/ OtherRelease
      \/ \E p \in Publications : UploadLands(p)
  BY WhoTouchesTheWorld
<1> QED
  BY <1>1, <1>2, <1>3, <1>4, <1>5, <1>6, <1>7, <1>8

\* The site shows no more than publications brought to it: every correction that
\* is public is a member of a cohort whose upload reached production, and the
\* anchor the next candidate is built on is public already (publish 805-882,
\* runner 283-306).
THEOREM SiteShowsOnlyCohorts == Spec => []SiteHistory
<1>1. Init => SiteHistory
  <2> SUFFICES ASSUME Init
               PROVE  SiteHistory
    OBVIOUS
  <2>1. /\ site.content = {} /\ site.landed = {} /\ runner.anchor = {}
        /\ \A r \in Requests : job[r].candidate = None
    BY DEF Init, NoJob
  <2> QED
    BY <2>1 DEF SiteHistory, Requests
<1>2. PipelineInv /\ SiteHistory /\ [Next]_vars => SiteHistory'
  BY SiteHistoryGoesOn
<1> QED
  BY <1>1, <1>2, PipelineIsInvariant, PTL DEF Spec

\* If the owner reports no failure by hand, the change in SQLite, the tombstones
\* and the public site follow the life cycle, wherever commands stop and
\* whenever an upload lands (controller 242-489, worker 158-219, publish
\* 805-882).
THEOREM PipelineFollowsLifecycle ==
  ~ ManualFail => (Spec => PipelineImplementsLifecycle)
<1> SUFFICES ASSUME ~ ManualFail
             PROVE  Spec => PipelineImplementsLifecycle
  OBVIOUS
<1>1. Init => ClaimStands /\ Lifecycle!Init
  <2> SUFFICES ASSUME Init
               PROVE  ClaimStands /\ Lifecycle!Init
    OBVIOUS
  <2>1. PipelineInv
    BY InitHasPipelineInv
  <2>2. /\ site.content = {} /\ proc.pc = "idle"
        /\ \A r \in Requests : row[r].state = "absent"
        /\ tip = {} /\ \A d \in Deviations : receipts[d] = None
    BY SameQueue DEF Init, Q!QueueInit, Q!NoRow, Q!Requests, Requests, NoProc,
       Src!SourceInit
  <2>3. ClaimStands
    BY <2>2 DEF ClaimStands, Adopting, Aim
  <2>4. \A d \in Deviations : TruePhase(d) = "none"
    BY <2>2 DEF TruePhase, Src!HasReceipt, Requests
  <2>5. Frozen = None
    BY <2>1, <2>2, QueueFacts, FrozenByHolding DEF Holding, Requests
  <2> QED
    BY <2>3, <2>4, <2>5 DEF Lifecycle!Init, Frozen
<1>2. PipelineInv /\ SiteHistory /\ ClaimStands /\ [Next]_vars =>
        ClaimStands' /\ [Lifecycle!Next]_Lifecycle!vars
  BY ClaimStandsGoesOn, NextIsLifecycle
<1> QED
  BY <1>1, <1>2, PipelineIsInvariant, SiteShowsOnlyCohorts, PTL
     DEF Spec, PipelineImplementsLifecycle, Lifecycle!Spec
==============================================================================
