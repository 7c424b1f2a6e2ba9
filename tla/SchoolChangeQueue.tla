------------------------- MODULE SchoolChangeQueue -------------------------
(***************************************************************************)
(* The durable queue of school change requests that lives in Postgres:     *)
(* web/supabase/migrations/202609280102_school_change_queue.sql.           *)
(*                                                                         *)
(* A deviation request asks the owner of the local SQLite source to change *)
(* one official value; a publish request asks for everything requested so  *)
(* far (its cohort) to be generated, deployed and observed.  Every RPC of  *)
(* the migration is one operator here: its guard is the conjunction of the *)
(* conditions under which the RPC does not RAISE, and its effect is the    *)
(* whole transaction.  Each runs under one advisory lock (all but          *)
(* fail_school_change, whose single row update is atomic by itself), so an *)
(* RPC is one step.                                                        *)
(*                                                                         *)
(* Abstractions.  A lease token is the revision at which its claim was     *)
(* granted: revisions only grow, so it is as fresh as gen_random_uuid().   *)
(* The clock appears only as the step that makes a lease expire.  The      *)
(* consent fingerprint appears as whether the aggregate of the submissions *)
(* a request was derived from still equals the one it recorded.  The three *)
(* generation pins of a publish request (snapshot, manifest, code) are one *)
(* value, and a set of application receipts is the set of the requests it  *)
(* covers.  Retries of a request RPC with an id already stored change      *)
(* nothing and are left out.                                               *)
(***************************************************************************)
EXTENDS Naturals, FiniteSets

CONSTANTS
  Deviations,      \* ids of correction requests
  Publications,    \* ids of publication requests
  Derived,         \* corrections that record a submission fingerprint
  Sources,         \* content hashes of the local SQLite source
  Generations,     \* hashes of published generator payloads
  Pins,            \* snapshot, manifest and code hashes of a candidate
  Evidence,        \* observed publication evidence
  MaxCohort,       \* most requests a publication may include (100)
  MaxRevision,     \* bound of the model, by request: no claim past it
  None             \* SQL NULL

Requests == Deviations \cup Publications

\* Failure codes, by what a later claim does with them: it clears
\* generation_failed, publication_failed and executor_stopped, and refuses
\* source_conflict and consent_changed.
FailureCodes == {"retryable", "final"}

ASSUME QueueAssumption ==
  /\ Deviations \cap Publications = {}
  /\ Derived \subseteq Deviations
  /\ IsFiniteSet(Deviations)
  /\ MaxCohort \in Nat
  /\ MaxRevision \in [Requests -> Nat]
  /\ None \notin Requests \cup Pins \cup Evidence \cup FailureCodes
  /\ \A x \in Sources : x # None
  /\ \A x \in Generations : x # None
  /\ \A x \in SUBSET Deviations : x # None

VARIABLES
  row,       \* public.school_change_requests, by id
  consent    \* does the current aggregate still equal the recorded one?

queueVars == <<row, consent>>

----------------------------------------------------------------------------
(* The row of a request.                                                   *)

States == {"absent", "received", "claimed", "adopted", "generated",
           "publication_confirmed", "blocked", "rejected"}

Row == [state       : States,
        revision    : Nat,
        token       : Nat,                  \* lease_token, 0 is NULL
        live        : BOOLEAN,              \* lease_until > now()
        expected    : {None} \cup Generations,    \* expected_generation
        claimed     : {None} \cup Sources,  \* claimed_source_sha256
        adopted     : {None} \cup Sources,  \* adopted_source_sha256
        pins        : {None} \cup Pins,
        receipts    : {None} \cup SUBSET Deviations,
        publication : {None} \cup Evidence,
        pubId       : {None} \cup Publications,   \* publication_request_id
        included    : SUBSET Deviations,    \* included_request_ids
        failure     : {None} \cup FailureCodes,
        logs        : Nat]                  \* deviation_correction_logs rows

NoRow == [state |-> "absent", revision |-> 0, token |-> 0, live |-> FALSE,
          expected |-> None, claimed |-> None, adopted |-> None,
          pins |-> None, receipts |-> None, publication |-> None,
          pubId |-> None, included |-> {}, failure |-> None, logs |-> 0]

Terminal == {"publication_confirmed", "rejected"}

\* A publish request that was made and is neither confirmed nor rejected.
Pending(p) == row[p].state \notin Terminal \cup {"absent"}

\* school_submission_fingerprint still equals the request's own.
ConsentHolds(d) == d \in Derived => consent[d]

\* The request has a fingerprint and it holds; a publish request has none.
OwnConsentHolds(r) == r \in Deviations => ConsentHolds(r)

\* The cohort check claim and ACK share: still this publication's members,
\* each with current consent.
CohortHolds(p) ==
  \A d \in row[p].included : row[d].pubId = p /\ ConsentHolds(d)

QueueInit ==
  /\ row = [r \in Requests |-> NoRow]
  /\ consent = [d \in Deviations |-> TRUE]

----------------------------------------------------------------------------
(* Admin RPCs.                                                             *)

\* The row as it is inserted.
Received(g, cohort) == [NoRow EXCEPT !.state = "received", !.revision = 1,
                                     !.expected = g, !.included = cohort]

\* request_school_deviation, after the PIN check.
RequestDeviation(d, g) ==
  /\ row[d].state = "absent"
  /\ ConsentHolds(d)
  /\ row' = [row EXCEPT ![d] = Received(g, {})]
  /\ UNCHANGED consent

\* Wrong on purpose: leaves out the corrections an owner is working on.
OpenUnclaimed == {d \in Deviations :
                    /\ row[d].state \in {"received", "adopted"}
                    /\ row[d].pubId = None}

\* The corrections a new publication takes: all that are open and unassigned.
OpenCohort == {d \in Deviations :
                 /\ row[d].state \in {"received", "claimed", "adopted"}
                 /\ row[d].pubId = None}

BoundTo(p, d) == [row[d] EXCEPT !.pubId = p]

\* request_school_publication.  The members' revisions do not change.
RequestPublication(p, g) ==
  /\ row[p].state = "absent"
  /\ \A q \in Publications : ~ Pending(q)
  /\ Cardinality(OpenCohort) <= MaxCohort
  /\ row' = [r \in Requests |->
               IF r = p
               THEN Received(g, OpenCohort)
               ELSE IF r \in OpenCohort THEN BoundTo(p, r) ELSE row[r]]
  /\ UNCHANGED consent

----------------------------------------------------------------------------
(* Owner RPCs.                                                             *)

\* The state a claim puts the row in: what the request had reached already.
ResumedState(r) ==
  IF row[r].pins # None THEN "generated"
  ELSE IF row[r].adopted # None /\ r \in Deviations THEN "adopted"
  ELSE "claimed"

\* Wrong on purpose: later corrections wait only once a candidate exists.
WaitsForCandidate(d) ==
  \A p \in Publications : row[p].state = "generated" => d \in row[p].included

\* A correction outside the cohort waits for the pending publication.
InPendingCohort(d) == \A p \in Publications : Pending(p) => d \in row[p].included

\* Wrong on purpose: an unadopted correction may be claimed for a new base.
BaseKeptOnceAdopted(r, src) == row[r].adopted # None => row[r].claimed = src

\* A claim names the source the first claim named.
SameBase(r, src) == row[r].claimed \in {None, src}

Claimed(r, src) == [row[r] EXCEPT !.state = ResumedState(r),
                                  !.revision = @ + 1,
                                  !.token = row[r].revision + 1,
                                  !.live = TRUE,
                                  !.claimed = src,
                                  !.failure = None]

\* claim_school_change.
Claim(r, rev, src) ==
  /\ row[r].state \notin {"absent"} \cup Terminal
  /\ r \in Deviations =>
       InPendingCohort(r) /\ row[r].state \notin {"adopted", "generated"}
  /\ rev = row[r].revision
  /\ ~ row[r].live
  /\ row[r].state = "blocked" => row[r].failure = "retryable"
  /\ OwnConsentHolds(r)
  /\ r \in Publications =>
       /\ CohortHolds(r)
       /\ \A d \in row[r].included : row[d].state \in {"adopted", "generated"}
  /\ SameBase(r, src)
  /\ rev < MaxRevision[r]
  /\ row' = [row EXCEPT ![r] = Claimed(r, src)]
  /\ UNCHANGED consent

\* What every ACK that changes a row requires of it.
AckGuard(r, tok) ==
  /\ tok = row[r].token /\ tok # 0
  /\ row[r].live
  /\ OwnConsentHolds(r)
  /\ r \in Publications => CohortHolds(r)

Adopted(d, src) == [row[d] EXCEPT !.state = "adopted", !.revision = @ + 1,
                                  !.adopted = src, !.logs = @ + 1]

\* ack_school_change, stage adopted: also writes the correction log.
AckAdopted(d, tok, src) ==
  /\ AckGuard(d, tok)
  /\ row[d].state = "claimed"
  /\ src # row[d].claimed
  /\ row' = [row EXCEPT ![d] = Adopted(d, src)]
  /\ UNCHANGED consent

AtStage(d, stage) == [row[d] EXCEPT !.state = stage, !.revision = @ + 1]

\* A publish ACK gives its stage to the publication and to all its members.
Advance(p, stage, new) ==
  [r \in Requests |-> IF r = p THEN new
                      ELSE IF r \in row[p].included THEN AtStage(r, stage)
                      ELSE row[r]]

Generated(p, src, pins, recs) ==
  [row[p] EXCEPT !.state = "generated", !.revision = @ + 1,
                 !.adopted = src, !.pins = pins, !.receipts = recs]

\* ack_school_change, stage generated.
AckGenerated(p, tok, src, pins, recs) ==
  /\ AckGuard(p, tok)
  /\ row[p].state = "claimed"
  /\ src = row[p].claimed
  /\ recs = row[p].included
  /\ \A d \in row[p].included : row[d].state = "adopted"
  /\ row' = Advance(p, "generated", Generated(p, src, pins, recs))
  /\ UNCHANGED consent

Confirmed(p, ev) == [row[p] EXCEPT !.state = "publication_confirmed",
                                   !.revision = @ + 1, !.publication = ev]

\* ack_school_change, stage publication_confirmed.
AckConfirmed(p, tok, src, pins, recs, ev) ==
  /\ AckGuard(p, tok)
  /\ row[p].state = "generated"
  /\ <<src, pins, recs>> = <<row[p].adopted, row[p].pins, row[p].receipts>>
  /\ row' = Advance(p, "publication_confirmed", Confirmed(p, ev))
  /\ UNCHANGED consent

\* The same ACK again, after its first response was lost: accepted on the
\* token alone, without lease or consent, and only with the same pins.
AckRepeated(r, tok, stage, src, pins, recs, ev) ==
  /\ tok = row[r].token /\ tok # 0
  /\ stage = "adopted" <=> r \in Deviations
  /\ row[r].state = stage
  /\ src = row[r].adopted
  /\ stage = "publication_confirmed" => ev = row[r].publication
  /\ r \in Publications => pins = row[r].pins /\ recs = row[r].receipts

Renewed(r) == [row[r] EXCEPT !.revision = @ + 1]

\* renew_school_change_lease.
Renew(r, tok, rev) ==
  /\ tok = row[r].token /\ tok # 0
  /\ rev = row[r].revision
  /\ row[r].state \in {"claimed", "adopted", "generated"}
  /\ row[r].live
  /\ rev < MaxRevision[r]
  /\ row' = [row EXCEPT ![r] = Renewed(r)]
  /\ UNCHANGED consent

\* school_publication_preflight: a read that only says yes or RAISEs.
PreflightPasses(p, tok, rev, src, pins, recs) ==
  /\ row[p].state = "generated"
  /\ rev = row[p].revision
  /\ tok = row[p].token /\ tok # 0
  /\ row[p].live
  /\ <<src, pins, recs>> = <<row[p].adopted, row[p].pins, row[p].receipts>>
  /\ CohortHolds(p)
  /\ \A d \in row[p].included : row[d].state = "generated"

\* Wrong on purpose: looks at the state only, so a blocked publication that was
\* generated already can be rejected.
RejectGuardByState(r, rev) ==
  /\ row[r].state \in {"received", "claimed", "blocked"}
  /\ rev = row[r].revision
  /\ ~ row[r].live

\* reject_school_change: nobody works on the request and nothing of it can
\* have been generated.
RejectGuard(r, rev) ==
  /\ row[r].state \notin {"absent"} \cup Terminal
  /\ rev = row[r].revision
  /\ ~ row[r].live
  /\ row[r].pins = None /\ row[r].publication = None /\ row[r].receipts = None

\* Wrong on purpose: keeps the decision in the failure column.
RejectedAsFailure(r) == [row[r] EXCEPT !.state = "rejected", !.revision = @ + 1,
                                       !.live = FALSE, !.failure = "rejected"]

Rejected(r) == [row[r] EXCEPT !.state = "rejected", !.revision = @ + 1,
                              !.live = FALSE, !.failure = None]

\* Wrong on purpose: looks at the state only, so a correction that was adopted
\* and then blocked can be rejected.
UnadoptedByState(d) == row[d].state \notin {"adopted", "generated"}

Unadopted(d) ==
  /\ row[d].adopted = None /\ row[d].logs = 0
  /\ row[d].state \notin {"adopted", "generated"}

RejectDeviation(d, rev) ==
  /\ RejectGuard(d, rev)
  /\ Unadopted(d)
  /\ row' = [row EXCEPT ![d] = Rejected(d)]
  /\ UNCHANGED consent

\* Wrong on purpose: members stay bound to the rejected publication.
StillBound(d) == [row[d] EXCEPT !.revision = @ + 1]

Released(d) == [row[d] EXCEPT !.pubId = None, !.revision = @ + 1]

\* Rejecting an ungenerated publication releases its cohort.
RejectPublication(p, rev) ==
  /\ RejectGuard(p, rev)
  /\ \A d \in row[p].included :
       /\ row[d].pubId = p /\ ~ row[d].live /\ row[d].pins = None
       /\ row[d].state \notin {"generated", "publication_confirmed"}
  /\ row' = [r \in Requests |->
               IF r = p THEN Rejected(p)
               ELSE IF r \in row[p].included THEN Released(r) ELSE row[r]]
  /\ UNCHANGED consent

\* Wrong on purpose: forgets the states that are final.
FailableOnceClaimed(r) == row[r].state \notin {"absent", "received"}

Failable(r) == row[r].state \notin {"absent", "received"} \cup Terminal

Blocked(r, code) == [row[r] EXCEPT !.state = "blocked", !.revision = @ + 1,
                                   !.live = FALSE, !.failure = code]

\* fail_school_change: no lease and no lock needed, only the last token.
Fail(r, tok, code) ==
  /\ tok = row[r].token /\ tok # 0
  /\ Failable(r)
  /\ row[r].revision < MaxRevision[r]
  /\ row' = [row EXCEPT ![r] = Blocked(r, code)]
  /\ UNCHANGED consent

----------------------------------------------------------------------------
(* The environment.                                                        *)

Lapsed(r) == [row[r] EXCEPT !.live = FALSE]

\* lease_until passes.
LeaseExpires(r) ==
  /\ row[r].live
  /\ row' = [row EXCEPT ![r] = Lapsed(r)]
  /\ UNCHANGED consent

\* A user submits, edits or withdraws a value that counts for the request.
ConsentChanges(d) ==
  /\ d \in Derived /\ row[d].state \notin Terminal \cup {"absent"}
  /\ consent' = [consent EXCEPT ![d] = ~ @]
  /\ UNCHANGED row
----------------------------------------------------------------------------
(* The queue on its own, under any admin and any owner: the RPCs are called *)
(* with every argument.  The local side may be anything at all.             *)

AdminCall ==
  \/ \E d \in Deviations, g \in Generations : RequestDeviation(d, g)
  \/ \E p \in Publications, g \in Generations : RequestPublication(p, g)

LeaseCall(r) ==
  \/ \E rev \in 1..MaxRevision[r], src \in Sources : Claim(r, rev, src)
  \/ \E rev, tok \in 1..MaxRevision[r] : Renew(r, tok, rev)
  \/ \E tok \in 1..MaxRevision[r], code \in FailureCodes : Fail(r, tok, code)

AckCall ==
  \E src \in Sources :
    \/ \E d \in Deviations : \E tok \in 1..MaxRevision[d] : AckAdopted(d, tok, src)
    \/ \E p \in Publications, pins \in Pins, recs \in SUBSET Deviations :
       \E tok \in 1..MaxRevision[p] :
         \/ AckGenerated(p, tok, src, pins, recs)
         \/ \E ev \in Evidence : AckConfirmed(p, tok, src, pins, recs, ev)

RejectCall ==
  \/ \E d \in Deviations : \E rev \in {row[d].revision} : RejectDeviation(d, rev)
  \/ \E p \in Publications : \E rev \in {row[p].revision} : RejectPublication(p, rev)

QueueNext ==
  \/ AdminCall
  \/ \E r \in Requests : LeaseCall(r) \/ LeaseExpires(r)
  \/ AckCall
  \/ RejectCall
  \/ \E d \in Deviations : ConsentChanges(d)

QueueSpec == QueueInit /\ [][QueueNext]_queueVars

----------------------------------------------------------------------------
(* What the queue guarantees whatever its callers do.                      *)

QueueTypeOK ==
  /\ row \in [Requests -> Row]
  /\ consent \in [Deviations -> BOOLEAN]

\* At most one publication is pending, and its members are bound to it and
\* to no other: no correction can be claimed into two publications
\* (SQL 198-208, 530-532).
CohortsDisjoint ==
  /\ \A p, q \in Publications : Pending(p) /\ Pending(q) => p = q
  /\ \A p \in Publications : row[p].state \notin {"absent", "rejected"} =>
       \A d \in row[p].included : row[d].pubId = p
  /\ \A d \in Deviations : row[d].pubId # None =>
       /\ d \in row[row[d].pubId].included
       /\ row[row[d].pubId].state # "rejected"

\* A correction becomes public only with its audit log row, written once, and
\* together with a confirmed publication that included it; and a rejected
\* correction never has one (SQL 350-357, 406-411, 500-501).
PublicOnlyWithAuditLog ==
  \A d \in Deviations :
    /\ row[d].state = "publication_confirmed" =>
         /\ row[d].logs = 1
         /\ row[d].pubId # None
         /\ row[row[d].pubId].state = "publication_confirmed"
    /\ row[d].state = "rejected" => row[d].logs = 0
    /\ row[d].logs <= 1

\* While a publication is pending no correction outside its cohort is being
\* worked on: the source it will be generated from stays the cohort's
\* (the header's "freezes its request cohort", SQL 17-19, 277-281).
LaterCorrectionsWait ==
  \A p \in Publications, d \in Deviations :
    Pending(p) /\ row[d].state = "claimed" => d \in row[p].included

\* Once pins are set the publication can only go forward: it is never
\* rejected, and every member has its adoption recorded (SQL 375-382, 493-497).
PinnedNeverReleased ==
  \A p \in Publications : row[p].pins # None =>
    /\ row[p].state \in {"generated", "publication_confirmed", "blocked"}
    /\ row[p].receipts = row[p].included
    /\ \A d \in row[p].included : row[d].adopted # None

\* Confirmed and rejected are final, also against the updates a publication
\* makes to its members' rows without looking at their state (SQL 410-411).
FinalStatesAreFinal ==
  [][\A r \in Requests : row[r].state \in Terminal =>
       row'[r].state = row[r].state]_queueVars

\* What a request has been pinned to does not change: the claimed source, the
\* adopted source and the pins survive every lapse, block and re-claim, so a
\* restarted owner resumes the same work (SQL 10-12, 299-306).
ResumesTheSameWork ==
  [][\A r \in Requests :
       /\ row[r].claimed # None => row'[r].claimed = row[r].claimed
       /\ row[r].adopted # None => row'[r].adopted = row[r].adopted
       /\ row[r].pins # None => row'[r].pins = row[r].pins]_queueVars

----------------------------------------------------------------------------
(* The queue as an implementation of the abstract life cycle.              *)

\* What has become of a correction, read from its row.
PhaseOf(d) ==
  CASE row[d].state = "absent" -> "none"
    [] row[d].state = "rejected" -> "cancelled"
    [] row[d].state = "publication_confirmed" -> "public"
    [] OTHER -> IF row[d].adopted # None THEN "adopted" ELSE "pending"

\* The cohort frozen by the pending publication.
FrozenCohort ==
  IF \E p \in Publications : Pending(p)
  THEN row[CHOOSE p \in Publications : Pending(p)].included
  ELSE None

Lifecycle == INSTANCE SchoolChangeLifecycle
  WITH Corrections <- Deviations,
       NoCohort <- None,
       phase <- [d \in Deviations |-> PhaseOf(d)],
       frozen <- FrozenCohort

\* The queue implements the life cycle: every RPC, in every order and with
\* every argument, is a step of it or changes nothing it tells apart.
ImplementsLifecycle == Lifecycle!Spec
=============================================================================
