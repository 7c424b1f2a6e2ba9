----------------------- MODULE SchoolChangeQueueProofs -----------------------
(***************************************************************************)
(* What SchoolChangeQueue guarantees for any number of corrections and     *)
(* publications, any bounds, and any caller: its inductive invariant and   *)
(* what follows from it; what each RPC makes of the rows, column by column *)
(* (what a request asks for and was pinned to never changes, and a token   *)
(* is never newer than its row); and that the queue implements the abstract*)
(* life cycle of a correction, every RPC being a step of                   *)
(* SchoolChangeLifecycle or changing nothing it tells apart.               *)
(***************************************************************************)
EXTENDS SchoolChangeQueue, TLAPS

----------------------------------------------------------------------------
(* The inductive invariant.  The properties of the runs speak of cohorts,  *)
(* logs and pins one at a time; each is kept only because of the others.   *)

\* A publication whose members are bound to it.
Active(p) == row[p].state \notin {"absent", "rejected"}

\* Members of an active publication exist, and what a correction is bound to
\* exists too.
MembersExist ==
  /\ \A p \in Publications : Active(p) =>
       \A d \in row[p].included : row[d].state # "absent"
  /\ \A d \in Deviations : row[d].pubId # None => row[row[d].pubId].state # "absent"

\* A confirmed publication has confirmed all its members.
ConfirmedTogether ==
  \A p \in Publications : row[p].state = "publication_confirmed" =>
    \A d \in row[p].included : row[d].state = "publication_confirmed"

\* The log is written with the adoption, and the state says no more and no less
\* than that it happened.
AdoptionLogged ==
  \A d \in Deviations :
    /\ row[d].pins = None
    /\ row[d].logs = IF row[d].adopted = None THEN 0 ELSE 1
    /\ row[d].state \in {"received", "claimed"} => row[d].adopted = None
    /\ row[d].state \in {"adopted", "generated", "publication_confirmed"} =>
         row[d].adopted # None

\* A publication past its first ACK has its pins, and no other has a source it
\* was generated from.
GeneratedIsPinned ==
  \A p \in Publications :
    /\ row[p].state \in {"generated", "publication_confirmed"} => row[p].pins # None
    /\ row[p].adopted = None <=> row[p].pins = None

QueueInv ==
  /\ QueueTypeOK
  /\ CohortsDisjoint
  /\ LaterCorrectionsWait
  /\ PublicOnlyWithAuditLog
  /\ PinnedNeverReleased
  /\ MembersExist
  /\ ConfirmedTogether
  /\ AdoptionLogged
  /\ GeneratedIsPinned

----------------------------------------------------------------------------
(* Rows.  A row stays a row when one column is set to a value of its type; *)
(* every update is a chain of such steps.                                  *)

\* Setting state keeps a row a row.
LEMMA SetState ==
  ASSUME NEW x \in Row, NEW v \in States
  PROVE  [x EXCEPT !.state = v] \in Row
  BY DEF Row

\* Setting revision keeps a row a row.
LEMMA SetRevision ==
  ASSUME NEW x \in Row, NEW v \in Nat
  PROVE  [x EXCEPT !.revision = v] \in Row
  BY DEF Row

\* Setting token keeps a row a row.
LEMMA SetToken ==
  ASSUME NEW x \in Row, NEW v \in Nat
  PROVE  [x EXCEPT !.token = v] \in Row
  BY DEF Row

\* Setting live keeps a row a row.
LEMMA SetLive ==
  ASSUME NEW x \in Row, NEW v \in BOOLEAN
  PROVE  [x EXCEPT !.live = v] \in Row
  BY DEF Row

\* Setting claimed keeps a row a row.
LEMMA SetClaimed ==
  ASSUME NEW x \in Row, NEW v \in {None} \cup Sources
  PROVE  [x EXCEPT !.claimed = v] \in Row
  BY DEF Row

\* Setting adopted keeps a row a row.
LEMMA SetAdopted ==
  ASSUME NEW x \in Row, NEW v \in {None} \cup Sources
  PROVE  [x EXCEPT !.adopted = v] \in Row
  BY DEF Row

\* Setting pins keeps a row a row.
LEMMA SetPins ==
  ASSUME NEW x \in Row, NEW v \in {None} \cup Pins
  PROVE  [x EXCEPT !.pins = v] \in Row
  BY DEF Row

\* Setting receipts keeps a row a row.
LEMMA SetReceipts ==
  ASSUME NEW x \in Row, NEW v \in {None} \cup SUBSET Deviations
  PROVE  [x EXCEPT !.receipts = v] \in Row
  BY DEF Row

\* Setting publication keeps a row a row.
LEMMA SetPublication ==
  ASSUME NEW x \in Row, NEW v \in {None} \cup Evidence
  PROVE  [x EXCEPT !.publication = v] \in Row
  BY DEF Row

\* Setting pubId keeps a row a row.
LEMMA SetPubId ==
  ASSUME NEW x \in Row, NEW v \in {None} \cup Publications
  PROVE  [x EXCEPT !.pubId = v] \in Row
  BY DEF Row

\* Setting failure keeps a row a row.
LEMMA SetFailure ==
  ASSUME NEW x \in Row, NEW v \in {None} \cup FailureCodes
  PROVE  [x EXCEPT !.failure = v] \in Row
  BY DEF Row

\* Setting logs keeps a row a row.
LEMMA SetLogs ==
  ASSUME NEW x \in Row, NEW v \in Nat
  PROVE  [x EXCEPT !.logs = v] \in Row
  BY DEF Row

\* What a claim makes of a row.
LEMMA ClaimedRow ==
  ASSUME NEW r \in Requests, row[r] \in Row, NEW src \in Sources
  PROVE  /\ Claimed(r, src) \in Row
         /\ Claimed(r, src).state = ResumedState(r)
         /\ Claimed(r, src).revision = row[r].revision + 1
         /\ Claimed(r, src).token = row[r].revision + 1
         /\ Claimed(r, src).live = TRUE
         /\ Claimed(r, src).expected = row[r].expected
         /\ Claimed(r, src).claimed = src
         /\ Claimed(r, src).adopted = row[r].adopted
         /\ Claimed(r, src).pins = row[r].pins
         /\ Claimed(r, src).receipts = row[r].receipts
         /\ Claimed(r, src).publication = row[r].publication
         /\ Claimed(r, src).pubId = row[r].pubId
         /\ Claimed(r, src).included = row[r].included
         /\ Claimed(r, src).logs = row[r].logs
<1> row[r].revision \in Nat /\ row[r].revision + 1 \in Nat
  BY DEF Row
<1> ResumedState(r) \in States
  BY DEF ResumedState, States
<1>1. [row[r] EXCEPT !.state = ResumedState(r)] \in Row
  BY SetState
<1>2. [row[r] EXCEPT !.state = ResumedState(r), !.revision = row[r].revision + 1] \in Row
  BY <1>1, SetRevision
<1>3. [row[r] EXCEPT !.state = ResumedState(r), !.revision = row[r].revision + 1, !.token = row[r].revision + 1] \in Row
  BY <1>2, SetToken
<1>4. [row[r] EXCEPT !.state = ResumedState(r), !.revision = row[r].revision + 1, !.token = row[r].revision + 1, !.live = TRUE] \in Row
  BY <1>3, SetLive
<1>5. [row[r] EXCEPT !.state = ResumedState(r), !.revision = row[r].revision + 1, !.token = row[r].revision + 1, !.live = TRUE, !.claimed = src] \in Row
  BY <1>4, SetClaimed
<1>6. [row[r] EXCEPT !.state = ResumedState(r), !.revision = row[r].revision + 1, !.token = row[r].revision + 1, !.live = TRUE, !.claimed = src, !.failure = None] \in Row
  BY <1>5, SetFailure
<1>7. Claimed(r, src) \in Row
  BY <1>6 DEF Claimed
<1> QED
  BY <1>7 DEF Claimed, Row

\* What the adopted ACK makes of a row.
LEMMA AdoptedRow ==
  ASSUME NEW d \in Deviations, row[d] \in Row, NEW src \in Sources
  PROVE  /\ Adopted(d, src) \in Row
         /\ Adopted(d, src).state = "adopted"
         /\ Adopted(d, src).revision = row[d].revision + 1
         /\ Adopted(d, src).token = row[d].token
         /\ Adopted(d, src).live = row[d].live
         /\ Adopted(d, src).expected = row[d].expected
         /\ Adopted(d, src).claimed = row[d].claimed
         /\ Adopted(d, src).adopted = src
         /\ Adopted(d, src).pins = row[d].pins
         /\ Adopted(d, src).receipts = row[d].receipts
         /\ Adopted(d, src).publication = row[d].publication
         /\ Adopted(d, src).pubId = row[d].pubId
         /\ Adopted(d, src).included = row[d].included
         /\ Adopted(d, src).logs = row[d].logs + 1
<1> row[d].revision \in Nat /\ row[d].revision + 1 \in Nat
  BY DEF Row
<1> row[d].logs + 1 \in Nat
  BY DEF Row
<1> "adopted" \in States
  BY DEF States
<1>1. [row[d] EXCEPT !.state = "adopted"] \in Row
  BY SetState
<1>2. [row[d] EXCEPT !.state = "adopted", !.revision = row[d].revision + 1] \in Row
  BY <1>1, SetRevision
<1>3. [row[d] EXCEPT !.state = "adopted", !.revision = row[d].revision + 1, !.adopted = src] \in Row
  BY <1>2, SetAdopted
<1>4. [row[d] EXCEPT !.state = "adopted", !.revision = row[d].revision + 1, !.adopted = src, !.logs = row[d].logs + 1] \in Row
  BY <1>3, SetLogs
<1>5. Adopted(d, src) \in Row
  BY <1>4 DEF Adopted
<1> QED
  BY <1>5 DEF Adopted, Row

\* What the generated ACK makes of the publication.
LEMMA GeneratedRow ==
  ASSUME NEW p \in Publications, row[p] \in Row, NEW src \in Sources,
         NEW pins \in Pins, NEW recs \in SUBSET Deviations
  PROVE  /\ Generated(p, src, pins, recs) \in Row
         /\ Generated(p, src, pins, recs).state = "generated"
         /\ Generated(p, src, pins, recs).revision = row[p].revision + 1
         /\ Generated(p, src, pins, recs).token = row[p].token
         /\ Generated(p, src, pins, recs).live = row[p].live
         /\ Generated(p, src, pins, recs).expected = row[p].expected
         /\ Generated(p, src, pins, recs).claimed = row[p].claimed
         /\ Generated(p, src, pins, recs).adopted = src
         /\ Generated(p, src, pins, recs).pins = pins
         /\ Generated(p, src, pins, recs).receipts = recs
         /\ Generated(p, src, pins, recs).publication = row[p].publication
         /\ Generated(p, src, pins, recs).pubId = row[p].pubId
         /\ Generated(p, src, pins, recs).included = row[p].included
         /\ Generated(p, src, pins, recs).logs = row[p].logs
<1> row[p].revision \in Nat /\ row[p].revision + 1 \in Nat
  BY DEF Row
<1> "generated" \in States
  BY DEF States
<1>1. [row[p] EXCEPT !.state = "generated"] \in Row
  BY SetState
<1>2. [row[p] EXCEPT !.state = "generated", !.revision = row[p].revision + 1] \in Row
  BY <1>1, SetRevision
<1>3. [row[p] EXCEPT !.state = "generated", !.revision = row[p].revision + 1, !.adopted = src] \in Row
  BY <1>2, SetAdopted
<1>4. [row[p] EXCEPT !.state = "generated", !.revision = row[p].revision + 1, !.adopted = src, !.pins = pins] \in Row
  BY <1>3, SetPins
<1>5. [row[p] EXCEPT !.state = "generated", !.revision = row[p].revision + 1, !.adopted = src, !.pins = pins, !.receipts = recs] \in Row
  BY <1>4, SetReceipts
<1>6. Generated(p, src, pins, recs) \in Row
  BY <1>5 DEF Generated
<1> QED
  BY <1>6 DEF Generated, Row

\* What the confirming ACK makes of the publication.
LEMMA ConfirmedRow ==
  ASSUME NEW p \in Publications, row[p] \in Row, NEW ev \in Evidence
  PROVE  /\ Confirmed(p, ev) \in Row
         /\ Confirmed(p, ev).state = "publication_confirmed"
         /\ Confirmed(p, ev).revision = row[p].revision + 1
         /\ Confirmed(p, ev).token = row[p].token
         /\ Confirmed(p, ev).live = row[p].live
         /\ Confirmed(p, ev).expected = row[p].expected
         /\ Confirmed(p, ev).claimed = row[p].claimed
         /\ Confirmed(p, ev).adopted = row[p].adopted
         /\ Confirmed(p, ev).pins = row[p].pins
         /\ Confirmed(p, ev).receipts = row[p].receipts
         /\ Confirmed(p, ev).publication = ev
         /\ Confirmed(p, ev).pubId = row[p].pubId
         /\ Confirmed(p, ev).included = row[p].included
         /\ Confirmed(p, ev).logs = row[p].logs
<1> row[p].revision \in Nat /\ row[p].revision + 1 \in Nat
  BY DEF Row
<1> "publication_confirmed" \in States
  BY DEF States
<1>1. [row[p] EXCEPT !.state = "publication_confirmed"] \in Row
  BY SetState
<1>2. [row[p] EXCEPT !.state = "publication_confirmed", !.revision = row[p].revision + 1] \in Row
  BY <1>1, SetRevision
<1>3. [row[p] EXCEPT !.state = "publication_confirmed", !.revision = row[p].revision + 1, !.publication = ev] \in Row
  BY <1>2, SetPublication
<1>4. Confirmed(p, ev) \in Row
  BY <1>3 DEF Confirmed
<1> QED
  BY <1>4 DEF Confirmed, Row

\* What a publish ACK makes of a member.
LEMMA StageRow ==
  ASSUME NEW d \in Deviations, row[d] \in Row, NEW stage \in States
  PROVE  /\ AtStage(d, stage) \in Row
         /\ AtStage(d, stage).state = stage
         /\ AtStage(d, stage).revision = row[d].revision + 1
         /\ AtStage(d, stage).token = row[d].token
         /\ AtStage(d, stage).live = row[d].live
         /\ AtStage(d, stage).expected = row[d].expected
         /\ AtStage(d, stage).claimed = row[d].claimed
         /\ AtStage(d, stage).adopted = row[d].adopted
         /\ AtStage(d, stage).pins = row[d].pins
         /\ AtStage(d, stage).receipts = row[d].receipts
         /\ AtStage(d, stage).publication = row[d].publication
         /\ AtStage(d, stage).pubId = row[d].pubId
         /\ AtStage(d, stage).included = row[d].included
         /\ AtStage(d, stage).logs = row[d].logs
<1> row[d].revision \in Nat /\ row[d].revision + 1 \in Nat
  BY DEF Row
<1>1. [row[d] EXCEPT !.state = stage] \in Row
  BY SetState
<1>2. [row[d] EXCEPT !.state = stage, !.revision = row[d].revision + 1] \in Row
  BY <1>1, SetRevision
<1>3. AtStage(d, stage) \in Row
  BY <1>2 DEF AtStage
<1> QED
  BY <1>3 DEF AtStage, Row

\* What a renewal makes of a row.
LEMMA RenewedRow ==
  ASSUME NEW r \in Requests, row[r] \in Row
  PROVE  /\ Renewed(r) \in Row
         /\ Renewed(r).state = row[r].state
         /\ Renewed(r).revision = row[r].revision + 1
         /\ Renewed(r).token = row[r].token
         /\ Renewed(r).live = row[r].live
         /\ Renewed(r).expected = row[r].expected
         /\ Renewed(r).claimed = row[r].claimed
         /\ Renewed(r).adopted = row[r].adopted
         /\ Renewed(r).pins = row[r].pins
         /\ Renewed(r).receipts = row[r].receipts
         /\ Renewed(r).publication = row[r].publication
         /\ Renewed(r).pubId = row[r].pubId
         /\ Renewed(r).included = row[r].included
         /\ Renewed(r).logs = row[r].logs
<1> row[r].revision \in Nat /\ row[r].revision + 1 \in Nat
  BY DEF Row
<1>1. [row[r] EXCEPT !.revision = row[r].revision + 1] \in Row
  BY SetRevision
<1>2. Renewed(r) \in Row
  BY <1>1 DEF Renewed
<1> QED
  BY <1>2 DEF Renewed, Row

\* What a rejection makes of a row.
LEMMA RejectedRow ==
  ASSUME NEW r \in Requests, row[r] \in Row
  PROVE  /\ Rejected(r) \in Row
         /\ Rejected(r).state = "rejected"
         /\ Rejected(r).revision = row[r].revision + 1
         /\ Rejected(r).token = row[r].token
         /\ Rejected(r).live = FALSE
         /\ Rejected(r).expected = row[r].expected
         /\ Rejected(r).claimed = row[r].claimed
         /\ Rejected(r).adopted = row[r].adopted
         /\ Rejected(r).pins = row[r].pins
         /\ Rejected(r).receipts = row[r].receipts
         /\ Rejected(r).publication = row[r].publication
         /\ Rejected(r).pubId = row[r].pubId
         /\ Rejected(r).included = row[r].included
         /\ Rejected(r).logs = row[r].logs
<1> row[r].revision \in Nat /\ row[r].revision + 1 \in Nat
  BY DEF Row
<1> "rejected" \in States
  BY DEF States
<1>1. [row[r] EXCEPT !.state = "rejected"] \in Row
  BY SetState
<1>2. [row[r] EXCEPT !.state = "rejected", !.revision = row[r].revision + 1] \in Row
  BY <1>1, SetRevision
<1>3. [row[r] EXCEPT !.state = "rejected", !.revision = row[r].revision + 1, !.live = FALSE] \in Row
  BY <1>2, SetLive
<1>4. [row[r] EXCEPT !.state = "rejected", !.revision = row[r].revision + 1, !.live = FALSE, !.failure = None] \in Row
  BY <1>3, SetFailure
<1>5. Rejected(r) \in Row
  BY <1>4 DEF Rejected
<1> QED
  BY <1>5 DEF Rejected, Row

\* What the release of a publication makes of a member.
LEMMA ReleasedRow ==
  ASSUME NEW d \in Deviations, row[d] \in Row
  PROVE  /\ Released(d) \in Row
         /\ Released(d).state = row[d].state
         /\ Released(d).revision = row[d].revision + 1
         /\ Released(d).token = row[d].token
         /\ Released(d).live = row[d].live
         /\ Released(d).expected = row[d].expected
         /\ Released(d).claimed = row[d].claimed
         /\ Released(d).adopted = row[d].adopted
         /\ Released(d).pins = row[d].pins
         /\ Released(d).receipts = row[d].receipts
         /\ Released(d).publication = row[d].publication
         /\ Released(d).pubId = None
         /\ Released(d).included = row[d].included
         /\ Released(d).logs = row[d].logs
<1> row[d].revision \in Nat /\ row[d].revision + 1 \in Nat
  BY DEF Row
<1>1. [row[d] EXCEPT !.pubId = None] \in Row
  BY SetPubId
<1>2. [row[d] EXCEPT !.pubId = None, !.revision = row[d].revision + 1] \in Row
  BY <1>1, SetRevision
<1>3. Released(d) \in Row
  BY <1>2 DEF Released
<1> QED
  BY <1>3 DEF Released, Row

\* What a new publication makes of a member.
LEMMA BoundRow ==
  ASSUME NEW d \in Deviations, row[d] \in Row, NEW p \in Publications
  PROVE  /\ BoundTo(p, d) \in Row
         /\ BoundTo(p, d).state = row[d].state
         /\ BoundTo(p, d).revision = row[d].revision
         /\ BoundTo(p, d).token = row[d].token
         /\ BoundTo(p, d).live = row[d].live
         /\ BoundTo(p, d).expected = row[d].expected
         /\ BoundTo(p, d).claimed = row[d].claimed
         /\ BoundTo(p, d).adopted = row[d].adopted
         /\ BoundTo(p, d).pins = row[d].pins
         /\ BoundTo(p, d).receipts = row[d].receipts
         /\ BoundTo(p, d).publication = row[d].publication
         /\ BoundTo(p, d).pubId = p
         /\ BoundTo(p, d).included = row[d].included
         /\ BoundTo(p, d).logs = row[d].logs
<1>1. [row[d] EXCEPT !.pubId = p] \in Row
  BY SetPubId
<1>2. BoundTo(p, d) \in Row
  BY <1>1 DEF BoundTo
<1> QED
  BY <1>2 DEF BoundTo, Row

\* What a failure makes of a row.
LEMMA BlockedRow ==
  ASSUME NEW r \in Requests, row[r] \in Row, NEW code \in FailureCodes
  PROVE  /\ Blocked(r, code) \in Row
         /\ Blocked(r, code).state = "blocked"
         /\ Blocked(r, code).revision = row[r].revision + 1
         /\ Blocked(r, code).token = row[r].token
         /\ Blocked(r, code).live = FALSE
         /\ Blocked(r, code).expected = row[r].expected
         /\ Blocked(r, code).claimed = row[r].claimed
         /\ Blocked(r, code).adopted = row[r].adopted
         /\ Blocked(r, code).pins = row[r].pins
         /\ Blocked(r, code).receipts = row[r].receipts
         /\ Blocked(r, code).publication = row[r].publication
         /\ Blocked(r, code).pubId = row[r].pubId
         /\ Blocked(r, code).included = row[r].included
         /\ Blocked(r, code).logs = row[r].logs
<1> row[r].revision \in Nat /\ row[r].revision + 1 \in Nat
  BY DEF Row
<1> "blocked" \in States
  BY DEF States
<1>1. [row[r] EXCEPT !.state = "blocked"] \in Row
  BY SetState
<1>2. [row[r] EXCEPT !.state = "blocked", !.revision = row[r].revision + 1] \in Row
  BY <1>1, SetRevision
<1>3. [row[r] EXCEPT !.state = "blocked", !.revision = row[r].revision + 1, !.live = FALSE] \in Row
  BY <1>2, SetLive
<1>4. [row[r] EXCEPT !.state = "blocked", !.revision = row[r].revision + 1, !.live = FALSE, !.failure = code] \in Row
  BY <1>3, SetFailure
<1>5. Blocked(r, code) \in Row
  BY <1>4 DEF Blocked
<1> QED
  BY <1>5 DEF Blocked, Row

\* What the clock makes of a row.
LEMMA LapsedRow ==
  ASSUME NEW r \in Requests, row[r] \in Row
  PROVE  /\ Lapsed(r) \in Row
         /\ Lapsed(r).state = row[r].state
         /\ Lapsed(r).revision = row[r].revision
         /\ Lapsed(r).token = row[r].token
         /\ Lapsed(r).live = FALSE
         /\ Lapsed(r).expected = row[r].expected
         /\ Lapsed(r).claimed = row[r].claimed
         /\ Lapsed(r).adopted = row[r].adopted
         /\ Lapsed(r).pins = row[r].pins
         /\ Lapsed(r).receipts = row[r].receipts
         /\ Lapsed(r).publication = row[r].publication
         /\ Lapsed(r).pubId = row[r].pubId
         /\ Lapsed(r).included = row[r].included
         /\ Lapsed(r).logs = row[r].logs
<1>1. [row[r] EXCEPT !.live = FALSE] \in Row
  BY SetLive
<1>2. Lapsed(r) \in Row
  BY <1>1 DEF Lapsed
<1> QED
  BY <1>2 DEF Lapsed, Row

\* A row as it is inserted.
LEMMA ReceivedRow ==
  ASSUME NEW g \in Generations, NEW cohort \in SUBSET Deviations
  PROVE  /\ Received(g, cohort) \in Row
         /\ Received(g, cohort).state = "received"
         /\ Received(g, cohort).adopted = None
         /\ Received(g, cohort).pins = None
         /\ Received(g, cohort).receipts = None
         /\ Received(g, cohort).pubId = None
         /\ Received(g, cohort).included = cohort
         /\ Received(g, cohort).logs = 0
  BY DEF Received, NoRow, Row, States

----------------------------------------------------------------------------
(* Steps that change one row.                                              *)

\* Replacing one row by another keeps the types and every other row.
LEMMA OneRowChanges ==
  ASSUME QueueTypeOK, NEW r \in Requests, NEW x \in Row,
         row' = [row EXCEPT ![r] = x], UNCHANGED consent
  PROVE  /\ QueueTypeOK'
         /\ row'[r] = x
         /\ \A q \in Requests : q # r => row'[q] = row[q]
  BY DEF QueueTypeOK

\* What each row is, and which ids are whose.
LEMMA RowsTyped ==
  ASSUME QueueTypeOK, QueueAssumption
  PROVE  /\ \A r \in Requests : row[r] \in Row
         /\ \A r \in Requests : row[r].pubId \in {None} \cup Publications
         /\ \A r \in Requests : row[r].included \subseteq Deviations
         /\ \A r \in Requests : row[r].state \in States
         /\ Requests = Deviations \cup Publications
         /\ Deviations \cap Publications = {}
         /\ None \notin Requests
  BY DEF QueueTypeOK, QueueAssumption, Requests, Row

\* The columns the invariant speaks of are what they were.
SameCore ==
  \A r \in Requests :
    /\ row'[r].state = row[r].state
    /\ row'[r].adopted = row[r].adopted
    /\ row'[r].pins = row[r].pins
    /\ row'[r].receipts = row[r].receipts
    /\ row'[r].pubId = row[r].pubId
    /\ row'[r].included = row[r].included
    /\ row'[r].logs = row[r].logs

\* A step that leaves those columns alone (a renewal, an expiry, a change of
\* consent) keeps the invariant.
LEMMA SameCoreKeepsInv ==
  ASSUME QueueInv, QueueAssumption, SameCore, QueueTypeOK'
  PROVE  QueueInv'
<1> USE RowsTyped DEF QueueInv, SameCore
<1>1. CohortsDisjoint'
  BY DEF CohortsDisjoint, Pending, Terminal
<1>2. LaterCorrectionsWait'
  BY DEF LaterCorrectionsWait, Pending, Terminal
<1>3. PublicOnlyWithAuditLog'
  BY DEF PublicOnlyWithAuditLog
<1>4. PinnedNeverReleased'
  BY DEF PinnedNeverReleased
<1>5. MembersExist'
  BY DEF MembersExist, Active
<1>6. ConfirmedTogether'
  BY DEF ConfirmedTogether
<1>7. AdoptionLogged'
  BY DEF AdoptionLogged
<1>8. GeneratedIsPinned'
  BY DEF GeneratedIsPinned
<1> QED
  BY <1>1, <1>2, <1>3, <1>4, <1>5, <1>6, <1>7, <1>8

\* A new correction is in no cohort, so nothing depends on its row yet.
LEMMA RequestDeviationKeepsInv ==
  ASSUME QueueInv, QueueAssumption,
         NEW d \in Deviations, NEW g \in Generations, RequestDeviation(d, g)
  PROVE  QueueInv'
<1> DEFINE x == Received(g, {})
<1>1. x \in Row /\ x.state = "received" /\ x.adopted = None /\ x.pins = None
      /\ x.pubId = None /\ x.included = {} /\ x.logs = 0
  BY ReceivedRow
<1>2. d \in Requests /\ row' = [row EXCEPT ![d] = x] /\ UNCHANGED consent
      /\ row[d].state = "absent"
  BY DEF RequestDeviation, Requests
<1> HIDE DEF x
<1>3. /\ QueueTypeOK' /\ row'[d] = x
      /\ \A q \in Requests : q # d => row'[q] = row[q]
  BY <1>1, <1>2, OneRowChanges DEF QueueInv
<1>4. \A p \in Publications : Active(p) => d \notin row[p].included
  BY <1>2 DEF QueueInv, MembersExist
<1> USE RowsTyped, <1>1, <1>2, <1>3, <1>4 DEF QueueInv
<1>a. CohortsDisjoint'
  BY DEF CohortsDisjoint, Pending, Terminal, Active
<1>b. LaterCorrectionsWait'
  BY DEF LaterCorrectionsWait, Pending, Terminal
<1>c. PublicOnlyWithAuditLog'
  BY DEF PublicOnlyWithAuditLog
<1>d. PinnedNeverReleased'
  BY DEF PinnedNeverReleased, Active
<1>e. MembersExist'
  BY DEF MembersExist, Active
<1>f. ConfirmedTogether'
  BY DEF ConfirmedTogether, Active
<1>g. AdoptionLogged'
  BY DEF AdoptionLogged
<1>h. GeneratedIsPinned'
  BY DEF GeneratedIsPinned
<1> QED
  BY <1>a, <1>b, <1>c, <1>d, <1>e, <1>f, <1>g, <1>h

\* A claim resumes what the row had reached, and a correction is claimed only
\* inside the pending cohort.
LEMMA ClaimKeepsInv ==
  ASSUME QueueInv, QueueAssumption,
         NEW r \in Requests, NEW rev, NEW src \in Sources, Claim(r, rev, src)
  PROVE  QueueInv'
<1> DEFINE x == Claimed(r, src)
<1>1. /\ x \in Row /\ x.state = ResumedState(r) /\ x.adopted = row[r].adopted
      /\ x.pins = row[r].pins /\ x.receipts = row[r].receipts
      /\ x.pubId = row[r].pubId /\ x.included = row[r].included
      /\ x.logs = row[r].logs
  <2>1. row[r] \in Row
    BY RowsTyped DEF QueueInv
  <2> QED
    BY <2>1, ClaimedRow
<1>2. /\ row' = [row EXCEPT ![r] = x] /\ UNCHANGED consent
      /\ row[r].state \notin {"absent", "publication_confirmed", "rejected"}
      /\ r \in Deviations => InPendingCohort(r)
  BY DEF Claim, Terminal
<1> HIDE DEF x
<1>3. /\ QueueTypeOK' /\ row'[r] = x
      /\ \A q \in Requests : q # r => row'[q] = row[q]
  BY <1>1, <1>2, OneRowChanges DEF QueueInv
<1>4. x.state \in {"generated", "adopted", "claimed"}
  BY <1>1 DEF ResumedState
<1>5. r \in Deviations =>
        x.state = IF row[r].adopted # None THEN "adopted" ELSE "claimed"
  BY <1>1 DEF ResumedState, QueueInv, AdoptionLogged
<1>6. r \in Publications =>
        x.state = IF row[r].pins # None THEN "generated" ELSE "claimed"
  BY <1>1, RowsTyped DEF ResumedState, QueueInv
<1> USE RowsTyped, <1>1, <1>2, <1>3, <1>4, <1>5, <1>6 DEF QueueInv
<1>a. CohortsDisjoint'
  BY DEF CohortsDisjoint, Pending, Terminal
<1>b. LaterCorrectionsWait'
  BY DEF LaterCorrectionsWait, Pending, Terminal, InPendingCohort
<1>c. PublicOnlyWithAuditLog'
  BY DEF PublicOnlyWithAuditLog
<1>d. PinnedNeverReleased'
  BY DEF PinnedNeverReleased
<1>e. MembersExist'
  BY DEF MembersExist, Active
<1>f. ConfirmedTogether'
  BY DEF ConfirmedTogether
<1>g. AdoptionLogged'
  BY DEF AdoptionLogged
<1>h. GeneratedIsPinned'
  BY DEF GeneratedIsPinned
<1> QED
  BY <1>a, <1>b, <1>c, <1>d, <1>e, <1>f, <1>g, <1>h

\* An adoption is logged in the same step, once.
LEMMA AckAdoptedKeepsInv ==
  ASSUME QueueInv, QueueAssumption,
         NEW d \in Deviations, NEW tok, NEW src \in Sources, AckAdopted(d, tok, src)
  PROVE  QueueInv'
<1> DEFINE x == Adopted(d, src)
<1>1. /\ x \in Row /\ x.state = "adopted" /\ x.adopted = src
      /\ x.pins = row[d].pins /\ x.receipts = row[d].receipts
      /\ x.pubId = row[d].pubId /\ x.included = row[d].included
      /\ x.logs = row[d].logs + 1
  BY RowsTyped, AdoptedRow DEF QueueInv, Requests
<1>2. /\ d \in Requests /\ row' = [row EXCEPT ![d] = x] /\ UNCHANGED consent
      /\ row[d].state = "claimed"
  BY DEF AckAdopted, Requests
<1> HIDE DEF x
<1>3. /\ QueueTypeOK' /\ row'[d] = x
      /\ \A q \in Requests : q # d => row'[q] = row[q]
  BY <1>1, <1>2, OneRowChanges DEF QueueInv
<1>4. row[d].logs = 0 /\ src # None
  BY <1>2 DEF QueueInv, AdoptionLogged, QueueAssumption
<1> USE RowsTyped, <1>1, <1>2, <1>3, <1>4 DEF QueueInv
<1>a. CohortsDisjoint'
  BY DEF CohortsDisjoint, Pending, Terminal
<1>b. LaterCorrectionsWait'
  BY DEF LaterCorrectionsWait, Pending, Terminal
<1>c. PublicOnlyWithAuditLog'
  BY DEF PublicOnlyWithAuditLog
<1>d. PinnedNeverReleased'
  BY DEF PinnedNeverReleased
<1>e. MembersExist'
  BY DEF MembersExist, Active
<1>f. ConfirmedTogether'
  BY DEF ConfirmedTogether
<1>g. AdoptionLogged'
  BY DEF AdoptionLogged
<1>h. GeneratedIsPinned'
  BY DEF GeneratedIsPinned
<1> QED
  BY <1>a, <1>b, <1>c, <1>d, <1>e, <1>f, <1>g, <1>h

\* A failure blocks the row and loses nothing it has reached.
LEMMA FailKeepsInv ==
  ASSUME QueueInv, QueueAssumption,
         NEW r \in Requests, NEW tok, NEW code \in FailureCodes, Fail(r, tok, code)
  PROVE  QueueInv'
<1> DEFINE x == Blocked(r, code)
<1>1. /\ x \in Row /\ x.state = "blocked" /\ x.adopted = row[r].adopted
      /\ x.pins = row[r].pins /\ x.receipts = row[r].receipts
      /\ x.pubId = row[r].pubId /\ x.included = row[r].included
      /\ x.logs = row[r].logs
  BY RowsTyped, BlockedRow DEF QueueInv
<1>2. /\ row' = [row EXCEPT ![r] = x] /\ UNCHANGED consent
      /\ row[r].state \notin {"absent", "publication_confirmed", "rejected"}
  BY DEF Fail, Failable, Terminal
<1> HIDE DEF x
<1>3. /\ QueueTypeOK' /\ row'[r] = x
      /\ \A q \in Requests : q # r => row'[q] = row[q]
  BY <1>1, <1>2, OneRowChanges DEF QueueInv
<1> USE RowsTyped, <1>1, <1>2, <1>3 DEF QueueInv
<1>a. CohortsDisjoint'
  BY DEF CohortsDisjoint, Pending, Terminal
<1>b. LaterCorrectionsWait'
  BY DEF LaterCorrectionsWait, Pending, Terminal
<1>c. PublicOnlyWithAuditLog'
  BY DEF PublicOnlyWithAuditLog
<1>d. PinnedNeverReleased'
  BY DEF PinnedNeverReleased
<1>e. MembersExist'
  BY DEF MembersExist, Active
<1>f. ConfirmedTogether'
  BY DEF ConfirmedTogether
<1>g. AdoptionLogged'
  BY DEF AdoptionLogged
<1>h. GeneratedIsPinned'
  BY DEF GeneratedIsPinned
<1> QED
  BY <1>a, <1>b, <1>c, <1>d, <1>e, <1>f, <1>g, <1>h

\* Only a correction without an adoption is rejected, so none is left logged.
LEMMA RejectDeviationKeepsInv ==
  ASSUME QueueInv, QueueAssumption,
         NEW d \in Deviations, NEW rev, RejectDeviation(d, rev)
  PROVE  QueueInv'
<1> DEFINE x == Rejected(d)
<1>1. /\ x \in Row /\ x.state = "rejected" /\ x.adopted = row[d].adopted
      /\ x.pins = row[d].pins /\ x.receipts = row[d].receipts
      /\ x.pubId = row[d].pubId /\ x.included = row[d].included
      /\ x.logs = row[d].logs
  BY RowsTyped, RejectedRow DEF QueueInv, Requests
<1>2. /\ d \in Requests /\ row' = [row EXCEPT ![d] = x] /\ UNCHANGED consent
      /\ row[d].state \notin {"absent", "publication_confirmed", "rejected"}
      /\ row[d].logs = 0
  BY DEF RejectDeviation, RejectGuard, Unadopted, Terminal, Requests
<1> HIDE DEF x
<1>3. /\ QueueTypeOK' /\ row'[d] = x
      /\ \A q \in Requests : q # d => row'[q] = row[q]
  BY <1>1, <1>2, OneRowChanges DEF QueueInv
<1> USE RowsTyped, <1>1, <1>2, <1>3 DEF QueueInv
<1>a. CohortsDisjoint'
  BY DEF CohortsDisjoint, Pending, Terminal
<1>b. LaterCorrectionsWait'
  BY DEF LaterCorrectionsWait, Pending, Terminal
<1>c. PublicOnlyWithAuditLog'
  BY DEF PublicOnlyWithAuditLog
<1>d. PinnedNeverReleased'
  BY DEF PinnedNeverReleased
<1>e. MembersExist'
  BY DEF MembersExist, Active
<1>f. ConfirmedTogether'
  BY DEF ConfirmedTogether
<1>g. AdoptionLogged'
  BY DEF AdoptionLogged
<1>h. GeneratedIsPinned'
  BY DEF GeneratedIsPinned
<1> QED
  BY <1>a, <1>b, <1>c, <1>d, <1>e, <1>f, <1>g, <1>h

\* A renewal changes the revision only.
LEMMA RenewKeepsInv ==
  ASSUME QueueInv, QueueAssumption,
         NEW r \in Requests, NEW tok, NEW rev, Renew(r, tok, rev)
  PROVE  QueueInv'
<1> DEFINE x == Renewed(r)
<1>1. /\ x \in Row /\ x.state = row[r].state /\ x.adopted = row[r].adopted
      /\ x.pins = row[r].pins /\ x.receipts = row[r].receipts
      /\ x.pubId = row[r].pubId /\ x.included = row[r].included
      /\ x.logs = row[r].logs
  BY RowsTyped, RenewedRow DEF QueueInv
<1>2. row' = [row EXCEPT ![r] = x] /\ UNCHANGED consent
  BY DEF Renew
<1> HIDE DEF x
<1>3. /\ QueueTypeOK' /\ row'[r] = x
      /\ \A q \in Requests : q # r => row'[q] = row[q]
  BY <1>1, <1>2, OneRowChanges DEF QueueInv
<1>4. SameCore
  BY <1>1, <1>3 DEF SameCore
<1> QED
  BY <1>3, <1>4, SameCoreKeepsInv

\* So does the clock, with the lease.
LEMMA LeaseExpiresKeepsInv ==
  ASSUME QueueInv, QueueAssumption, NEW r \in Requests, LeaseExpires(r)
  PROVE  QueueInv'
<1> DEFINE x == Lapsed(r)
<1>1. /\ x \in Row /\ x.state = row[r].state /\ x.adopted = row[r].adopted
      /\ x.pins = row[r].pins /\ x.receipts = row[r].receipts
      /\ x.pubId = row[r].pubId /\ x.included = row[r].included
      /\ x.logs = row[r].logs
  BY RowsTyped, LapsedRow DEF QueueInv
<1>2. row' = [row EXCEPT ![r] = x] /\ UNCHANGED consent
  BY DEF LeaseExpires
<1> HIDE DEF x
<1>3. /\ QueueTypeOK' /\ row'[r] = x
      /\ \A q \in Requests : q # r => row'[q] = row[q]
  BY <1>1, <1>2, OneRowChanges DEF QueueInv
<1>4. SameCore
  BY <1>1, <1>3 DEF SameCore
<1> QED
  BY <1>3, <1>4, SameCoreKeepsInv

\* Submissions come and go without touching a row.
LEMMA ConsentChangesKeepsInv ==
  ASSUME QueueInv, QueueAssumption, NEW d \in Deviations, ConsentChanges(d)
  PROVE  QueueInv'
<1>1. QueueTypeOK' /\ SameCore
  BY DEF ConsentChanges, QueueInv, QueueTypeOK, SameCore
<1> QED
  BY <1>1, SameCoreKeepsInv

----------------------------------------------------------------------------
(* Steps that change a publication and its members.                        *)

\* A new publication takes the open corrections, and those alone: nothing else
\* can be claimed, because what is bound already is confirmed with its own.
LEMMA RequestPublicationKeepsInv ==
  ASSUME QueueInv, QueueAssumption,
         NEW p \in Publications, NEW g \in Generations, RequestPublication(p, g)
  PROVE  QueueInv'
<1> DEFINE x == Received(g, OpenCohort)
<1> DEFINE y(d) == BoundTo(p, d)
<1>1. /\ x \in Row /\ x.state = "received" /\ x.adopted = None /\ x.pins = None
      /\ x.receipts = None /\ x.pubId = None /\ x.included = OpenCohort
      /\ x.logs = 0
  BY ReceivedRow DEF OpenCohort
<1>2. \A d \in Deviations :
        /\ y(d) \in Row /\ y(d).state = row[d].state
        /\ y(d).adopted = row[d].adopted /\ y(d).pins = row[d].pins
        /\ y(d).receipts = row[d].receipts /\ y(d).pubId = p
        /\ y(d).included = row[d].included /\ y(d).logs = row[d].logs
  BY RowsTyped, BoundRow DEF QueueInv
<1>3. /\ row' = [r \in Requests |-> IF r = p THEN x
                                    ELSE IF r \in OpenCohort THEN y(r) ELSE row[r]]
      /\ UNCHANGED consent
      /\ row[p].state = "absent"
      /\ \A q \in Publications : ~ Pending(q)
  BY DEF RequestPublication
<1> HIDE DEF x, y
<1>4. \A d \in Deviations : d \in OpenCohort <=>
        row[d].state \in {"received", "claimed", "adopted"} /\ row[d].pubId = None
  BY DEF OpenCohort
<1>5. OpenCohort \subseteq Deviations
  BY DEF OpenCohort
<1>6. /\ row'[p] = x
      /\ \A d \in OpenCohort : row'[d] = y(d)
      /\ \A q \in Publications : q # p => row'[q] = row[q]
      /\ \A d \in Deviations \ OpenCohort : row'[d] = row[d]
  BY <1>3, <1>5, RowsTyped DEF QueueInv
<1>7. QueueTypeOK'
  BY <1>1, <1>2, <1>3, <1>5, RowsTyped DEF QueueInv, QueueTypeOK
<1>8. \A d \in Deviations : row[d].state = "claimed" => d \in OpenCohort
  <2> SUFFICES ASSUME NEW d \in Deviations, row[d].state = "claimed",
                      row[d].pubId # None
               PROVE  FALSE
    BY <1>4
  <2>1. row[d].pubId \in Publications /\ d \in row[row[d].pubId].included
    BY RowsTyped DEF QueueInv, CohortsDisjoint, Requests
  <2>2. row[row[d].pubId].state = "publication_confirmed"
    BY <1>3, <2>1 DEF QueueInv, CohortsDisjoint, MembersExist, Pending, Terminal
  <2> QED
    BY <2>1, <2>2 DEF QueueInv, ConfirmedTogether
<1> USE RowsTyped, <1>1, <1>2, <1>3, <1>4, <1>5, <1>6, <1>7, <1>8 DEF QueueInv
<1>a. CohortsDisjoint'
  <2>1. \A q \in Publications : Pending(q)' => q = p
    BY DEF Pending
  <2>2. \A q \in Publications : Active(q)' => q = p \/ Active(q)
    BY DEF Active
  <2>3. ASSUME NEW q \in Publications, Active(q)', NEW d \in row'[q].included
        PROVE  row'[d].pubId = q
    BY <2>2, <2>3 DEF CohortsDisjoint, Active
  <2>4. ASSUME NEW d \in Deviations, row'[d].pubId # None
        PROVE  /\ d \in row'[row'[d].pubId].included
               /\ row'[row'[d].pubId].state # "rejected"
    <3>1. CASE d \in OpenCohort
      BY <3>1
    <3>2. CASE d \notin OpenCohort
      <4>1. row'[d].pubId = row[d].pubId /\ row[d].pubId \in Publications
        BY <2>4, <3>2
      <4>2. row[d].pubId # p
        BY <2>4, <4>1 DEF MembersExist
      <4> QED
        BY <2>4, <4>1, <4>2 DEF CohortsDisjoint
    <3> QED
      BY <3>1, <3>2
  <2> QED
    BY ONLY <2>1, <2>3, <2>4 DEF CohortsDisjoint, Active
<1>b. LaterCorrectionsWait'
  BY DEF LaterCorrectionsWait, Pending, Terminal
<1>c. PublicOnlyWithAuditLog'
  BY DEF PublicOnlyWithAuditLog
<1>d. PinnedNeverReleased'
  BY DEF PinnedNeverReleased
<1>e. MembersExist'
  BY DEF MembersExist, Active
<1>f. ConfirmedTogether'
  BY DEF ConfirmedTogether
<1>g. AdoptionLogged'
  BY DEF AdoptionLogged
<1>h. GeneratedIsPinned'
  BY DEF GeneratedIsPinned
<1> QED
  BY <1>a, <1>b, <1>c, <1>d, <1>e, <1>f, <1>g, <1>h

\* A publish ACK: the publication becomes x, every member y.
LEMMA AckGeneratedKeepsInv ==
  ASSUME QueueInv, QueueAssumption, NEW p \in Publications, NEW tok,
         NEW src \in Sources, NEW pins \in Pins, NEW recs \in SUBSET Deviations,
         AckGenerated(p, tok, src, pins, recs)
  PROVE  QueueInv'
<1> DEFINE x == Generated(p, src, pins, recs)
<1> DEFINE y(d) == AtStage(d, "generated")
<1> DEFINE members == row[p].included
<1>1. /\ x \in Row /\ x.state = "generated" /\ x.adopted = src /\ x.pins = pins
      /\ x.receipts = recs /\ x.pubId = row[p].pubId /\ x.included = members
      /\ x.logs = row[p].logs
  BY RowsTyped, GeneratedRow DEF QueueInv, Requests
<1>2. \A d \in Deviations :
        /\ y(d) \in Row /\ y(d).state = "generated"
        /\ y(d).adopted = row[d].adopted /\ y(d).pins = row[d].pins
        /\ y(d).receipts = row[d].receipts /\ y(d).pubId = row[d].pubId
        /\ y(d).included = row[d].included /\ y(d).logs = row[d].logs
  BY RowsTyped, StageRow DEF QueueInv, States, Requests
<1>3. /\ row' = [r \in Requests |-> IF r = p THEN x
                                    ELSE IF r \in members THEN y(r) ELSE row[r]]
      /\ UNCHANGED consent
      /\ row[p].state = "claimed" /\ recs = members
      /\ \A d \in members : row[d].state = "adopted"
  BY DEF AckGenerated, Advance
<1>4. members \subseteq Deviations /\ pins # None
  BY RowsTyped DEF QueueInv, QueueAssumption, Requests
<1> HIDE DEF x, y
<1>5. /\ row'[p] = x
      /\ \A d \in members : row'[d] = y(d)
      /\ \A q \in Publications : q # p => row'[q] = row[q]
      /\ \A d \in Deviations \ members : row'[d] = row[d]
  BY <1>3, <1>4, RowsTyped DEF QueueInv
<1>6. QueueTypeOK'
  BY <1>1, <1>2, <1>3, <1>4, RowsTyped DEF QueueInv, QueueTypeOK
<1> USE RowsTyped, <1>1, <1>2, <1>3, <1>4, <1>5, <1>6 DEF QueueInv
<1>a. CohortsDisjoint'
  <2>1. \A q \in Publications : Pending(q)' => Pending(q)
    BY DEF Pending, Terminal
  <2>2. \A q \in Publications : Active(q)' <=> Active(q)
    BY DEF Active
  <2>3. \A r \in Requests : /\ row'[r].pubId = row[r].pubId
                           /\ row'[r].included = row[r].included
    OBVIOUS
  <2>4. ASSUME NEW d \in Deviations, row'[d].pubId # None
        PROVE  /\ d \in row'[row'[d].pubId].included
               /\ row'[row'[d].pubId].state # "rejected"
    <3>1. PICK q \in Publications : row[d].pubId = q /\ row'[d].pubId = q
      BY <2>3, <2>4
    <3>2. d \in row[q].included /\ row[q].state # "rejected"
      BY <3>1 DEF CohortsDisjoint
    <3>3. row'[q].included = row[q].included
      BY ONLY <2>3, <3>1, q \in Publications DEF Requests
    <3>4. row'[q].state # "rejected"
      BY ONLY <1>1, <1>5, <3>2, q \in Publications
    <3> QED
      BY ONLY <3>1, <3>2, <3>3, <3>4
  <2>5. \A q \in Publications : Active(q)' =>
          \A d \in row'[q].included : row'[d].pubId = q
    BY <2>2, <2>3 DEF CohortsDisjoint, Active
  <2>6. \A q, o \in Publications : Pending(q)' /\ Pending(o)' => q = o
    BY <2>1 DEF CohortsDisjoint
  <2> QED
    BY ONLY <2>4, <2>5, <2>6 DEF CohortsDisjoint, Active
<1>b. LaterCorrectionsWait'
  BY DEF LaterCorrectionsWait, Pending, Terminal
<1>c. PublicOnlyWithAuditLog'
  BY DEF PublicOnlyWithAuditLog
<1>d. PinnedNeverReleased'
  <2>1. \A d \in Deviations : row'[d].adopted = row[d].adopted
    OBVIOUS
  <2>2. \A d \in members : row[d].adopted # None
    BY DEF AdoptionLogged
  <2> QED
    BY <2>1, <2>2 DEF PinnedNeverReleased
<1>e. MembersExist'
  BY DEF MembersExist, Active
<1>f. ConfirmedTogether'
  BY DEF ConfirmedTogether
<1>g. AdoptionLogged'
  BY DEF AdoptionLogged
<1>h. GeneratedIsPinned'
  BY DEF GeneratedIsPinned
<1> QED
  BY <1>a, <1>b, <1>c, <1>d, <1>e, <1>f, <1>g, <1>h

\* A confirmation reaches members that all are adopted, hence logged.
LEMMA AckConfirmedKeepsInv ==
  ASSUME QueueInv, QueueAssumption, NEW p \in Publications, NEW tok, NEW src,
         NEW pins, NEW recs, NEW ev \in Evidence,
         AckConfirmed(p, tok, src, pins, recs, ev)
  PROVE  QueueInv'
<1> DEFINE x == Confirmed(p, ev)
<1> DEFINE y(d) == AtStage(d, "publication_confirmed")
<1> DEFINE members == row[p].included
<1>1. /\ x \in Row /\ x.state = "publication_confirmed"
      /\ x.adopted = row[p].adopted /\ x.pins = row[p].pins
      /\ x.receipts = row[p].receipts /\ x.pubId = row[p].pubId
      /\ x.included = members /\ x.logs = row[p].logs
  BY RowsTyped, ConfirmedRow DEF QueueInv, Requests
<1>2. \A d \in Deviations :
        /\ y(d) \in Row /\ y(d).state = "publication_confirmed"
        /\ y(d).adopted = row[d].adopted /\ y(d).pins = row[d].pins
        /\ y(d).receipts = row[d].receipts /\ y(d).pubId = row[d].pubId
        /\ y(d).included = row[d].included /\ y(d).logs = row[d].logs
  BY RowsTyped, StageRow DEF QueueInv, States, Requests
<1>3. /\ row' = [r \in Requests |-> IF r = p THEN x
                                    ELSE IF r \in members THEN y(r) ELSE row[r]]
      /\ UNCHANGED consent
      /\ row[p].state = "generated"
  BY DEF AckConfirmed, Advance
<1>4. members \subseteq Deviations
  BY RowsTyped DEF QueueInv, Requests
<1>5. \A d \in members : row[d].adopted # None /\ row[d].logs = 1
                         /\ row[d].pubId = p
  BY <1>3, <1>4 DEF QueueInv, GeneratedIsPinned, PinnedNeverReleased,
                   AdoptionLogged, CohortsDisjoint
<1> HIDE DEF x, y
<1>6. /\ row'[p] = x
      /\ \A d \in members : row'[d] = y(d)
      /\ \A q \in Publications : q # p => row'[q] = row[q]
      /\ \A d \in Deviations \ members : row'[d] = row[d]
  BY <1>3, <1>4, RowsTyped DEF QueueInv
<1>7. QueueTypeOK'
  BY <1>1, <1>2, <1>3, <1>4, RowsTyped DEF QueueInv, QueueTypeOK
<1> USE RowsTyped, <1>1, <1>2, <1>3, <1>4, <1>5, <1>6, <1>7 DEF QueueInv
<1>a. CohortsDisjoint'
  <2>1. \A q \in Publications : Pending(q)' => Pending(q)
    BY DEF Pending, Terminal
  <2>2. \A q \in Publications : Active(q)' <=> Active(q)
    BY DEF Active
  <2>3. \A r \in Requests : /\ row'[r].pubId = row[r].pubId
                           /\ row'[r].included = row[r].included
    OBVIOUS
  <2>4. ASSUME NEW d \in Deviations, row'[d].pubId # None
        PROVE  /\ d \in row'[row'[d].pubId].included
               /\ row'[row'[d].pubId].state # "rejected"
    <3>1. PICK q \in Publications : row[d].pubId = q /\ row'[d].pubId = q
      BY <2>3, <2>4
    <3>2. d \in row[q].included /\ row[q].state # "rejected"
      BY <3>1 DEF CohortsDisjoint
    <3>3. row'[q].included = row[q].included
      BY ONLY <2>3, <3>1, q \in Publications DEF Requests
    <3>4. row'[q].state # "rejected"
      BY ONLY <1>1, <1>6, <3>2, q \in Publications
    <3> QED
      BY ONLY <3>1, <3>2, <3>3, <3>4
  <2>5. \A q \in Publications : Active(q)' =>
          \A d \in row'[q].included : row'[d].pubId = q
    BY <2>2, <2>3 DEF CohortsDisjoint, Active
  <2>6. \A q, o \in Publications : Pending(q)' /\ Pending(o)' => q = o
    BY <2>1 DEF CohortsDisjoint
  <2> QED
    BY ONLY <2>4, <2>5, <2>6 DEF CohortsDisjoint, Active
<1>b. LaterCorrectionsWait'
  BY DEF LaterCorrectionsWait, Pending, Terminal
<1>c. PublicOnlyWithAuditLog'
  BY DEF PublicOnlyWithAuditLog
<1>d. PinnedNeverReleased'
  BY DEF PinnedNeverReleased
<1>e. MembersExist'
  BY DEF MembersExist, Active
<1>f. ConfirmedTogether'
  BY DEF ConfirmedTogether
<1>g. AdoptionLogged'
  BY DEF AdoptionLogged
<1>h. GeneratedIsPinned'
  BY DEF GeneratedIsPinned
<1> QED
  BY <1>a, <1>b, <1>c, <1>d, <1>e, <1>f, <1>g, <1>h

\* A rejected publication lets go of exactly what was bound to it.
LEMMA RejectPublicationKeepsInv ==
  ASSUME QueueInv, QueueAssumption,
         NEW p \in Publications, NEW rev, RejectPublication(p, rev)
  PROVE  QueueInv'
<1> DEFINE x == Rejected(p)
<1> DEFINE y(d) == Released(d)
<1> DEFINE members == row[p].included
<1>1. /\ x \in Row /\ x.state = "rejected" /\ x.adopted = row[p].adopted
      /\ x.pins = row[p].pins /\ x.receipts = row[p].receipts
      /\ x.pubId = row[p].pubId /\ x.included = members
      /\ x.logs = row[p].logs
  BY RowsTyped, RejectedRow DEF QueueInv, Requests
<1>2. \A d \in Deviations :
        /\ y(d) \in Row /\ y(d).state = row[d].state
        /\ y(d).adopted = row[d].adopted /\ y(d).pins = row[d].pins
        /\ y(d).receipts = row[d].receipts /\ y(d).pubId = None
        /\ y(d).included = row[d].included /\ y(d).logs = row[d].logs
  BY RowsTyped, ReleasedRow DEF QueueInv, Requests
<1>3. /\ row' = [r \in Requests |-> IF r = p THEN x
                                    ELSE IF r \in members THEN y(r) ELSE row[r]]
      /\ UNCHANGED consent
      /\ row[p].state \notin {"absent", "publication_confirmed", "rejected"}
      /\ row[p].pins = None
      /\ \A d \in members : row[d].pubId = p
                             /\ row[d].state # "publication_confirmed"
  BY DEF RejectPublication, RejectGuard, Terminal
<1>4. members \subseteq Deviations
  BY RowsTyped DEF QueueInv, Requests
<1> HIDE DEF x, y
<1>5. /\ row'[p] = x
      /\ \A d \in members : row'[d] = y(d)
      /\ \A q \in Publications : q # p => row'[q] = row[q]
      /\ \A d \in Deviations \ members : row'[d] = row[d]
  BY <1>3, <1>4, RowsTyped DEF QueueInv
<1>6. QueueTypeOK'
  BY <1>1, <1>2, <1>3, <1>4, RowsTyped DEF QueueInv, QueueTypeOK
<1>7. \A d \in Deviations : row[d].pubId = p => d \in members
  BY RowsTyped DEF QueueInv, CohortsDisjoint, Requests
<1> USE RowsTyped, <1>1, <1>2, <1>3, <1>4, <1>5, <1>6, <1>7 DEF QueueInv
<1>a. CohortsDisjoint'
  <2>1. \A q \in Publications : Pending(q)' => Pending(q)
    BY DEF Pending, Terminal
  <2>2. \A q \in Publications : Active(q)' => q # p /\ Active(q)
    BY DEF Active
  <2>3. ASSUME NEW q \in Publications, Active(q)', NEW d \in row'[q].included
        PROVE  row'[d].pubId = q
    <3>1. q # p /\ Active(q) /\ d \in row[q].included /\ d \in Deviations
      BY <2>2, <2>3
    <3>2. row[d].pubId = q
      BY <3>1 DEF CohortsDisjoint, Active
    <3> QED
      BY <3>1, <3>2
  <2>4. ASSUME NEW d \in Deviations, row'[d].pubId # None
        PROVE  /\ d \in row'[row'[d].pubId].included
               /\ row'[row'[d].pubId].state # "rejected"
    <3>1. PICK q \in Publications : q # p /\ row[d].pubId = q /\ row'[d].pubId = q
      BY <2>4
    <3>2. d \in row[q].included /\ row[q].state # "rejected"
      BY <3>1 DEF CohortsDisjoint
    <3>3. row'[q] = row[q]
      BY <3>1
    <3> QED
      BY ONLY <3>1, <3>2, <3>3
  <2> QED
    BY ONLY <2>1, <2>3, <2>4, QueueInv DEF QueueInv, CohortsDisjoint, Active
<1>b. LaterCorrectionsWait'
  BY DEF LaterCorrectionsWait, Pending, Terminal
<1>c. PublicOnlyWithAuditLog'
  BY DEF PublicOnlyWithAuditLog
<1>d. PinnedNeverReleased'
  BY DEF PinnedNeverReleased
<1>e. MembersExist'
  BY DEF MembersExist, Active
<1>f. ConfirmedTogether'
  BY DEF ConfirmedTogether
<1>g. AdoptionLogged'
  BY DEF AdoptionLogged
<1>h. GeneratedIsPinned'
  BY DEF GeneratedIsPinned
<1> QED
  BY <1>a, <1>b, <1>c, <1>d, <1>e, <1>f, <1>g, <1>h

----------------------------------------------------------------------------
(* The invariant.                                                          *)

\* An empty queue satisfies it.
LEMMA InitHasInv ==
  ASSUME QueueInit, QueueAssumption
  PROVE  QueueInv
<1>1. NoRow \in Row /\ NoRow.state = "absent" /\ NoRow.adopted = None
      /\ NoRow.pins = None /\ NoRow.pubId = None /\ NoRow.logs = 0
  BY DEF NoRow, Row, States
<1>2. \A r \in Requests : row[r] = NoRow
  BY DEF QueueInit
<1>3. Deviations \subseteq Requests /\ Publications \subseteq Requests
  BY DEF Requests
<1> USE <1>1, <1>2, <1>3
<1>a. QueueTypeOK
  BY DEF QueueInit, QueueTypeOK
<1>b. CohortsDisjoint
  BY DEF CohortsDisjoint, Pending
<1>c. LaterCorrectionsWait
  BY DEF LaterCorrectionsWait
<1>d. PublicOnlyWithAuditLog
  BY DEF PublicOnlyWithAuditLog
<1>e. PinnedNeverReleased
  BY DEF PinnedNeverReleased
<1>f. MembersExist
  BY DEF MembersExist, Active
<1>g. ConfirmedTogether
  BY DEF ConfirmedTogether
<1>h. AdoptionLogged
  BY DEF AdoptionLogged
<1>i. GeneratedIsPinned
  BY DEF GeneratedIsPinned
<1> QED
  BY <1>a, <1>b, <1>c, <1>d, <1>e, <1>f, <1>g, <1>h, <1>i DEF QueueInv

\* Every call keeps it.
LEMMA NextKeepsInv ==
  ASSUME QueueInv, QueueAssumption, [QueueNext]_queueVars
  PROVE  QueueInv'
<1>1. CASE AdminCall
  BY <1>1, RequestDeviationKeepsInv, RequestPublicationKeepsInv DEF AdminCall
<1>2. ASSUME NEW r \in Requests, LeaseCall(r)
      PROVE  QueueInv'
  BY <1>2, ClaimKeepsInv, RenewKeepsInv, FailKeepsInv DEF LeaseCall
<1>3. ASSUME NEW r \in Requests, LeaseExpires(r)
      PROVE  QueueInv'
  BY <1>3, LeaseExpiresKeepsInv
<1>4. CASE AckCall
  BY <1>4, AckAdoptedKeepsInv, AckGeneratedKeepsInv, AckConfirmedKeepsInv
     DEF AckCall
<1>5. CASE RejectCall
  BY <1>5, RejectDeviationKeepsInv, RejectPublicationKeepsInv DEF RejectCall
<1>6. ASSUME NEW d \in Deviations, ConsentChanges(d)
      PROVE  QueueInv'
  BY <1>6, ConsentChangesKeepsInv
<1>7. CASE UNCHANGED queueVars
  <2>1. QueueTypeOK' /\ SameCore
    BY <1>7 DEF queueVars, QueueInv, QueueTypeOK, SameCore
  <2> QED
    BY <2>1, SameCoreKeepsInv
<1> QED
  BY <1>1, <1>2, <1>3, <1>4, <1>5, <1>6, <1>7 DEF QueueNext

\* The invariant holds throughout, whatever the queue's callers do.
LEMMA QueueIsInvariant == QueueSpec => []QueueInv
<1>1. QueueInit => QueueInv
  BY InitHasInv, QueueAssumption
<1>2. QueueInv /\ [QueueNext]_queueVars => QueueInv'
  BY NextKeepsInv, QueueAssumption
<1> QED
  BY <1>1, <1>2, PTL DEF QueueSpec

\* Rows always have the columns and values the migration's table allows.
THEOREM QueueIsTyped == QueueSpec => []QueueTypeOK
<1>1. QueueInv => QueueTypeOK
  BY DEF QueueInv
<1> QED
  BY <1>1, QueueIsInvariant, PTL

\* However requests, publications and rejections interleave, no correction is
\* ever bound to two publications and at most one publication is pending.
THEOREM CohortsStayDisjoint == QueueSpec => []CohortsDisjoint
<1>1. QueueInv => CohortsDisjoint
  BY DEF QueueInv
<1> QED
  BY <1>1, QueueIsInvariant, PTL

\* While a publication is pending, no correction outside its cohort is worked on.
THEOREM LaterCorrectionsAlwaysWait == QueueSpec => []LaterCorrectionsWait
<1>1. QueueInv => LaterCorrectionsWait
  BY DEF QueueInv
<1> QED
  BY <1>1, QueueIsInvariant, PTL

\* A correction is public only with its one log row and its publication.
THEOREM PublicIsLogged == QueueSpec => []PublicOnlyWithAuditLog
<1>1. QueueInv => PublicOnlyWithAuditLog
  BY DEF QueueInv
<1> QED
  BY <1>1, QueueIsInvariant, PTL

\* A pinned publication keeps its cohort and its members' adoptions.
THEOREM PinnedIsKept == QueueSpec => []PinnedNeverReleased
<1>1. QueueInv => PinnedNeverReleased
  BY DEF QueueInv
<1> QED
  BY <1>1, QueueIsInvariant, PTL

----------------------------------------------------------------------------
(* What no step may do.                                                    *)

\* Every confirmed or rejected row keeps its state in this step.
FinalKept ==
  \A r \in Requests : row[r].state \in Terminal => row'[r].state = row[r].state

\* A step that replaces one row that is not final yet, or keeps its state.
LEMMA OneRowKeepsFinal ==
  ASSUME QueueInv, NEW r \in Requests, NEW x, row' = [row EXCEPT ![r] = x],
         row[r].state \notin Terminal \/ x.state = row[r].state
  PROVE  FinalKept
  BY DEF FinalKept, QueueInv, QueueTypeOK

\* The ACKs overwrite the state of every member without reading it.  Before the
\* generated ACK all are adopted; before the confirming one none can have been
\* rejected, because each has its log row and a rejected one has none.
LEMMA AcksKeepFinal ==
  ASSUME QueueInv, QueueAssumption, NEW p \in Publications, NEW tok, NEW src,
         NEW pins, NEW recs, NEW ev,
         \/ AckGenerated(p, tok, src, pins, recs)
         \/ AckConfirmed(p, tok, src, pins, recs, ev)
  PROVE  FinalKept
<1> USE RowsTyped DEF QueueInv
<1>1. CASE AckGenerated(p, tok, src, pins, recs)
  <2>1. /\ row[p].state \notin Terminal
        /\ \A d \in row[p].included : row[d].state \notin Terminal
        /\ row' = Advance(p, "generated", Generated(p, src, pins, recs))
    BY <1>1 DEF AckGenerated, Terminal
  <2> QED
    BY <2>1 DEF Advance, FinalKept
<1>2. CASE AckConfirmed(p, tok, src, pins, recs, ev)
  <2>1. /\ row[p].state = "generated"
        /\ row' = Advance(p, "publication_confirmed", Confirmed(p, ev))
    BY <1>2 DEF AckConfirmed
  <2>2. ASSUME NEW d \in row[p].included, row[d].state \in Terminal
        PROVE  /\ d \in Deviations /\ row[d].state = "publication_confirmed"
               /\ AtStage(d, "publication_confirmed").state = row[d].state
    <3>1. d \in Deviations
      BY DEF Requests
    <3>2. row[d].logs = 1
      BY <2>1, <3>1 DEF GeneratedIsPinned, PinnedNeverReleased, AdoptionLogged
    <3>3. row[d].state = "publication_confirmed"
      BY <2>2, <3>1, <3>2 DEF PublicOnlyWithAuditLog, Terminal
    <3> QED
      BY <3>1, <3>3, StageRow DEF States, Requests
  <2> QED
    BY <2>1, <2>2 DEF Advance, FinalKept, Terminal
<1> QED
  BY <1>1, <1>2

\* Neither does the release of a cohort, nor the making of one, touch a state.
LEMMA CohortStepsKeepFinal ==
  ASSUME QueueInv, QueueAssumption, NEW p \in Publications, NEW g, NEW rev,
         RequestPublication(p, g) \/ RejectPublication(p, rev)
  PROVE  FinalKept
<1> USE RowsTyped DEF QueueInv
<1>1. CASE RequestPublication(p, g)
  <2>1. \A d \in OpenCohort : d \in Deviations /\ row[d].state \notin Terminal
    BY DEF OpenCohort, Terminal
  <2>2. /\ row[p].state \notin Terminal
        /\ \A r \in Requests : r # p /\ r \notin OpenCohort => row'[r] = row[r]
    BY <1>1 DEF RequestPublication, Terminal
  <2> QED
    BY <2>1, <2>2 DEF FinalKept
<1>2. CASE RejectPublication(p, rev)
  <2>1. /\ row[p].state \notin Terminal
        /\ \A r \in Requests : r # p =>
              row'[r] = IF r \in row[p].included THEN Released(r) ELSE row[r]
    BY <1>2 DEF RejectPublication, RejectGuard
  <2>2. \A d \in row[p].included :
          d \in Deviations /\ Released(d).state = row[d].state
    BY ReleasedRow DEF Requests
  <2> QED
    BY <2>1, <2>2 DEF FinalKept
<1> QED
  BY <1>1, <1>2

\* Nor does any other call.
LEMMA NextKeepsFinal ==
  ASSUME QueueInv, QueueAssumption, [QueueNext]_queueVars
  PROVE  FinalKept
<1> USE RowsTyped DEF QueueInv
<1>1. ASSUME NEW d \in Deviations, NEW g \in Generations, RequestDeviation(d, g)
      PROVE  FinalKept
  BY <1>1, OneRowKeepsFinal DEF RequestDeviation, Terminal, Requests
<1>2. ASSUME NEW r \in Requests, LeaseCall(r)
      PROVE  FinalKept
  <2>1. ASSUME NEW rev, NEW src, Claim(r, rev, src)
        PROVE  FinalKept
    BY <2>1, OneRowKeepsFinal DEF Claim
  <2>2. ASSUME NEW rev, NEW tok, Renew(r, tok, rev)
        PROVE  FinalKept
    BY <2>2, OneRowKeepsFinal DEF Renew, Terminal
  <2>3. ASSUME NEW tok, NEW code, Fail(r, tok, code)
        PROVE  FinalKept
    BY <2>3, OneRowKeepsFinal DEF Fail, Failable
  <2> QED
    BY <1>2, <2>1, <2>2, <2>3 DEF LeaseCall
<1>3. ASSUME NEW r \in Requests, LeaseExpires(r)
      PROVE  FinalKept
  BY <1>3, LapsedRow, OneRowKeepsFinal DEF LeaseExpires
<1>4. CASE AckCall
  <2>1. ASSUME NEW d \in Deviations, NEW tok, NEW src, AckAdopted(d, tok, src)
        PROVE  FinalKept
    BY <2>1, OneRowKeepsFinal DEF AckAdopted, Terminal, Requests
  <2>2. ASSUME NEW p \in Publications, NEW tok, NEW src, NEW pins, NEW recs,
               AckGenerated(p, tok, src, pins, recs)
        PROVE  FinalKept
    BY <2>2, AcksKeepFinal
  <2> QED
    BY <1>4, <2>1, <2>2, AcksKeepFinal DEF AckCall
<1>5. CASE RejectCall
  <2>1. ASSUME NEW d \in Deviations, NEW rev, RejectDeviation(d, rev)
        PROVE  FinalKept
    BY <2>1, OneRowKeepsFinal DEF RejectDeviation, RejectGuard, Requests
  <2> QED
    BY <1>5, <2>1, CohortStepsKeepFinal DEF RejectCall
<1>6. ASSUME NEW d \in Deviations, ConsentChanges(d)
      PROVE  FinalKept
  BY <1>6 DEF ConsentChanges, FinalKept
<1>7. CASE UNCHANGED queueVars
  BY <1>7 DEF queueVars, FinalKept
<1>8. CASE AdminCall
  BY <1>1, <1>8, CohortStepsKeepFinal DEF AdminCall
<1> QED
  BY <1>2, <1>3, <1>4, <1>5, <1>6, <1>7, <1>8 DEF QueueNext

\* A confirmed or rejected request never changes its state again, whatever is
\* called afterwards and with whatever stale tokens.
THEOREM FinalStatesStayFinal == QueueSpec => FinalStatesAreFinal
<1>1. QueueInv /\ [QueueNext]_queueVars => [FinalKept]_queueVars
  BY NextKeepsFinal, QueueAssumption
<1>2. FinalStatesAreFinal <=> [][FinalKept]_queueVars
  BY DEF FinalStatesAreFinal, FinalKept
<1> QED
  BY <1>1, <1>2, QueueIsInvariant, PTL DEF QueueSpec

----------------------------------------------------------------------------
(* The effect of each RPC.                                                 *)

\* No row but this one changes.
OnlyRow(r) == \A q \in Requests : q # r => row'[q] = row[q]

\* What the admin asked for stays.
SameRequest(r) ==
  /\ row'[r].expected = row[r].expected
  /\ row'[r].included = row[r].included

\* What the owner recorded stays, but perhaps the claimed source.
SameRecords(r) ==
  /\ row'[r].adopted = row[r].adopted
  /\ row'[r].pins = row[r].pins
  /\ row'[r].receipts = row[r].receipts
  /\ row'[r].publication = row[r].publication

\* What claim_school_change does to the rows.
LEMMA ClaimEffect ==
  ASSUME QueueTypeOK, QueueAssumption, NEW r \in Requests, NEW rev,
         NEW src \in Sources, Claim(r, rev, src)
  PROVE  /\ OnlyRow(r)
         /\ SameRequest(r)
         /\ SameRecords(r)
         /\ row'[r].state = ResumedState(r)
         /\ row'[r].revision = row[r].revision + 1
         /\ row'[r].token = row[r].revision + 1
         /\ row'[r].live = TRUE
         /\ row'[r].claimed = src
         /\ UNCHANGED consent
<1> DEFINE x == Claimed(r, src)
<1>1. row[r] \in Row
  BY RowsTyped
<1>2. /\ x \in Row
      /\ x.state = ResumedState(r)
      /\ x.revision = row[r].revision + 1
      /\ x.token = row[r].revision + 1
      /\ x.live = TRUE
      /\ x.expected = row[r].expected
      /\ x.claimed = src
      /\ x.adopted = row[r].adopted
      /\ x.pins = row[r].pins
      /\ x.receipts = row[r].receipts
      /\ x.publication = row[r].publication
      /\ x.included = row[r].included
  BY <1>1, ClaimedRow
<1>3. row' = [row EXCEPT ![r] = x] /\ UNCHANGED consent
  BY DEF Claim
<1> HIDE DEF x
<1>4. row'[r] = x /\ OnlyRow(r)
  BY <1>1, <1>2, <1>3, OneRowChanges DEF OnlyRow
<1> QED
  BY <1>2, <1>3, <1>4 DEF SameRequest, SameRecords

\* What renew_school_change_lease does to the rows.
LEMMA RenewEffect ==
  ASSUME QueueTypeOK, QueueAssumption, NEW r \in Requests, NEW tok, NEW rev,
         Renew(r, tok, rev)
  PROVE  /\ OnlyRow(r)
         /\ SameRequest(r)
         /\ SameRecords(r)
         /\ row'[r].state = row[r].state
         /\ row'[r].revision = row[r].revision + 1
         /\ row'[r].token = row[r].token
         /\ row'[r].live = row[r].live
         /\ row'[r].claimed = row[r].claimed
         /\ UNCHANGED consent
<1> DEFINE x == Renewed(r)
<1>1. row[r] \in Row
  BY RowsTyped
<1>2. /\ x \in Row
      /\ x.state = row[r].state
      /\ x.revision = row[r].revision + 1
      /\ x.token = row[r].token
      /\ x.live = row[r].live
      /\ x.expected = row[r].expected
      /\ x.claimed = row[r].claimed
      /\ x.adopted = row[r].adopted
      /\ x.pins = row[r].pins
      /\ x.receipts = row[r].receipts
      /\ x.publication = row[r].publication
      /\ x.included = row[r].included
  BY <1>1, RenewedRow
<1>3. row' = [row EXCEPT ![r] = x] /\ UNCHANGED consent
  BY DEF Renew
<1> HIDE DEF x
<1>4. row'[r] = x /\ OnlyRow(r)
  BY <1>1, <1>2, <1>3, OneRowChanges DEF OnlyRow
<1> QED
  BY <1>2, <1>3, <1>4 DEF SameRequest, SameRecords

\* What fail_school_change does to the rows.
LEMMA FailEffect ==
  ASSUME QueueTypeOK, QueueAssumption, NEW r \in Requests, NEW tok,
         NEW code \in FailureCodes, Fail(r, tok, code)
  PROVE  /\ OnlyRow(r)
         /\ SameRequest(r)
         /\ SameRecords(r)
         /\ row'[r].state = "blocked"
         /\ row'[r].revision = row[r].revision + 1
         /\ row'[r].token = row[r].token
         /\ row'[r].live = FALSE
         /\ row'[r].claimed = row[r].claimed
         /\ UNCHANGED consent
<1> DEFINE x == Blocked(r, code)
<1>1. row[r] \in Row
  BY RowsTyped
<1>2. /\ x \in Row
      /\ x.state = "blocked"
      /\ x.revision = row[r].revision + 1
      /\ x.token = row[r].token
      /\ x.live = FALSE
      /\ x.expected = row[r].expected
      /\ x.claimed = row[r].claimed
      /\ x.adopted = row[r].adopted
      /\ x.pins = row[r].pins
      /\ x.receipts = row[r].receipts
      /\ x.publication = row[r].publication
      /\ x.included = row[r].included
  BY <1>1, BlockedRow
<1>3. row' = [row EXCEPT ![r] = x] /\ UNCHANGED consent
  BY DEF Fail
<1> HIDE DEF x
<1>4. row'[r] = x /\ OnlyRow(r)
  BY <1>1, <1>2, <1>3, OneRowChanges DEF OnlyRow
<1> QED
  BY <1>2, <1>3, <1>4 DEF SameRequest, SameRecords

\* What the clock does to the rows.
LEMMA LapseEffect ==
  ASSUME QueueTypeOK, QueueAssumption, NEW r \in Requests, LeaseExpires(r)
  PROVE  /\ OnlyRow(r)
         /\ SameRequest(r)
         /\ SameRecords(r)
         /\ row'[r].state = row[r].state
         /\ row'[r].revision = row[r].revision
         /\ row'[r].token = row[r].token
         /\ row'[r].live = FALSE
         /\ row'[r].claimed = row[r].claimed
         /\ UNCHANGED consent
<1> DEFINE x == Lapsed(r)
<1>1. row[r] \in Row
  BY RowsTyped
<1>2. /\ x \in Row
      /\ x.state = row[r].state
      /\ x.revision = row[r].revision
      /\ x.token = row[r].token
      /\ x.live = FALSE
      /\ x.expected = row[r].expected
      /\ x.claimed = row[r].claimed
      /\ x.adopted = row[r].adopted
      /\ x.pins = row[r].pins
      /\ x.receipts = row[r].receipts
      /\ x.publication = row[r].publication
      /\ x.included = row[r].included
  BY <1>1, LapsedRow
<1>3. row' = [row EXCEPT ![r] = x] /\ UNCHANGED consent
  BY DEF LeaseExpires
<1> HIDE DEF x
<1>4. row'[r] = x /\ OnlyRow(r)
  BY <1>1, <1>2, <1>3, OneRowChanges DEF OnlyRow
<1> QED
  BY <1>2, <1>3, <1>4 DEF SameRequest, SameRecords

\* What the adopted ACK does to the rows.
LEMMA AckAdoptedEffect ==
  ASSUME QueueTypeOK, QueueAssumption, NEW d \in Deviations, NEW tok,
         NEW src \in Sources, AckAdopted(d, tok, src)
  PROVE  /\ OnlyRow(d)
         /\ SameRequest(d)
         /\ row'[d].state = "adopted"
         /\ row'[d].revision = row[d].revision + 1
         /\ row'[d].token = row[d].token
         /\ row'[d].live = row[d].live
         /\ row'[d].claimed = row[d].claimed
         /\ row'[d].adopted = src
         /\ row'[d].pins = row[d].pins
         /\ row'[d].receipts = row[d].receipts
         /\ row'[d].publication = row[d].publication
         /\ UNCHANGED consent
<1> DEFINE x == Adopted(d, src)
<1>1. d \in Requests /\ row[d] \in Row
  BY RowsTyped
<1>2. /\ x \in Row
      /\ x.state = "adopted"
      /\ x.revision = row[d].revision + 1
      /\ x.token = row[d].token
      /\ x.live = row[d].live
      /\ x.expected = row[d].expected
      /\ x.claimed = row[d].claimed
      /\ x.adopted = src
      /\ x.pins = row[d].pins
      /\ x.receipts = row[d].receipts
      /\ x.publication = row[d].publication
      /\ x.included = row[d].included
  BY <1>1, AdoptedRow
<1>3. row' = [row EXCEPT ![d] = x] /\ UNCHANGED consent
  BY DEF AckAdopted
<1> HIDE DEF x
<1>4. row'[d] = x /\ OnlyRow(d)
  BY <1>1, <1>2, <1>3, OneRowChanges DEF OnlyRow
<1> QED
  BY <1>2, <1>3, <1>4 DEF SameRequest, SameRecords

\* What the rejection of a correction does to the rows.
LEMMA RejectDeviationEffect ==
  ASSUME QueueTypeOK, QueueAssumption, NEW d \in Deviations, NEW rev,
         RejectDeviation(d, rev)
  PROVE  /\ OnlyRow(d)
         /\ SameRequest(d)
         /\ SameRecords(d)
         /\ row'[d].state = "rejected"
         /\ row'[d].revision = row[d].revision + 1
         /\ row'[d].token = row[d].token
         /\ row'[d].live = FALSE
         /\ row'[d].claimed = row[d].claimed
         /\ UNCHANGED consent
<1> DEFINE x == Rejected(d)
<1>1. d \in Requests /\ row[d] \in Row
  BY RowsTyped
<1>2. /\ x \in Row
      /\ x.state = "rejected"
      /\ x.revision = row[d].revision + 1
      /\ x.token = row[d].token
      /\ x.live = FALSE
      /\ x.expected = row[d].expected
      /\ x.claimed = row[d].claimed
      /\ x.adopted = row[d].adopted
      /\ x.pins = row[d].pins
      /\ x.receipts = row[d].receipts
      /\ x.publication = row[d].publication
      /\ x.included = row[d].included
  BY <1>1, RejectedRow
<1>3. row' = [row EXCEPT ![d] = x] /\ UNCHANGED consent
  BY DEF RejectDeviation
<1> HIDE DEF x
<1>4. row'[d] = x /\ OnlyRow(d)
  BY <1>1, <1>2, <1>3, OneRowChanges DEF OnlyRow
<1> QED
  BY <1>2, <1>3, <1>4 DEF SameRequest, SameRecords

\* What request_school_deviation does to the rows.
LEMMA RequestDeviationEffect ==
  ASSUME QueueTypeOK, QueueAssumption, NEW d \in Deviations, NEW g \in Generations,
         RequestDeviation(d, g)
  PROVE  /\ OnlyRow(d)
         /\ row[d].state = "absent"
         /\ row'[d] = Received(g, {})
         /\ Received(g, {}) \in Row
         /\ UNCHANGED consent
<1> DEFINE x == Received(g, {})
<1>1. d \in Requests /\ x \in Row
  BY RowsTyped, ReceivedRow
<1>2. /\ row[d].state = "absent"
      /\ row' = [row EXCEPT ![d] = x] /\ UNCHANGED consent
  BY DEF RequestDeviation
<1> HIDE DEF x
<1>3. row'[d] = x /\ OnlyRow(d)
  BY <1>1, <1>2, OneRowChanges DEF OnlyRow
<1> QED
  BY <1>1, <1>2, <1>3 DEF x

\* What request_school_publication does to the rows.
LEMMA RequestPublicationEffect ==
  ASSUME QueueTypeOK, QueueAssumption, NEW p \in Publications,
         NEW g \in Generations, RequestPublication(p, g)
  PROVE  /\ \A r \in Requests : r # p /\ r \notin OpenCohort => row'[r] = row[r]
         /\ row'[p] = Received(g, OpenCohort)
         /\ Received(g, OpenCohort) \in Row
         /\ \A d \in OpenCohort :
              /\ d \in Deviations /\ d # p
              /\ SameRequest(d)
              /\ SameRecords(d)
              /\ row'[d].state = row[d].state
              /\ row'[d].revision = row[d].revision
              /\ row'[d].token = row[d].token
              /\ row'[d].live = row[d].live
              /\ row'[d].claimed = row[d].claimed
              /\ row'[d].pubId = p
         /\ UNCHANGED consent
<1> DEFINE x == Received(g, OpenCohort)
<1> DEFINE y(d) == BoundTo(p, d)
<1> DEFINE members == OpenCohort
<1>1. members \in SUBSET Deviations /\ p \in Requests /\ p \notin members
  BY RowsTyped DEF OpenCohort
<1>2. /\ x \in Row
  <2>1. OpenCohort \in SUBSET Deviations
    BY DEF OpenCohort
  <2> QED
    BY <2>1, ReceivedRow
<1>3. \A d \in members :
        /\ d \in Deviations /\ d \in Requests /\ d # p
        /\ y(d).state = row[d].state
        /\ y(d).revision = row[d].revision
        /\ y(d).token = row[d].token
        /\ y(d).live = row[d].live
        /\ y(d).expected = row[d].expected
        /\ y(d).claimed = row[d].claimed
        /\ y(d).adopted = row[d].adopted
        /\ y(d).pins = row[d].pins
        /\ y(d).receipts = row[d].receipts
        /\ y(d).publication = row[d].publication
        /\ y(d).included = row[d].included
        /\ y(d).pubId = p
  <2>1. ASSUME NEW d \in members
        PROVE  d \in Deviations /\ d \in Requests /\ d # p /\ row[d] \in Row
    BY <1>1, RowsTyped
  <2> QED
    BY <2>1, BoundRow
<1>4. /\ row' = [r \in Requests |-> IF r = p THEN x
                                    ELSE IF r \in members THEN y(r) ELSE row[r]]
      /\ UNCHANGED consent
  BY DEF RequestPublication
<1> HIDE DEF x, y, members
<1>5. /\ row'[p] = x
      /\ \A d \in members : row'[d] = y(d)
      /\ \A r \in Requests : r # p /\ r \notin members => row'[r] = row[r]
  BY <1>1, <1>3, <1>4
<1>6. /\ row'[p] = x
      /\ x \in Row
  BY <1>2, <1>5 DEF SameRequest, SameRecords
<1>7. \A d \in members :
        /\ d \in Deviations /\ d # p
        /\ SameRequest(d)
        /\ SameRecords(d)
        /\ row'[d].state = row[d].state
        /\ row'[d].revision = row[d].revision
        /\ row'[d].token = row[d].token
        /\ row'[d].live = row[d].live
        /\ row'[d].claimed = row[d].claimed
        /\ row'[d].pubId = p
  BY <1>3, <1>5 DEF SameRequest, SameRecords
<1> QED
  BY <1>4, <1>5, <1>6, <1>7 DEF x, members

\* What the generated ACK does to the rows.
LEMMA AckGeneratedEffect ==
  ASSUME QueueTypeOK, QueueAssumption, NEW p \in Publications,
         NEW tok, NEW src \in Sources, NEW pins \in Pins,
         NEW recs \in SUBSET Deviations, AckGenerated(p, tok, src, pins, recs)
  PROVE  /\ \A r \in Requests : r # p /\ r \notin row[p].included => row'[r] = row[r]
         /\ SameRequest(p)
         /\ row'[p].state = "generated"
         /\ row'[p].revision = row[p].revision + 1
         /\ row'[p].token = row[p].token
         /\ row'[p].live = row[p].live
         /\ row'[p].claimed = row[p].claimed
         /\ row'[p].adopted = src
         /\ row'[p].pins = pins
         /\ row'[p].receipts = recs
         /\ row'[p].publication = row[p].publication
         /\ \A d \in row[p].included :
              /\ d \in Deviations /\ d # p
              /\ SameRequest(d)
              /\ SameRecords(d)
              /\ row'[d].state = "generated"
              /\ row'[d].revision = row[d].revision + 1
              /\ row'[d].token = row[d].token
              /\ row'[d].live = row[d].live
              /\ row'[d].claimed = row[d].claimed
              /\ row'[d].pubId = row[d].pubId
         /\ UNCHANGED consent
<1> DEFINE x == Generated(p, src, pins, recs)
<1> DEFINE y(d) == AtStage(d, "generated")
<1> DEFINE members == row[p].included
<1>1. members \in SUBSET Deviations /\ p \in Requests /\ p \notin members
  BY RowsTyped DEF OpenCohort
<1>2. /\ x \in Row
      /\ x.state = "generated"
      /\ x.revision = row[p].revision + 1
      /\ x.token = row[p].token
      /\ x.live = row[p].live
      /\ x.expected = row[p].expected
      /\ x.claimed = row[p].claimed
      /\ x.adopted = src
      /\ x.pins = pins
      /\ x.receipts = recs
      /\ x.publication = row[p].publication
      /\ x.included = row[p].included
  <2>1. p \in Requests /\ row[p] \in Row
    BY RowsTyped
  <2> QED
    BY <2>1, GeneratedRow
<1>3. \A d \in members :
        /\ d \in Deviations /\ d \in Requests /\ d # p
        /\ y(d).state = "generated"
        /\ y(d).revision = row[d].revision + 1
        /\ y(d).token = row[d].token
        /\ y(d).live = row[d].live
        /\ y(d).expected = row[d].expected
        /\ y(d).claimed = row[d].claimed
        /\ y(d).adopted = row[d].adopted
        /\ y(d).pins = row[d].pins
        /\ y(d).receipts = row[d].receipts
        /\ y(d).publication = row[d].publication
        /\ y(d).included = row[d].included
        /\ y(d).pubId = row[d].pubId
  <2>1. ASSUME NEW d \in members
        PROVE  d \in Deviations /\ d \in Requests /\ d # p /\ row[d] \in Row
    BY <1>1, RowsTyped
  <2> QED
    BY <2>1, StageRow DEF States
<1>4. /\ row' = [r \in Requests |-> IF r = p THEN x
                                    ELSE IF r \in members THEN y(r) ELSE row[r]]
      /\ UNCHANGED consent
  BY DEF AckGenerated, Advance
<1> HIDE DEF x, y, members
<1>5. /\ row'[p] = x
      /\ \A d \in members : row'[d] = y(d)
      /\ \A r \in Requests : r # p /\ r \notin members => row'[r] = row[r]
  BY <1>1, <1>3, <1>4
<1>6. /\ SameRequest(p)
      /\ row'[p].state = "generated"
      /\ row'[p].revision = row[p].revision + 1
      /\ row'[p].token = row[p].token
      /\ row'[p].live = row[p].live
      /\ row'[p].claimed = row[p].claimed
      /\ row'[p].adopted = src
      /\ row'[p].pins = pins
      /\ row'[p].receipts = recs
      /\ row'[p].publication = row[p].publication
  BY <1>2, <1>5 DEF SameRequest, SameRecords
<1>7. \A d \in members :
        /\ d \in Deviations /\ d # p
        /\ SameRequest(d)
        /\ SameRecords(d)
        /\ row'[d].state = "generated"
        /\ row'[d].revision = row[d].revision + 1
        /\ row'[d].token = row[d].token
        /\ row'[d].live = row[d].live
        /\ row'[d].claimed = row[d].claimed
        /\ row'[d].pubId = row[d].pubId
  BY <1>3, <1>5 DEF SameRequest, SameRecords
<1> QED
  BY <1>4, <1>5, <1>6, <1>7 DEF x, members

\* What the confirming ACK does to the rows.
LEMMA AckConfirmedEffect ==
  ASSUME QueueTypeOK, QueueAssumption, NEW p \in Publications,
         NEW tok, NEW src, NEW pins, NEW recs, NEW ev \in Evidence,
         AckConfirmed(p, tok, src, pins, recs, ev)
  PROVE  /\ \A r \in Requests : r # p /\ r \notin row[p].included => row'[r] = row[r]
         /\ SameRequest(p)
         /\ row'[p].state = "publication_confirmed"
         /\ row'[p].revision = row[p].revision + 1
         /\ row'[p].token = row[p].token
         /\ row'[p].live = row[p].live
         /\ row'[p].claimed = row[p].claimed
         /\ row'[p].adopted = row[p].adopted
         /\ row'[p].pins = row[p].pins
         /\ row'[p].receipts = row[p].receipts
         /\ row'[p].publication = ev
         /\ \A d \in row[p].included :
              /\ d \in Deviations /\ d # p
              /\ SameRequest(d)
              /\ SameRecords(d)
              /\ row'[d].state = "publication_confirmed"
              /\ row'[d].revision = row[d].revision + 1
              /\ row'[d].token = row[d].token
              /\ row'[d].live = row[d].live
              /\ row'[d].claimed = row[d].claimed
              /\ row'[d].pubId = row[d].pubId
         /\ UNCHANGED consent
<1> DEFINE x == Confirmed(p, ev)
<1> DEFINE y(d) == AtStage(d, "publication_confirmed")
<1> DEFINE members == row[p].included
<1>1. members \in SUBSET Deviations /\ p \in Requests /\ p \notin members
  BY RowsTyped DEF OpenCohort
<1>2. /\ x \in Row
      /\ x.state = "publication_confirmed"
      /\ x.revision = row[p].revision + 1
      /\ x.token = row[p].token
      /\ x.live = row[p].live
      /\ x.expected = row[p].expected
      /\ x.claimed = row[p].claimed
      /\ x.adopted = row[p].adopted
      /\ x.pins = row[p].pins
      /\ x.receipts = row[p].receipts
      /\ x.publication = ev
      /\ x.included = row[p].included
  <2>1. p \in Requests /\ row[p] \in Row
    BY RowsTyped
  <2> QED
    BY <2>1, ConfirmedRow
<1>3. \A d \in members :
        /\ d \in Deviations /\ d \in Requests /\ d # p
        /\ y(d).state = "publication_confirmed"
        /\ y(d).revision = row[d].revision + 1
        /\ y(d).token = row[d].token
        /\ y(d).live = row[d].live
        /\ y(d).expected = row[d].expected
        /\ y(d).claimed = row[d].claimed
        /\ y(d).adopted = row[d].adopted
        /\ y(d).pins = row[d].pins
        /\ y(d).receipts = row[d].receipts
        /\ y(d).publication = row[d].publication
        /\ y(d).included = row[d].included
        /\ y(d).pubId = row[d].pubId
  <2>1. ASSUME NEW d \in members
        PROVE  d \in Deviations /\ d \in Requests /\ d # p /\ row[d] \in Row
    BY <1>1, RowsTyped
  <2> QED
    BY <2>1, StageRow DEF States
<1>4. /\ row' = [r \in Requests |-> IF r = p THEN x
                                    ELSE IF r \in members THEN y(r) ELSE row[r]]
      /\ UNCHANGED consent
  BY DEF AckConfirmed, Advance
<1> HIDE DEF x, y, members
<1>5. /\ row'[p] = x
      /\ \A d \in members : row'[d] = y(d)
      /\ \A r \in Requests : r # p /\ r \notin members => row'[r] = row[r]
  BY <1>1, <1>3, <1>4
<1>6. /\ SameRequest(p)
      /\ row'[p].state = "publication_confirmed"
      /\ row'[p].revision = row[p].revision + 1
      /\ row'[p].token = row[p].token
      /\ row'[p].live = row[p].live
      /\ row'[p].claimed = row[p].claimed
      /\ row'[p].adopted = row[p].adopted
      /\ row'[p].pins = row[p].pins
      /\ row'[p].receipts = row[p].receipts
      /\ row'[p].publication = ev
  BY <1>2, <1>5 DEF SameRequest, SameRecords
<1>7. \A d \in members :
        /\ d \in Deviations /\ d # p
        /\ SameRequest(d)
        /\ SameRecords(d)
        /\ row'[d].state = "publication_confirmed"
        /\ row'[d].revision = row[d].revision + 1
        /\ row'[d].token = row[d].token
        /\ row'[d].live = row[d].live
        /\ row'[d].claimed = row[d].claimed
        /\ row'[d].pubId = row[d].pubId
  BY <1>3, <1>5 DEF SameRequest, SameRecords
<1> QED
  BY <1>4, <1>5, <1>6, <1>7 DEF x, members

\* What the rejection of a publication does to the rows.
LEMMA RejectPublicationEffect ==
  ASSUME QueueTypeOK, QueueAssumption, NEW p \in Publications,
         NEW rev, RejectPublication(p, rev)
  PROVE  /\ \A r \in Requests : r # p /\ r \notin row[p].included => row'[r] = row[r]
         /\ SameRequest(p)
         /\ SameRecords(p)
         /\ row'[p].state = "rejected"
         /\ row'[p].revision = row[p].revision + 1
         /\ row'[p].token = row[p].token
         /\ row'[p].live = FALSE
         /\ row'[p].claimed = row[p].claimed
         /\ \A d \in row[p].included :
              /\ d \in Deviations /\ d # p
              /\ SameRequest(d)
              /\ SameRecords(d)
              /\ row'[d].state = row[d].state
              /\ row'[d].revision = row[d].revision + 1
              /\ row'[d].token = row[d].token
              /\ row'[d].live = row[d].live
              /\ row'[d].claimed = row[d].claimed
              /\ row'[d].pubId = None
         /\ UNCHANGED consent
<1> DEFINE x == Rejected(p)
<1> DEFINE y(d) == Released(d)
<1> DEFINE members == row[p].included
<1>1. members \in SUBSET Deviations /\ p \in Requests /\ p \notin members
  BY RowsTyped DEF OpenCohort
<1>2. /\ x \in Row
      /\ x.state = "rejected"
      /\ x.revision = row[p].revision + 1
      /\ x.token = row[p].token
      /\ x.live = FALSE
      /\ x.expected = row[p].expected
      /\ x.claimed = row[p].claimed
      /\ x.adopted = row[p].adopted
      /\ x.pins = row[p].pins
      /\ x.receipts = row[p].receipts
      /\ x.publication = row[p].publication
      /\ x.included = row[p].included
  <2>1. p \in Requests /\ row[p] \in Row
    BY RowsTyped
  <2> QED
    BY <2>1, RejectedRow
<1>3. \A d \in members :
        /\ d \in Deviations /\ d \in Requests /\ d # p
        /\ y(d).state = row[d].state
        /\ y(d).revision = row[d].revision + 1
        /\ y(d).token = row[d].token
        /\ y(d).live = row[d].live
        /\ y(d).expected = row[d].expected
        /\ y(d).claimed = row[d].claimed
        /\ y(d).adopted = row[d].adopted
        /\ y(d).pins = row[d].pins
        /\ y(d).receipts = row[d].receipts
        /\ y(d).publication = row[d].publication
        /\ y(d).included = row[d].included
        /\ y(d).pubId = None
  <2>1. ASSUME NEW d \in members
        PROVE  d \in Deviations /\ d \in Requests /\ d # p /\ row[d] \in Row
    BY <1>1, RowsTyped
  <2> QED
    BY <2>1, ReleasedRow
<1>4. /\ row' = [r \in Requests |-> IF r = p THEN x
                                    ELSE IF r \in members THEN y(r) ELSE row[r]]
      /\ UNCHANGED consent
  BY DEF RejectPublication
<1> HIDE DEF x, y, members
<1>5. /\ row'[p] = x
      /\ \A d \in members : row'[d] = y(d)
      /\ \A r \in Requests : r # p /\ r \notin members => row'[r] = row[r]
  BY <1>1, <1>3, <1>4
<1>6. /\ SameRequest(p)
      /\ SameRecords(p)
      /\ row'[p].state = "rejected"
      /\ row'[p].revision = row[p].revision + 1
      /\ row'[p].token = row[p].token
      /\ row'[p].live = FALSE
      /\ row'[p].claimed = row[p].claimed
  BY <1>2, <1>5 DEF SameRequest, SameRecords
<1>7. \A d \in members :
        /\ d \in Deviations /\ d # p
        /\ SameRequest(d)
        /\ SameRecords(d)
        /\ row'[d].state = row[d].state
        /\ row'[d].revision = row[d].revision + 1
        /\ row'[d].token = row[d].token
        /\ row'[d].live = row[d].live
        /\ row'[d].claimed = row[d].claimed
        /\ row'[d].pubId = None
  BY <1>3, <1>5 DEF SameRequest, SameRecords
<1> QED
  BY <1>4, <1>5, <1>6, <1>7 DEF x, members

----------------------------------------------------------------------------
(* Revisions and tokens.                                                   *)

\* A row nobody asked for is empty, and one that was asked for has a revision.
\* A token is the revision of some claim, which the bound admitted.
RowsSound ==
  \A r \in Requests :
    /\ row[r].state = "absent" => row[r] = NoRow
    /\ row[r].state # "absent" => row[r].revision >= 1
    /\ row[r].token <= row[r].revision
    /\ row[r].token <= MaxRevision[r]

\* What one step may make of a row: nothing, a new request, or the same
\* request further on, with all that was recorded of it.
RowGoesOn(r) ==
  \/ row'[r] = row[r]
  \/ /\ row[r].state = "absent" /\ row'[r].state = "received"
     /\ row'[r].revision = 1 /\ row'[r].token = 0
  \/ /\ row[r].state # "absent" /\ row'[r].state # "absent"
     /\ SameRequest(r)
     /\ row[r].claimed # None => row'[r].claimed = row[r].claimed
     /\ row[r].adopted # None => row'[r].adopted = row[r].adopted
     /\ row[r].pins # None => row'[r].pins = row[r].pins
     /\ \/ /\ row'[r].revision \in {row[r].revision, row[r].revision + 1}
           /\ row'[r].token = row[r].token
        \/ /\ row'[r].revision = row[r].revision + 1
           /\ row'[r].token = row[r].revision + 1
           /\ row[r].revision < MaxRevision[r]

RowsGoOn == \A r \in Requests : RowGoesOn(r)

\* Claims, renewals, failures and the clock.
LEMMA LeaseStepsGoOn ==
  ASSUME QueueInv, QueueAssumption, RowsSound, NEW r \in Requests,
         LeaseCall(r) \/ LeaseExpires(r)
  PROVE  RowsGoOn
<1> USE RowsTyped DEF QueueInv
<1>1. ASSUME NEW q \in Requests, OnlyRow(r), q # r
      PROVE  RowGoesOn(q)
  BY <1>1 DEF OnlyRow, RowGoesOn
<1>2. ASSUME NEW rev, NEW src \in Sources, Claim(r, rev, src)
      PROVE  OnlyRow(r) /\ RowGoesOn(r)
  <2>1. /\ row[r].state # "absent" /\ row[r].revision < MaxRevision[r]
        /\ row[r].claimed \in {None, src}
    BY <1>2 DEF Claim, SameBase
  <2>2. ResumedState(r) # "absent"
    BY DEF ResumedState
  <2>3. /\ OnlyRow(r) /\ SameRequest(r) /\ SameRecords(r)
        /\ row'[r].state = ResumedState(r) /\ row'[r].claimed = src
        /\ row'[r].revision = row[r].revision + 1
        /\ row'[r].token = row[r].revision + 1
    BY <1>2, ClaimEffect
  <2> QED
    BY <2>1, <2>2, <2>3 DEF RowGoesOn, SameRecords
<1>3. ASSUME NEW tok, NEW rev, Renew(r, tok, rev)
      PROVE  OnlyRow(r) /\ RowGoesOn(r)
  <2>1. row[r].state # "absent"
    BY <1>3 DEF Renew
  <2> QED
    BY <1>3, <2>1, RenewEffect DEF RowGoesOn, SameRecords
<1>4. ASSUME NEW tok, NEW code \in FailureCodes, Fail(r, tok, code)
      PROVE  OnlyRow(r) /\ RowGoesOn(r)
  <2>1. row[r].state # "absent"
    BY <1>4 DEF Fail, Failable
  <2> QED
    BY <1>4, <2>1, FailEffect DEF RowGoesOn, SameRecords
<1>5. ASSUME LeaseExpires(r)
      PROVE  OnlyRow(r) /\ RowGoesOn(r)
  <2>1. row[r].state # "absent"
    BY <1>5 DEF LeaseExpires, RowsSound, NoRow
  <2> QED
    BY <1>5, <2>1, LapseEffect DEF RowGoesOn, SameRecords
<1> QED
  BY <1>1, <1>2, <1>3, <1>4, <1>5 DEF LeaseCall, RowsGoOn

\* The admin's requests.
LEMMA AdminStepsGoOn ==
  ASSUME QueueInv, QueueAssumption, RowsSound, AdminCall
  PROVE  RowsGoOn
<1> USE RowsTyped DEF QueueInv
<1>1. ASSUME NEW d \in Deviations, NEW g \in Generations, RequestDeviation(d, g)
      PROVE  RowsGoOn
  <2>1. /\ OnlyRow(d) /\ row[d].state = "absent" /\ row'[d].state = "received"
        /\ row'[d].revision = 1 /\ row'[d].token = 0
    <3>1. row'[d] = Received(g, {}) /\ OnlyRow(d) /\ row[d].state = "absent"
      BY <1>1, RequestDeviationEffect
    <3> QED
      BY <3>1 DEF Received, NoRow
  <2> QED
    BY <2>1 DEF RowsGoOn, RowGoesOn, OnlyRow
<1>2. ASSUME NEW p \in Publications, NEW g \in Generations, RequestPublication(p, g)
      PROVE  RowsGoOn
  <2>1. /\ row[p].state = "absent" /\ row'[p].state = "received"
        /\ row'[p].revision = 1 /\ row'[p].token = 0
    <3>1. row'[p] = Received(g, OpenCohort)
      BY <1>2, RequestPublicationEffect
    <3>2. row[p].state = "absent"
      BY <1>2 DEF RequestPublication
    <3> QED
      BY <3>1, <3>2 DEF Received, NoRow
  <2>2. ASSUME NEW d \in OpenCohort
        PROVE  RowGoesOn(d)
    <3>1. row[d].state # "absent"
      BY DEF OpenCohort
    <3> QED
      BY <1>2, <3>1, RequestPublicationEffect DEF RowGoesOn, SameRecords
  <2>3. \A r \in Requests : r # p /\ r \notin OpenCohort => row'[r] = row[r]
    BY <1>2, RequestPublicationEffect
  <2> QED
    BY <2>1, <2>2, <2>3 DEF RowsGoOn, RowGoesOn
<1> QED
  BY <1>1, <1>2 DEF AdminCall

\* The acknowledgements.
LEMMA AcksGoOn ==
  ASSUME QueueInv, QueueAssumption, RowsSound, AckCall
  PROVE  RowsGoOn
<1> USE RowsTyped DEF QueueInv
<1>1. ASSUME NEW d \in Deviations, NEW tok, NEW src \in Sources,
             AckAdopted(d, tok, src)
      PROVE  RowsGoOn
  <2>1. row[d].state = "claimed" /\ row[d].adopted = None
    BY <1>1 DEF AckAdopted, AdoptionLogged
  <2>2. RowGoesOn(d)
    BY <1>1, <2>1, AckAdoptedEffect DEF RowGoesOn
  <2>3. OnlyRow(d)
    BY <1>1, AckAdoptedEffect
  <2> QED
    BY <2>2, <2>3 DEF RowsGoOn, RowGoesOn, OnlyRow
<1>2. ASSUME NEW p \in Publications, NEW tok, NEW src \in Sources,
             NEW pins \in Pins, NEW recs \in SUBSET Deviations,
             AckGenerated(p, tok, src, pins, recs)
      PROVE  RowsGoOn
  <2>1. /\ row[p].state = "claimed" /\ row[p].pins = None /\ row[p].adopted = None
        /\ \A d \in row[p].included : row[d].state = "adopted"
    BY <1>2 DEF AckGenerated, PinnedNeverReleased, GeneratedIsPinned
  <2>2. RowGoesOn(p)
    BY <1>2, <2>1, AckGeneratedEffect DEF RowGoesOn, SameRequest
  <2>3. ASSUME NEW d \in row[p].included
        PROVE  RowGoesOn(d)
    BY <1>2, <2>1, AckGeneratedEffect DEF RowGoesOn, SameRequest, SameRecords
  <2>4. \A r \in Requests : r # p /\ r \notin row[p].included => row'[r] = row[r]
    BY <1>2, AckGeneratedEffect
  <2> QED
    BY <2>2, <2>3, <2>4 DEF RowsGoOn, RowGoesOn
<1>3. ASSUME NEW p \in Publications, NEW tok, NEW src, NEW pins, NEW recs,
             NEW ev \in Evidence, AckConfirmed(p, tok, src, pins, recs, ev)
      PROVE  RowsGoOn
  <2>1. row[p].state = "generated"
    BY <1>3 DEF AckConfirmed
  <2>2. \A d \in row[p].included : row[d].state # "absent"
    BY <2>1 DEF MembersExist, Active
  <2>3. RowGoesOn(p)
    BY <1>3, <2>1, AckConfirmedEffect DEF RowGoesOn, SameRequest
  <2>4. ASSUME NEW d \in row[p].included
        PROVE  RowGoesOn(d)
    BY <1>3, <2>2, AckConfirmedEffect DEF RowGoesOn, SameRequest, SameRecords
  <2>5. \A r \in Requests : r # p /\ r \notin row[p].included => row'[r] = row[r]
    BY <1>3, AckConfirmedEffect
  <2> QED
    BY <2>3, <2>4, <2>5 DEF RowsGoOn, RowGoesOn
<1> QED
  BY <1>1, <1>2, <1>3 DEF AckCall

\* The rejections.
LEMMA RejectionsGoOn ==
  ASSUME QueueInv, QueueAssumption, RowsSound, RejectCall
  PROVE  RowsGoOn
<1> USE RowsTyped DEF QueueInv
<1>1. ASSUME NEW d \in Deviations, NEW rev, RejectDeviation(d, rev)
      PROVE  RowsGoOn
  <2>1. row[d].state # "absent"
    BY <1>1 DEF RejectDeviation, RejectGuard
  <2>2. RowGoesOn(d)
    BY <1>1, <2>1, RejectDeviationEffect DEF RowGoesOn, SameRecords
  <2>3. OnlyRow(d)
    BY <1>1, RejectDeviationEffect
  <2> QED
    BY <2>2, <2>3 DEF RowsGoOn, RowGoesOn, OnlyRow
<1>2. ASSUME NEW p \in Publications, NEW rev, RejectPublication(p, rev)
      PROVE  RowsGoOn
  <2>1. row[p].state \notin {"absent", "rejected"}
    BY <1>2 DEF RejectPublication, RejectGuard, Terminal
  <2>2. \A d \in row[p].included : row[d].state # "absent"
    BY <2>1 DEF MembersExist, Active
  <2>3. RowGoesOn(p)
    BY <1>2, <2>1, RejectPublicationEffect DEF RowGoesOn, SameRecords
  <2>4. ASSUME NEW d \in row[p].included
        PROVE  RowGoesOn(d)
    <3>1. /\ SameRequest(d) /\ SameRecords(d)
          /\ row'[d].state = row[d].state /\ row'[d].claimed = row[d].claimed
          /\ row'[d].revision = row[d].revision + 1
          /\ row'[d].token = row[d].token
      BY <1>2, RejectPublicationEffect
    <3> QED
      BY <2>2, <3>1 DEF RowGoesOn, SameRecords
  <2>5. \A r \in Requests : r # p /\ r \notin row[p].included => row'[r] = row[r]
    BY <1>2, RejectPublicationEffect
  <2> QED
    BY <2>3, <2>4, <2>5 DEF RowsGoOn, RowGoesOn
<1> QED
  BY <1>1, <1>2 DEF RejectCall

\* So does every step.
LEMMA NextGoesOn ==
  ASSUME QueueInv, QueueAssumption, RowsSound, [QueueNext]_queueVars
  PROVE  RowsGoOn
<1>1. CASE \E d \in Deviations : ConsentChanges(d)
  BY <1>1 DEF ConsentChanges, RowsGoOn, RowGoesOn
<1>2. CASE UNCHANGED queueVars
  BY <1>2 DEF queueVars, RowsGoOn, RowGoesOn
<1> QED
  BY <1>1, <1>2, LeaseStepsGoOn, AdminStepsGoOn, AcksGoOn, RejectionsGoOn
     DEF QueueNext

\* And so rows stay sound.
LEMMA NextKeepsSound ==
  ASSUME QueueInv, QueueAssumption, RowsSound, [QueueNext]_queueVars
  PROVE  RowsSound'
<1> USE RowsTyped DEF QueueInv
<1> SUFFICES ASSUME NEW r \in Requests
             PROVE  /\ row'[r].state = "absent" => row'[r] = NoRow
                    /\ row'[r].state # "absent" => row'[r].revision >= 1
                    /\ row'[r].token <= row'[r].revision
                    /\ row'[r].token <= MaxRevision[r]
  BY DEF RowsSound, NoRow
<1>1. /\ row[r].revision \in Nat /\ row[r].token \in Nat
      /\ MaxRevision[r] \in Nat
  BY DEF Row, QueueAssumption
<1>2. RowGoesOn(r)
  BY NextGoesOn DEF RowsGoOn
<1>3. /\ row[r].state = "absent" => row[r] = NoRow
      /\ row[r].state # "absent" => row[r].revision >= 1
      /\ row[r].token <= row[r].revision
      /\ row[r].token <= MaxRevision[r]
  BY DEF RowsSound
<1> QED
  BY <1>1, <1>2, <1>3 DEF RowGoesOn

\* No step takes back what a request was pinned to.
WorkKept ==
  \A r \in Requests :
    /\ row[r].claimed # None => row'[r].claimed = row[r].claimed
    /\ row[r].adopted # None => row'[r].adopted = row[r].adopted
    /\ row[r].pins # None => row'[r].pins = row[r].pins

\* No step changes what was asked for.
RequestKept ==
  \A r \in Requests : row[r].state # "absent" =>
    /\ row'[r].state # "absent"
    /\ SameRequest(r)

\* Both hold of every step of the queue.
LEMMA NextKeepsWork ==
  ASSUME QueueInv, QueueAssumption, RowsSound, [QueueNext]_queueVars
  PROVE  WorkKept /\ RequestKept
<1>1. \A r \in Requests : RowGoesOn(r)
  BY NextGoesOn DEF RowsGoOn
<1>2. \A r \in Requests : row[r].state = "absent" =>
        row[r].claimed = None /\ row[r].adopted = None /\ row[r].pins = None
  BY DEF RowsSound, NoRow
<1> QED
  BY <1>1, <1>2 DEF RowGoesOn, WorkKept, RequestKept, SameRequest

\* What only an ACK may do: record more of a request.
RecordsStay == \A r \in Requests : SameRecords(r)

\* No request ends in this step.
NothingEnds ==
  \A r \in Requests : row'[r].state \in Terminal => row'[r].state = row[r].state

\* Claims, renewals, failures and the clock record nothing and end nothing.
LEMMA LeaseStepsKeepRecords ==
  ASSUME QueueInv, QueueAssumption, NEW r \in Requests, LeaseCall(r) \/ LeaseExpires(r)
  PROVE  RecordsStay /\ NothingEnds
<1> USE RowsTyped DEF QueueInv
<1>1. ASSUME OnlyRow(r), SameRecords(r),
             row'[r].state \notin Terminal \/ row'[r].state = row[r].state
      PROVE  RecordsStay /\ NothingEnds
  BY <1>1 DEF OnlyRow, RecordsStay, NothingEnds, SameRecords
<1>2. ASSUME NEW rev, NEW src \in Sources, Claim(r, rev, src)
      PROVE  OnlyRow(r) /\ SameRecords(r) /\ row'[r].state \notin Terminal
  <2>1. ResumedState(r) \notin Terminal
    BY DEF ResumedState, Terminal
  <2>2. OnlyRow(r) /\ SameRecords(r) /\ row'[r].state = ResumedState(r)
    BY <1>2, ClaimEffect
  <2> QED
    BY <2>1, <2>2
<1>3. ASSUME NEW tok, NEW rev, Renew(r, tok, rev)
      PROVE  OnlyRow(r) /\ SameRecords(r) /\ row'[r].state = row[r].state
  BY <1>3, RenewEffect
<1>4. ASSUME NEW tok, NEW code \in FailureCodes, Fail(r, tok, code)
      PROVE  OnlyRow(r) /\ SameRecords(r) /\ row'[r].state \notin Terminal
  <2>1. OnlyRow(r) /\ SameRecords(r) /\ row'[r].state = "blocked"
    BY <1>4, FailEffect
  <2> QED
    BY <2>1 DEF Terminal
<1>5. ASSUME LeaseExpires(r)
      PROVE  OnlyRow(r) /\ SameRecords(r) /\ row'[r].state = row[r].state
  BY <1>5, LapseEffect
<1> QED
  BY <1>1, <1>2, <1>3, <1>4, <1>5 DEF LeaseCall

\* Neither do the admin's requests.
LEMMA AdminStepsKeepRecords ==
  ASSUME QueueInv, QueueAssumption, RowsSound, AdminCall
  PROVE  RecordsStay /\ NothingEnds
<1> USE RowsTyped DEF QueueInv
<1>1. ASSUME NEW r \in Requests, NEW g, NEW cohort, row[r].state = "absent",
             row'[r] = Received(g, cohort)
      PROVE  SameRecords(r) /\ row'[r].state \notin Terminal
  <2>1. row[r] = NoRow
    BY <1>1 DEF RowsSound
  <2> QED
    BY <1>1, <2>1 DEF Received, NoRow, SameRecords, Terminal
<1>2. ASSUME NEW d \in Deviations, NEW g \in Generations, RequestDeviation(d, g)
      PROVE  RecordsStay /\ NothingEnds
  <2>1. OnlyRow(d) /\ row[d].state = "absent" /\ row'[d] = Received(g, {})
    BY <1>2, RequestDeviationEffect
  <2>2. SameRecords(d) /\ row'[d].state \notin Terminal
    BY <1>1, <2>1
  <2> QED
    BY <2>1, <2>2 DEF OnlyRow, RecordsStay, NothingEnds, SameRecords
<1>3. ASSUME NEW p \in Publications, NEW g \in Generations, RequestPublication(p, g)
      PROVE  RecordsStay /\ NothingEnds
  <2>1. row[p].state = "absent" /\ row'[p] = Received(g, OpenCohort)
    BY <1>3, RequestPublicationEffect DEF RequestPublication
  <2>2. SameRecords(p) /\ row'[p].state \notin Terminal
    BY <1>1, <2>1
  <2>3. \A d \in OpenCohort : SameRecords(d) /\ row'[d].state = row[d].state
    BY <1>3, RequestPublicationEffect
  <2>4. \A r \in Requests : r # p /\ r \notin OpenCohort => row'[r] = row[r]
    BY <1>3, RequestPublicationEffect
  <2> QED
    BY <2>2, <2>3, <2>4 DEF RecordsStay, NothingEnds, SameRecords
<1> QED
  BY <1>2, <1>3 DEF AdminCall

\* A rejection records nothing either, and ends no request but its own.
LEMMA RejectionsKeepRecords ==
  ASSUME QueueInv, QueueAssumption, NEW r \in Requests, NEW rev,
         \/ r \in Deviations /\ RejectDeviation(r, rev)
         \/ r \in Publications /\ RejectPublication(r, rev)
  PROVE  /\ RecordsStay
         /\ row'[r].state = "rejected"
         /\ \A q \in Requests : q # r => row'[q].state = row[q].state
<1> USE RowsTyped DEF QueueInv
<1>1. CASE r \in Deviations /\ RejectDeviation(r, rev)
  <2>1. OnlyRow(r) /\ SameRecords(r) /\ row'[r].state = "rejected"
    BY <1>1, RejectDeviationEffect
  <2> QED
    BY <2>1 DEF OnlyRow, RecordsStay, SameRecords
<1>2. CASE r \in Publications /\ RejectPublication(r, rev)
  <2>1. SameRecords(r) /\ row'[r].state = "rejected"
    BY <1>2, RejectPublicationEffect
  <2>2. \A d \in row[r].included : SameRecords(d) /\ row'[d].state = row[d].state
    BY <1>2, RejectPublicationEffect
  <2>3. \A q \in Requests : q # r /\ q \notin row[r].included => row'[q] = row[q]
    BY <1>2, RejectPublicationEffect
  <2> QED
    BY <2>1, <2>2, <2>3 DEF RecordsStay, SameRecords
<1> QED
  BY <1>1, <1>2

\* Revisions and tokens are sound throughout.
THEOREM RowsStaySound == QueueSpec => []RowsSound
<1>1. QueueInit => RowsSound
  BY QueueAssumption DEF QueueInit, RowsSound, NoRow, QueueAssumption
<1>2. QueueInv /\ RowsSound /\ [QueueNext]_queueVars => RowsSound'
  BY NextKeepsSound, QueueAssumption
<1> QED
  BY <1>1, <1>2, QueueIsInvariant, PTL DEF QueueSpec

\* A request that was interrupted, blocked, or claimed by a restarted owner
\* goes on with the source and the pins it had.
THEOREM WorkIsResumed == QueueSpec => ResumesTheSameWork
<1>1. QueueInv /\ RowsSound /\ [QueueNext]_queueVars => [WorkKept]_queueVars
  BY NextKeepsWork, QueueAssumption
<1>2. ResumesTheSameWork <=> [][WorkKept]_queueVars
  BY DEF ResumesTheSameWork, WorkKept
<1> QED
  BY <1>1, <1>2, QueueIsInvariant, RowsStaySound, PTL DEF QueueSpec

----------------------------------------------------------------------------
(* The mapping.                                                            *)

\* The phase of a correction, by its state.
LEMMA PhaseByState ==
  ASSUME NEW d \in Deviations
  PROVE  /\ row[d].state = "absent" => PhaseOf(d) = "none"
         /\ row[d].state = "rejected" => PhaseOf(d) = "cancelled"
         /\ row[d].state = "publication_confirmed" => PhaseOf(d) = "public"
         /\ row[d].state \notin {"absent", "rejected", "publication_confirmed"} =>
              PhaseOf(d) = IF row[d].adopted # None THEN "adopted" ELSE "pending"
  BY DEF PhaseOf

\* The same after the step.
LEMMA PhaseByStateNext ==
  ASSUME NEW d \in Deviations
  PROVE  /\ row'[d].state = "absent" => PhaseOf(d)' = "none"
         /\ row'[d].state = "rejected" => PhaseOf(d)' = "cancelled"
         /\ row'[d].state = "publication_confirmed" => PhaseOf(d)' = "public"
         /\ row'[d].state \notin {"absent", "rejected", "publication_confirmed"} =>
              PhaseOf(d)' = IF row'[d].adopted # None THEN "adopted" ELSE "pending"
  BY DEF PhaseOf

\* The frozen cohort is that of the pending publication, whichever it is.
LEMMA FrozenByPending ==
  ASSUME CohortsDisjoint
  PROVE  /\ \A p \in Publications : Pending(p) => FrozenCohort = row[p].included
         /\ (\A p \in Publications : ~ Pending(p)) => FrozenCohort = None
<1> DEFINE c == CHOOSE p \in Publications : Pending(p)
<1>1. ASSUME NEW p \in Publications, Pending(p)
      PROVE  c = p
  <2>1. c \in Publications /\ Pending(c)
    BY <1>1
  <2> QED
    BY <1>1, <2>1 DEF CohortsDisjoint
<1> HIDE DEF c
<1>2. ASSUME NEW p \in Publications, Pending(p)
      PROVE  FrozenCohort = row[p].included
  <2>1. FrozenCohort = row[c].included
    BY <1>2 DEF FrozenCohort, c
  <2> QED
    BY <1>1, <1>2, <2>1
<1> QED
  BY <1>2 DEF FrozenCohort

\* The same after the step.
LEMMA FrozenByPendingNext ==
  ASSUME CohortsDisjoint'
  PROVE  /\ \A p \in Publications : Pending(p)' => FrozenCohort' = row'[p].included
         /\ (\A p \in Publications : ~ Pending(p)') => FrozenCohort' = None
<1> DEFINE c == CHOOSE p \in Publications :
                  row'[p].state \notin Terminal \cup {"absent"}
<1>1. ASSUME NEW p \in Publications, Pending(p)'
      PROVE  c = p
  <2>1. c \in Publications /\ row'[c].state \notin Terminal \cup {"absent"}
    BY <1>1 DEF Pending
  <2>2. \A q \in Publications : row'[q].state \notin Terminal \cup {"absent"} => q = p
    BY <1>1 DEF CohortsDisjoint, Pending
  <2> QED
    BY <2>1, <2>2
<1> HIDE DEF c
<1>2. ASSUME NEW p \in Publications, Pending(p)'
      PROVE  FrozenCohort' = row'[p].included
  <2>1. FrozenCohort' = row'[c].included
    BY <1>2 DEF FrozenCohort, Pending, c
  <2> QED
    BY <1>1, <1>2, <2>1
<1> QED
  BY <1>2 DEF FrozenCohort

----------------------------------------------------------------------------
(* Steps the life cycle does not see.                                      *)

\* The states of a request that is neither unknown nor decided.
Open == {"received", "claimed", "adopted", "generated", "blocked"}

\* The row changes in nothing that the mapping reads.
Quiet(r) ==
  /\ row'[r].state = row[r].state \/ {row[r].state, row'[r].state} \subseteq Open
  /\ r \in Deviations => (row'[r].adopted = None <=> row[r].adopted = None)
  /\ row'[r].included = row[r].included

\* If no row does, the life cycle stutters.
LEMMA QuietStutters ==
  ASSUME QueueInv, QueueInv', QueueAssumption, \A r \in Requests : Quiet(r)
  PROVE  UNCHANGED Lifecycle!vars
<1> USE RowsTyped DEF QueueInv
<1>1. ASSUME NEW d \in Deviations
      PROVE  PhaseOf(d)' = PhaseOf(d)
  <2>1. row[d].state \in States /\ row'[d].state \in States /\ Quiet(d)
    BY DEF QueueTypeOK, Requests, Row
  <2> QED
    BY <2>1, PhaseByState, PhaseByStateNext DEF Quiet, Open, States
<1>2. \A p \in Publications : (Pending(p)' <=> Pending(p)) /\ row'[p].included = row[p].included
  BY DEF Quiet, Pending, Terminal, Open
<1>3. FrozenCohort' = FrozenCohort
  <2>1. CASE \E p \in Publications : Pending(p)
    BY <1>2, <2>1, FrozenByPending, FrozenByPendingNext
  <2>2. CASE \A p \in Publications : ~ Pending(p)
    BY <1>2, <2>2, FrozenByPending, FrozenByPendingNext
  <2> QED
    BY <2>1, <2>2
<1> QED
  BY <1>1, <1>3 DEF Lifecycle!vars

\* Nobody is working on a request that is final, and a renewed, failed, claimed
\* or lapsed one is as far as it was.
LEMMA LeaseStepsStutter ==
  ASSUME QueueInv, QueueInv', QueueAssumption, NEW r \in Requests,
         LeaseCall(r) \/ LeaseExpires(r)
  PROVE  UNCHANGED Lifecycle!vars
<1> USE RowsTyped DEF QueueInv
<1>1. ASSUME OnlyRow(r), Quiet(r)
      PROVE  UNCHANGED Lifecycle!vars
  <2>1. \A q \in Requests : Quiet(q)
    BY <1>1 DEF OnlyRow, Quiet
  <2> QED
    BY <2>1, QuietStutters
<1>2. ASSUME NEW rev, NEW src \in Sources, Claim(r, rev, src)
      PROVE  OnlyRow(r) /\ Quiet(r)
  <2>1. row[r].state \in Open
    BY <1>2 DEF Claim, Terminal, Open, States
  <2>2. ResumedState(r) \in Open
    BY DEF ResumedState, Open
  <2>3. /\ OnlyRow(r) /\ SameRequest(r) /\ SameRecords(r)
        /\ row'[r].state = ResumedState(r)
    BY <1>2, ClaimEffect
  <2> QED
    BY <2>1, <2>2, <2>3 DEF Quiet, SameRequest, SameRecords
<1>3. ASSUME NEW tok, NEW rev, Renew(r, tok, rev)
      PROVE  OnlyRow(r) /\ Quiet(r)
  BY <1>3, RenewEffect DEF Quiet, SameRequest, SameRecords
<1>4. ASSUME NEW tok, NEW code \in FailureCodes, Fail(r, tok, code)
      PROVE  OnlyRow(r) /\ Quiet(r)
  <2>1. row[r].state \in Open
    BY <1>4 DEF Fail, Failable, Terminal, Open, States
  <2>2. /\ OnlyRow(r) /\ SameRequest(r) /\ SameRecords(r)
        /\ row'[r].state = "blocked"
    BY <1>4, FailEffect
  <2> QED
    BY <2>1, <2>2 DEF Quiet, SameRequest, SameRecords, Open
<1>5. ASSUME LeaseExpires(r)
      PROVE  OnlyRow(r) /\ Quiet(r)
  BY <1>5, LapseEffect DEF Quiet, SameRequest, SameRecords
<1> QED
  BY <1>1, <1>2, <1>3, <1>4, <1>5 DEF LeaseCall

\* The generated ACK brings all members forward together, which are adopted.
LEMMA AckGeneratedStutters ==
  ASSUME QueueInv, QueueInv', QueueAssumption, NEW p \in Publications, NEW tok,
         NEW src \in Sources, NEW pins \in Pins, NEW recs \in SUBSET Deviations,
         AckGenerated(p, tok, src, pins, recs)
  PROVE  UNCHANGED Lifecycle!vars
<1> USE RowsTyped DEF QueueInv
<1>1. /\ row[p].state = "claimed"
      /\ \A d \in row[p].included : row[d].state = "adopted"
  BY DEF AckGenerated
<1>2. Quiet(p)
  <2>1. row'[p].state = "generated" /\ row'[p].included = row[p].included
    BY AckGeneratedEffect DEF SameRequest
  <2> QED
    BY <1>1, <2>1 DEF Quiet, Open
<1>3. ASSUME NEW d \in row[p].included
      PROVE  Quiet(d)
  <2>1. row'[d].state = "generated" /\ SameRequest(d) /\ SameRecords(d)
    BY AckGeneratedEffect
  <2> QED
    BY <1>1, <2>1 DEF Quiet, Open, SameRequest, SameRecords
<1>4. \A r \in Requests : r # p /\ r \notin row[p].included => row'[r] = row[r]
  BY AckGeneratedEffect
<1>5. \A r \in Requests : Quiet(r)
  BY <1>2, <1>3, <1>4 DEF Quiet
<1> QED
  BY <1>5, QuietStutters

----------------------------------------------------------------------------
(* Steps of the life cycle.                                                *)

\* A step that leaves the publications as they were and no member unbound
\* freezes nothing and thaws nothing.
LEMMA FrozenKept ==
  ASSUME QueueInv, QueueInv', QueueAssumption,
         \A p \in Publications : row'[p].state = row[p].state
                                 /\ row'[p].included = row[p].included
  PROVE  FrozenCohort' = FrozenCohort
<1>1. \A p \in Publications : Pending(p)' <=> Pending(p)
  BY DEF Pending
<1> QED
  BY <1>1, FrozenByPending, FrozenByPendingNext DEF QueueInv

\* One correction moves from one phase to another.
LEMMA OneMoves ==
  ASSUME QueueInv, QueueInv', QueueAssumption, NEW d \in Deviations, OnlyRow(d),
         NEW from, NEW to, PhaseOf(d) = from, PhaseOf(d)' = to
  PROVE  Lifecycle!Move(d, from, to)
<1> USE RowsTyped DEF QueueInv
<1>1. \A p \in Publications : row'[p] = row[p]
  BY DEF OnlyRow
<1>2. FrozenCohort' = FrozenCohort
  BY <1>1, FrozenKept
<1>3. ASSUME NEW c \in Deviations, c # d
      PROVE  PhaseOf(c)' = PhaseOf(c)
  <2>1. row'[c] = row[c]
    BY <1>3 DEF OnlyRow
  <2> QED
    BY <2>1 DEF PhaseOf
<1> DEFINE before == [c \in Deviations |-> PhaseOf(c)]
<1> DEFINE after == [c \in Deviations |-> PhaseOf(c)']
<1>4. after = [before EXCEPT ![d] = to]
  BY <1>3
<1> QED
  BY <1>2, <1>4 DEF Lifecycle!Move

\* A correction is requested.
LEMMA RequestDeviationSubmits ==
  ASSUME QueueInv, QueueInv', QueueAssumption,
         NEW d \in Deviations, NEW g \in Generations, RequestDeviation(d, g)
  PROVE  Lifecycle!Submit(d)
<1>1. /\ OnlyRow(d) /\ row[d].state = "absent"
      /\ row'[d].state = "received" /\ row'[d].adopted = None
  <2>1. OnlyRow(d) /\ row[d].state = "absent" /\ row'[d] = Received(g, {})
    BY RequestDeviationEffect DEF QueueInv
  <2> QED
    BY <2>1 DEF Received, NoRow
<1>2. PhaseOf(d) = "none" /\ PhaseOf(d)' = "pending"
  BY <1>1, PhaseByState, PhaseByStateNext
<1> QED
  BY <1>1, <1>2, OneMoves DEF Lifecycle!Submit

\* The adopted ACK adopts, and a correction outside the frozen cohort is not
\* being worked on.
LEMMA AckAdoptedAdopts ==
  ASSUME QueueInv, QueueInv', QueueAssumption, NEW d \in Deviations, NEW tok,
         NEW src \in Sources, AckAdopted(d, tok, src)
  PROVE  Lifecycle!Adopt(d)
<1> USE DEF QueueInv
<1>1. row[d].state = "claimed" /\ row[d].adopted = None
  BY DEF AckAdopted, AdoptionLogged
<1>2. OnlyRow(d) /\ row'[d].state = "adopted" /\ row'[d].adopted = src
  BY AckAdoptedEffect
<1>3. src # None
  BY DEF QueueAssumption
<1>4. PhaseOf(d) = "pending" /\ PhaseOf(d)' = "adopted"
  BY <1>1, <1>2, <1>3, PhaseByState, PhaseByStateNext
<1>5. FrozenCohort # None => d \in FrozenCohort
  <2>1. SUFFICES ASSUME NEW p \in Publications, Pending(p)
                 PROVE  d \in FrozenCohort
    BY FrozenByPending
  <2>2. d \in row[p].included
    BY <1>1, <2>1 DEF LaterCorrectionsWait
  <2> QED
    BY <2>1, <2>2, FrozenByPending
<1> QED
  BY <1>2, <1>4, <1>5, OneMoves DEF Lifecycle!Adopt

\* The rejection of a correction cancels it.
LEMMA RejectDeviationCancels ==
  ASSUME QueueInv, QueueInv', QueueAssumption,
         NEW d \in Deviations, NEW rev, RejectDeviation(d, rev)
  PROVE  Lifecycle!Cancel(d)
<1>1. /\ row[d].state \notin {"absent", "rejected", "publication_confirmed"}
      /\ row[d].adopted = None
  BY DEF RejectDeviation, RejectGuard, Unadopted, Terminal
<1>2. OnlyRow(d) /\ row'[d].state = "rejected"
  BY RejectDeviationEffect DEF QueueInv
<1>3. PhaseOf(d) = "pending" /\ PhaseOf(d)' = "cancelled"
  BY <1>1, <1>2, PhaseByState, PhaseByStateNext
<1> QED
  BY <1>2, <1>3, OneMoves DEF Lifecycle!Cancel

\* A new publication freezes the open corrections: none was before, and none of
\* them is public yet.
LEMMA RequestPublicationFreezes ==
  ASSUME QueueInv, QueueInv', QueueAssumption,
         NEW p \in Publications, NEW g \in Generations, RequestPublication(p, g)
  PROVE  Lifecycle!Freeze(OpenCohort)
<1> USE RowsTyped DEF QueueInv
<1>1. /\ row[p].state = "absent"
      /\ \A q \in Publications : ~ Pending(q)
  BY DEF RequestPublication
<1>2. row'[p].state = "received" /\ row'[p].included = OpenCohort
  <2>1. row'[p] = Received(g, OpenCohort)
    BY RequestPublicationEffect
  <2> QED
    BY <2>1 DEF Received, NoRow
<1>3. FrozenCohort = None
  BY <1>1, FrozenByPending
<1>4. FrozenCohort' = OpenCohort
  <2>1. Pending(p)'
    BY <1>2 DEF Pending, Terminal
  <2> QED
    BY <1>2, <2>1, FrozenByPendingNext
<1>5. ASSUME NEW d \in Deviations
      PROVE  PhaseOf(d)' = PhaseOf(d)
  <2>1. CASE d \in OpenCohort
    <3>1. row'[d].state = row[d].state /\ row'[d].adopted = row[d].adopted
      BY <2>1, RequestPublicationEffect DEF SameRecords
    <3> QED
      BY <3>1 DEF PhaseOf
  <2>2. CASE d \notin OpenCohort
    <3>1. row'[d] = row[d]
      BY <2>2, RequestPublicationEffect
    <3> QED
      BY <3>1 DEF PhaseOf
  <2> QED
    BY <2>1, <2>2
<1>6. ASSUME NEW d \in OpenCohort
      PROVE  d \in Deviations /\ PhaseOf(d) \notin {"none", "public"}
  <2>1. d \in Deviations /\ row[d].state \in {"received", "claimed", "adopted"}
    BY DEF OpenCohort
  <2> QED
    BY <2>1, PhaseByState
<1> QED
  BY <1>3, <1>4, <1>5, <1>6 DEF Lifecycle!Freeze

\* The rejection of a publication thaws its cohort.
LEMMA RejectPublicationReleases ==
  ASSUME QueueInv, QueueInv', QueueAssumption,
         NEW p \in Publications, NEW rev, RejectPublication(p, rev)
  PROVE  Lifecycle!Release
<1> USE RowsTyped DEF QueueInv
<1>0. /\ row'[p].state = "rejected"
      /\ \A r \in Requests : r # p /\ r \notin row[p].included => row'[r] = row[r]
      /\ \A d \in row[p].included :
           row'[d].state = row[d].state /\ row'[d].adopted = row[d].adopted
  <2>1. row'[p].state = "rejected"
    BY RejectPublicationEffect
  <2>2. \A r \in Requests : r # p /\ r \notin row[p].included => row'[r] = row[r]
    BY RejectPublicationEffect
  <2>3. \A d \in row[p].included : row'[d].state = row[d].state /\ SameRecords(d)
    BY RejectPublicationEffect
  <2> QED
    BY <2>1, <2>2, <2>3 DEF SameRecords
<1>1. Pending(p)
  BY DEF RejectPublication, RejectGuard, Pending, Terminal
<1>2. FrozenCohort = row[p].included
  BY <1>1, FrozenByPending
<1>3. FrozenCohort # None
  BY <1>2 DEF QueueAssumption
<1>4. FrozenCohort' = None
  <2>1. ASSUME NEW q \in Publications, Pending(q)'
        PROVE  FALSE
    <3>1. CASE q = p
      <4>1. row'[p].state = "rejected"
        BY <1>0
      <4> QED
        BY <2>1, <3>1, <4>1 DEF Pending, Terminal
    <3>2. CASE q # p
      <4>1. row'[q] = row[q]
        BY <1>0, <3>2
      <4>2. Pending(q)
        BY <2>1, <4>1 DEF Pending
      <4> QED
        BY <1>1, <3>2, <4>2 DEF CohortsDisjoint
    <3> QED
      BY <3>1, <3>2
  <2> QED
    BY <2>1, FrozenByPendingNext
<1>5. ASSUME NEW d \in Deviations
      PROVE  PhaseOf(d)' = PhaseOf(d)
  <2>1. CASE d \in row[p].included
    <3>1. row'[d].state = row[d].state /\ row'[d].adopted = row[d].adopted
      BY <1>0, <2>1
    <3> QED
      BY <3>1 DEF PhaseOf
  <2>2. CASE d \notin row[p].included
    <3>1. row'[d] = row[d]
      BY <1>0, <2>2
    <3> QED
      BY <3>1 DEF PhaseOf
  <2> QED
    BY <2>1, <2>2
<1> QED
  BY <1>3, <1>4, <1>5 DEF Lifecycle!Release

\* The confirming ACK makes the whole cohort public: every member has its
\* adoption recorded, and none is public or rejected already.
LEMMA AckConfirmedPublishes ==
  ASSUME QueueInv, QueueInv', QueueAssumption, NEW p \in Publications, NEW tok,
         NEW src, NEW pins, NEW recs, NEW ev \in Evidence,
         AckConfirmed(p, tok, src, pins, recs, ev)
  PROVE  Lifecycle!Publish
<1> USE RowsTyped DEF QueueInv
<1>1. row[p].state = "generated"
  BY DEF AckConfirmed
<1>2. Pending(p) /\ FrozenCohort = row[p].included
  BY <1>1, FrozenByPending DEF Pending, Terminal
<1>3. FrozenCohort # None
  BY <1>2 DEF QueueAssumption
<1>4. ASSUME NEW d \in row[p].included
      PROVE  d \in Deviations /\ PhaseOf(d) = "adopted" /\ PhaseOf(d)' = "public"
  <2>1. d \in Deviations
    BY DEF Requests
  <2>2. row[d].adopted # None
    BY <1>1 DEF GeneratedIsPinned, PinnedNeverReleased
  <2>3. row[d].state # "absent" /\ row[d].pubId = p
    BY <1>1 DEF MembersExist, Active, CohortsDisjoint
  <2>4. row[d].state # "rejected"
    BY <2>1, <2>2 DEF AdoptionLogged, PublicOnlyWithAuditLog
  <2>5. row[d].state # "publication_confirmed"
    BY <1>1, <2>1, <2>3 DEF PublicOnlyWithAuditLog
  <2>6. row'[d].state = "publication_confirmed"
    BY AckConfirmedEffect
  <2> QED
    BY <2>1, <2>2, <2>3, <2>4, <2>5, <2>6, PhaseByState, PhaseByStateNext
<1>5. ASSUME NEW d \in Deviations, d \notin row[p].included
      PROVE  PhaseOf(d)' = PhaseOf(d)
  <2>1. row'[d] = row[d]
    BY <1>5, AckConfirmedEffect
  <2> QED
    BY <2>1 DEF PhaseOf
<1>6. FrozenCohort' = None
  <2>1. ASSUME NEW q \in Publications, Pending(q)'
        PROVE  FALSE
    <3>1. CASE q = p
      <4>1. row'[p].state = "publication_confirmed"
        BY AckConfirmedEffect
      <4> QED
        BY <2>1, <3>1, <4>1 DEF Pending, Terminal
    <3>2. CASE q # p
      <4>1. row'[q] = row[q]
        BY <3>2, AckConfirmedEffect
      <4>2. Pending(q)
        BY <2>1, <4>1 DEF Pending
      <4> QED
        BY <1>2, <3>2, <4>2 DEF CohortsDisjoint
    <3> QED
      BY <3>1, <3>2
  <2> QED
    BY <2>1, FrozenByPendingNext
<1>7. [d \in Deviations |-> PhaseOf(d)'] =
        [c \in Deviations |-> IF c \in FrozenCohort THEN "public" ELSE PhaseOf(c)]
  BY <1>2, <1>4, <1>5
<1> QED
  BY <1>2, <1>3, <1>4, <1>6, <1>7 DEF Lifecycle!Publish

----------------------------------------------------------------------------
(* The refinement.                                                         *)

\* Every call is a step of the life cycle or none.
LEMMA NextIsLifecycle ==
  ASSUME QueueInv, QueueInv', QueueAssumption, [QueueNext]_queueVars
  PROVE  [Lifecycle!Next]_Lifecycle!vars
<1> USE RowsTyped DEF QueueInv
<1>1. CASE AdminCall
  BY <1>1, RequestDeviationSubmits, RequestPublicationFreezes
     DEF AdminCall, Lifecycle!Next, OpenCohort
<1>2. CASE \E r \in Requests : LeaseCall(r) \/ LeaseExpires(r)
  BY <1>2, LeaseStepsStutter
<1>3. CASE AckCall
  BY <1>3, AckAdoptedAdopts, AckGeneratedStutters, AckConfirmedPublishes
     DEF AckCall, Lifecycle!Next
<1>4. CASE RejectCall
  BY <1>4, RejectDeviationCancels, RejectPublicationReleases
     DEF RejectCall, Lifecycle!Next
<1>5. CASE (\E d \in Deviations : ConsentChanges(d)) \/ UNCHANGED queueVars
  <2>1. row' = row
    BY <1>5 DEF ConsentChanges, queueVars
  <2>2. \A r \in Requests : Quiet(r)
    BY <2>1 DEF Quiet
  <2> QED
    BY <2>2, QuietStutters
<1> QED
  BY <1>1, <1>2, <1>3, <1>4, <1>5 DEF QueueNext

\* The queue implements the life cycle of a correction, whatever its callers do.
THEOREM QueueImplementsLifecycle == QueueSpec => ImplementsLifecycle
<1>1. QueueInit => Lifecycle!Init
  <2> SUFFICES ASSUME QueueInit
               PROVE  Lifecycle!Init
    OBVIOUS
  <2>1. QueueInv
    BY InitHasInv, QueueAssumption
  <2>2. \A r \in Requests : row[r].state = "absent"
    BY DEF QueueInit, NoRow
  <2>3. \A d \in Deviations : PhaseOf(d) = "none"
    BY <2>2, PhaseByState DEF Requests
  <2>4. FrozenCohort = None
    BY <2>1, <2>2, FrozenByPending DEF QueueInv, Pending, Requests
  <2> QED
    BY <2>3, <2>4 DEF Lifecycle!Init
<1>2. QueueInv /\ QueueInv' /\ [QueueNext]_queueVars => [Lifecycle!Next]_Lifecycle!vars
  BY NextIsLifecycle, QueueAssumption
<1> QED
  BY <1>1, <1>2, QueueIsInvariant, PTL
     DEF QueueSpec, ImplementsLifecycle, Lifecycle!Spec
==============================================================================
