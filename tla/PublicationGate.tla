--------------------------- MODULE PublicationGate ---------------------------
(***************************************************************************)
(* The publication rehearsal of a school generation                        *)
(* (lib/school-publish-gate.mjs): a gate that reads the candidate          *)
(* directory, the ID index and the registration receipt, a permit issued   *)
(* and consumed by the review queue (school_review_queue.py), and the      *)
(* stub's own memory of requests, of the active version and of the         *)
(* previous one.  The directory may be generated again, and consent        *)
(* withdrawn, between any two steps of a publication.                      *)
(***************************************************************************)
EXTENDS Naturals, FiniteSets

CONSTANTS Requests, Proposals, Candidates,
          RequestOf,    \* the request the queue recorded for each proposal
          CandidateOf,  \* the candidate each proposal was reviewed for
          Bound         \* TRUE: createQueueBoundSchoolPublicationStub

None == [state |-> "none"]
QueueRecords == \A p \in Proposals : RequestOf[p] \in Requests /\ CandidateOf[p] \in Candidates

VARIABLES disk,     \* the generation in the candidate directory
          index,    \* the generation of the ID index and its receipt
          consent, permit,          \* the queue: consent and permit per proposal
          cached,                   \* permits the stub remembers, by request
          active, previous, requests, \* the stub's versions and its requests
          call,     \* the publication under way
          verified, \* history: the generations whose files the gate checked in this call
          consented \* history: whether consent held when this call's permit was consumed

vars == <<disk, index, consent, permit, cached, active, previous, requests, call,
          verified, consented>>

Options == [request : Requests, proposal : Proposals, candidate : Candidates]
Idle == [at |-> "idle"]
At(s) == call.at = s
Goto(s) == call' = [call EXCEPT !.at = s]

Init ==
  /\ disk \in Candidates /\ index \in Candidates
  /\ consent = [p \in Proposals |-> TRUE]
  /\ permit = [p \in Proposals |-> "none"]
  /\ cached = {} /\ active = None /\ previous = None
  /\ requests = [r \in Requests |-> None]
  /\ call = Idle /\ verified = {} /\ consented = FALSE

-----------------------------------------------------------------------------
(* publish: one at a time; its options are copied before anything is read. *)

Begin(o) ==
  /\ At("idle")
  /\ call' = [at |-> "identity", o |-> o]
  /\ verified' = {} /\ consented' = FALSE
  /\ UNCHANGED <<disk, index, consent, permit, cached, active, previous, requests>>

Publish == \E o \in Options : Begin(o)

\* restorePrevious: the previous version's options under a request not yet used.
Restore ==
  /\ previous # None
  /\ \E r \in Requests :
       /\ requests[r].state # "confirmed"
       /\ Begin([previous EXCEPT !.request = r])

Refuse ==
  /\ call' = Idle
  /\ UNCHANGED <<disk, index, consent, permit, cached, active, previous, requests, verified, consented>>

\* schoolCandidateIdentity, before the registration is looked at and after the
\* files were: the directory is the candidate the request names.
IsCandidate == disk = call.o.candidate

\* Wrong on purpose: the files are those the identity was computed from.
HasArtifactsAlways == TRUE

HasArtifacts == IsCandidate

Identity ==
  /\ At("identity")
  /\ \/ ~IsCandidate /\ Refuse
     \/ /\ IsCandidate /\ Goto("registration")
        /\ UNCHANGED <<disk, index, consent, permit, cached, active, previous, requests, verified, consented>>

\* The index and the registered receipt are of the candidate's generation.
Registration ==
  /\ At("registration")
  /\ \/ index # call.o.candidate /\ Refuse
     \/ /\ index = call.o.candidate /\ Goto("artifacts")
        /\ UNCHANGED <<disk, index, consent, permit, cached, active, previous, requests, verified, consented>>

\* verifySchoolCandidate and verifyArtifactIds: every ID of every artifact is in
\* the index, which is of the request's generation.
Artifacts ==
  /\ At("artifacts")
  /\ \/ ~HasArtifacts /\ Refuse
     \/ /\ HasArtifacts /\ Goto("again")
        /\ verified' = verified \union {disk}
        /\ UNCHANGED <<disk, index, consent, permit, cached, active, previous, requests, consented>>

SameRequest(o) ==
  LET e == requests[o.request]
  IN e # None => e.candidate = o.candidate /\ e.proposal = o.proposal

\* Wrong on purpose: a confirmed request is answered from the stub's memory.
NeedsPermitOnce(o) ==
  Bound /\ requests[o.request].state # "confirmed"

\* The queue is asked again even for a request already confirmed.
NeedsPermit(o) == Bound

Again ==
  /\ At("again")
  /\ \/ ~(IsCandidate /\ SameRequest(call.o)) /\ Refuse
     \/ /\ IsCandidate /\ SameRequest(call.o)
        /\ Goto(IF NeedsPermit(call.o) THEN "permit" ELSE "confirm")
        /\ UNCHANGED <<disk, index, consent, permit, cached, active, previous, requests, verified, consented>>

-----------------------------------------------------------------------------
(* The permit of the queue.                                                *)

\* _publication_ready: consent, and the request and candidate the queue holds.
Ready(o) ==
  /\ consent[o.proposal]
  /\ RequestOf[o.proposal] = o.request /\ CandidateOf[o.proposal] = o.candidate

Permit ==
  /\ At("permit")
  /\ LET p == call.o.proposal IN
       \/ /\ call.o \in cached /\ Goto("consume")
          /\ UNCHANGED <<permit, cached>>
       \/ /\ call.o \notin cached
          /\ Ready(call.o) /\ permit[p] # "revoked"
          /\ permit' = [permit EXCEPT ![p] = IF @ = "none" THEN "issued" ELSE @]
          /\ cached' = cached \union {call.o}
          /\ Goto("consume")
       \/ /\ call.o \notin cached
          /\ ~Ready(call.o) \/ permit[p] = "revoked"
          /\ call' = Idle /\ UNCHANGED <<permit, cached>>
  /\ UNCHANGED <<disk, index, consent, active, previous, requests, verified, consented>>

\* consume_publication_permit rechecks consent, for an issued permit and for one
\* consumed before.
Consumable(o) == Ready(o) /\ permit[o.proposal] \in {"issued", "consumed"}

Consume ==
  /\ At("consume")
  /\ \/ ~Consumable(call.o) /\ Refuse
     \/ /\ Consumable(call.o)
        /\ permit' = [permit EXCEPT ![call.o.proposal] = "consumed"]
        /\ consented' = consent[call.o.proposal]
        /\ Goto("confirm")
        /\ UNCHANGED <<disk, index, consent, cached, active, previous, requests, verified>>

NewVersion(o) == active = None \/ active.candidate # o.candidate

\* The version becomes active, or the synthetic failure keeps the one there is.
Confirm ==
  /\ At("confirm")
  /\ LET o == call.o
         done == requests[o.request].state = "confirmed"
         entry(s) == [state |-> s, candidate |-> o.candidate, proposal |-> o.proposal]
     IN \/ done /\ UNCHANGED <<requests, active, previous>>
        \/ /\ ~done
           /\ requests' = [requests EXCEPT ![o.request] = entry("failed")]
           /\ UNCHANGED <<active, previous>>
        \/ /\ ~done
           /\ requests' = [requests EXCEPT ![o.request] = entry("confirmed")]
           /\ IF NewVersion(o)
              THEN active' = o /\ previous' = active
              ELSE UNCHANGED <<active, previous>>
  /\ call' = Idle
  /\ UNCHANGED <<disk, index, consent, permit, cached, verified, consented>>

-----------------------------------------------------------------------------
(* The world: the generator, the registration, a school's withdrawal.      *)

Rebuild == \E c \in Candidates : disk' = c /\ UNCHANGED
  <<index, consent, permit, cached, active, previous, requests, call, verified, consented>>

Register == \E c \in Candidates : index' = c /\ UNCHANGED
  <<disk, consent, permit, cached, active, previous, requests, call, verified, consented>>

\* Every proposal here is adopted, so its withdrawal revokes every permit issued.
Withdraw(p) ==
  /\ Bound /\ consent[p]
  /\ consent' = [consent EXCEPT ![p] = FALSE]
  /\ permit' = [q \in Proposals |-> IF permit[q] = "none" THEN "none" ELSE "revoked"]
  /\ UNCHANGED <<disk, index, cached, active, previous, requests, call, verified, consented>>

Next ==
  \/ Publish \/ Restore \/ Identity \/ Registration \/ Artifacts \/ Again
  \/ Permit \/ Consume \/ Confirm \/ Rebuild \/ Register
  \/ \E p \in Proposals : Withdraw(p)

Spec == Init /\ [][Next]_vars

-----------------------------------------------------------------------------
GateTypeOK ==
  /\ disk \in Candidates /\ index \in Candidates
  /\ permit \in [Proposals -> {"none", "issued", "consumed", "revoked"}]
  /\ cached \subseteq Options
  /\ active \in Options \union {None} /\ previous \in Options \union {None}
  /\ call = Idle \/ call.o \in Options

\* A publication that answers "confirmed" consumed its permit under consent in
\* that very call: neither a cached permit nor an old receipt outlives a
\* withdrawal (school-publish-gate.mjs 247-250).
ConfirmedUnderConsent ==
  Bound /\ At("confirm") => consented

\* What becomes active was checked file by file in the call that made it so.
ActiveWasVerified ==
  [][active' # active => active'.candidate \in verified]_vars

\* There is always another version to go back to: confirming the active one
\* again, under whatever request, keeps the previous one.
PreviousIsAnother ==
  active # None /\ previous # None => active.candidate # previous.candidate
=============================================================================
