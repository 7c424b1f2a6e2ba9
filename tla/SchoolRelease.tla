---------------------------- MODULE SchoolRelease ----------------------------
(***************************************************************************)
(* The two-origin release of a generation of school data:                  *)
(* runSchoolRelease (lib/school-release.mjs) over the Cloudflare Pages      *)
(* adapter (lib/school-release-adapter.mjs).  The runner verifies the      *)
(* previous deployments, deploys and verifies one origin after the other,  *)
(* verifies both again, and on any failure rolls both back and verifies    *)
(* that.  The hosting service makes a deployment live some time after it   *)
(* was asked to, or never, whether or not its answer arrived; and another  *)
(* writer may change an origin in between, because the service offers no   *)
(* compare-and-swap.                                                       *)
(*                                                                         *)
(* A deployment stands for its bytes: "prev" serves the previous           *)
(* generation, "next" the new one, "other" what somebody else put there.   *)
(***************************************************************************)
EXTENDS Naturals, Sequences

CONSTANTS Targets,      \* the two origins, apex and high-school
          ForeignMax    \* bound: deployments of another writer

\* There are two origins, and they are different projects.
ReleaseAssumption ==
  /\ ForeignMax \in Nat
  /\ \E a, b \in Targets : a # b /\ Targets = {a, b}

VARIABLES live,       \* canonical_deployment of each origin's project
          job,        \* what the service still does with our last request
          uncertain,  \* the adapter's set: a mutation whose end it does not know
          owned,      \* ownedDeployments: projects whose new deployment settled
          order, late, at, failed, outcome,
          foreign, together  \* history: intrusions, and generations both served

vars == <<live, job, uncertain, owned, order, late, at, failed, outcome,
          foreign, together>>

Orders == {s \in [1..2 -> Targets] : s[1] # s[2]}
Place(p, k, s) == [phase |-> p, k |-> k, step |-> s]
Phase(ps) == at.phase \in ps

\* The order of the rollback is the reverse of the deployment's.
Target == IF Phase({"undo"}) THEN order[3 - at.k] ELSE order[at.k]
Expected == IF Phase({"preflight", "restore", "undo"}) THEN "prev" ELSE "next"
Both(l) == {v \in {"prev", "next"} : \A t \in Targets : l[t] = v}

Init ==
  /\ live = [t \in Targets |-> "prev"]
  /\ job = [t \in Targets |-> "none"]
  /\ uncertain = {} /\ owned = {}
  /\ order \in Orders
  /\ late = FALSE
  /\ at = Place("preflight", 1, "look")
  /\ failed = {} /\ outcome = "none"
  /\ foreign = 0 /\ together = {}

-----------------------------------------------------------------------------
(* Where a phase leads.  Only the rollback goes on after a failure.        *)

First(p, k) == Place(p, k, IF p \in {"deploy", "undo"} THEN "start" ELSE "look")

Onward ==
  CASE at.phase = "deploy" -> First("verify", at.k)
    [] at.phase = "verify" /\ at.k = 1 -> First("deploy", 2)
    [] at.phase \in {"preflight", "final", "undo", "restore"} /\ at.k = 1
         -> First(at.phase, 2)
    [] at.phase = "preflight" /\ at.k = 2 -> First("deploy", 1)
    [] at.phase = "verify" /\ at.k = 2 -> First("final", 1)
    [] at.phase = "undo" /\ at.k = 2 -> First("restore", 1)
    [] OTHER -> Place("done", 1, "done")

\* checkBudget after every group of awaited operations of the new generation.
InBudget ==
  \/ at.phase \notin {"deploy", "verify", "final"}
  \/ at.phase = "final" /\ at.k = 1
  \/ ~late

Verdict(f) == IF f = {} THEN "rolled-back" ELSE "recovery-required"

\* The end of a rollback step or of its verification, which may have failed.
Recorded(f) ==
  /\ failed' = f
  /\ at' = Onward
  /\ outcome' = IF at = Place("restore", 2, at.step) THEN Verdict(f) ELSE outcome
  /\ UNCHANGED together

Fail ==
  \/ /\ Phase({"preflight"})
     /\ at' = Place("done", 1, "done") /\ outcome' = "refused"
     /\ UNCHANGED <<failed, together>>
  \/ /\ Phase({"deploy", "verify", "final"})
     /\ at' = First("undo", 1) /\ together' = Both(live)
     /\ UNCHANGED <<failed, outcome>>
  \/ /\ Phase({"undo", "restore"})
     /\ Recorded(failed \union {Target})

Succeed ==
  \/ /\ Phase({"undo", "restore"}) /\ Recorded(failed)
  \/ /\ ~Phase({"undo", "restore"}) /\ ~InBudget /\ Fail
  \/ /\ ~Phase({"undo", "restore"}) /\ InBudget
     /\ at' = Onward
     /\ outcome' = IF Phase({"final"}) /\ at.k = 2 THEN "complete" ELSE outcome
     /\ UNCHANGED <<failed, together>>

Goto(s) == at' = [at EXCEPT !.step = s] /\ UNCHANGED <<failed, outcome, together>>

-----------------------------------------------------------------------------
(* verifyLive: the deployment before, every artifact by GET and HEAD, each *)
(* read between two looks of its own, and the deployment after.            *)

NextLook == [look |-> "read", read |-> "again"]

Verify ==
  /\ Phase({"preflight", "verify", "final", "restore"})
  /\ \/ live[Target] # Expected /\ Fail
     \/ live[Target] = Expected /\ at.step # "again" /\ Goto(NextLook[at.step])
     \/ live[Target] = Expected /\ at.step = "again" /\ Succeed
  /\ UNCHANGED <<live, job, uncertain, owned, order, late, foreign>>

\* Any request may fail: the answer is lost, refused or malformed.
RequestFails ==
  /\ ~Phase({"done"}) /\ at.step # "post"
  /\ Fail
  /\ UNCHANGED <<live, job, uncertain, owned, order, late, foreign>>

-----------------------------------------------------------------------------
(* The adapter's mutations of the project of Target.                       *)

Step(s) == Phase({"deploy", "undo"}) /\ at.step = s

\* Wrong on purpose: a rollback goes ahead whatever the deployment became.
AdmitsRollback == Phase({"undo"}) \/ Target \notin uncertain

\* mutate: a project whose last mutation is not known to have ended is left
\* alone, by deploy and by rollback.
Admits == Target \notin uncertain

Begin ==
  /\ Step("start")
  /\ \/ ~Admits /\ Fail
     \/ Admits /\ Goto(IF Phase({"deploy"}) THEN "previous" ELSE "recheck")
  /\ UNCHANGED <<live, job, uncertain, owned, order, late, foreign>>

\* verifyDistribution(previous), configuration, uploadAssets.
Upload ==
  /\ Step("previous")
  /\ IF live[Target] = "prev" THEN Goto("recheck") ELSE Fail
  /\ UNCHANGED <<live, job, uncertain, owned, order, late, foreign>>

\* The last look before the request.  deploy goes on from the previous
\* deployment only; rollback from its own, and has nothing to do when the
\* previous one is live.
Recheck ==
  /\ Step("recheck")
  /\ LET deploys == Phase({"deploy"}) /\ live[Target] = "prev"
         undoes == Phase({"undo"}) /\ live[Target] = "next" /\ Target \in owned
         idle == Phase({"undo"}) /\ live[Target] = "prev"
     IN \/ (deploys \/ undoes) /\ Goto("post")
        \/ idle /\ Goto("confirm")
        \/ ~(deploys \/ undoes \/ idle) /\ Fail
  /\ UNCHANGED <<live, job, uncertain, owned, order, late, foreign>>

\* uncertain.add comes before the request, whose effect may outlive its answer.
Marked(answered) == uncertain \union {Target}

Post ==
  /\ Step("post")
  /\ \E accepted \in BOOLEAN, answered \in BOOLEAN :
       /\ answered => accepted
       /\ uncertain' = Marked(answered)
       /\ job' = IF accepted
                 THEN [job EXCEPT ![Target] = IF Phase({"deploy"}) THEN "next" ELSE "prev"]
                 ELSE job
       /\ IF answered THEN Goto("settle") ELSE Fail
  /\ UNCHANGED <<live, owned, order, late, foreign>>

\* settle: the deployment succeeded and is the canonical one.
Settled ==
  /\ Step("settle")
  /\ live[Target] = Expected /\ job[Target] # Expected
  /\ uncertain' = uncertain \ {Target}
  /\ owned' = IF Phase({"deploy"}) THEN owned \union {Target} ELSE owned
  /\ Goto("confirm")
  /\ UNCHANGED <<live, job, order, late, foreign>>

\* settle: the service reports the deployment failed or cancelled.  What a
\* rollback polls is the old deployment, which succeeded long ago.
Terminal ==
  /\ Step("settle") /\ Phase({"deploy"})
  /\ job[Target] = "failed"
  /\ uncertain' = uncertain \ {Target}
  /\ Fail
  /\ UNCHANGED <<live, job, owned, order, late, foreign>>

\* settle: the deadline passes while the end is not known.
GiveUpOn(t) == uncertain
\* Wrong on purpose: settle polls until the service answers.
NeverGivesUp == Step("settle") /\ FALSE /\ UNCHANGED vars

GivesUp ==
  /\ Step("settle")
  /\ uncertain' = GiveUpOn(Target)
  /\ Fail
  /\ UNCHANGED <<live, job, owned, order, late, foreign>>

\* verifyDistribution of the deployment that settled.
Confirm ==
  /\ Step("confirm")
  /\ IF live[Target] = Expected THEN Succeed ELSE Fail
  /\ UNCHANGED <<live, job, uncertain, owned, order, late, foreign>>

\* The deadline of the whole operation makes the project uncertain wherever
\* it strikes.
Deadline ==
  /\ Phase({"deploy", "undo"}) /\ at.step \notin {"start", "post"}
  /\ uncertain' = uncertain \union {Target}
  /\ Fail
  /\ UNCHANGED <<live, job, owned, order, late, foreign>>

-----------------------------------------------------------------------------
(* The world: the service, the clock and another writer.                   *)

Show(l) == live' = l /\ together' = together \union Both(l)

TakesEffect(t) ==
  /\ job[t] \in {"prev", "next"}
  /\ Show([live EXCEPT ![t] = job[t]])
  /\ job' = [job EXCEPT ![t] = "none"]
  /\ UNCHANGED <<uncertain, owned, order, late, at, failed, outcome, foreign>>

DeploymentFails(t) ==
  /\ job[t] = "next"
  /\ job' = [job EXCEPT ![t] = "failed"]
  /\ UNCHANGED <<live, uncertain, owned, order, late, at, failed, outcome, foreign, together>>

Foreign(t) ==
  /\ foreign < ForeignMax
  /\ foreign' = foreign + 1
  /\ Show([live EXCEPT ![t] = "other"])
  /\ UNCHANGED <<job, uncertain, owned, order, late, at, failed, outcome>>

TimePasses ==
  /\ Phase({"deploy", "verify", "final"}) /\ ~late
  /\ late' = TRUE
  /\ UNCHANGED <<live, job, uncertain, owned, order, at, failed, outcome, foreign, together>>

Runner ==
  \/ Verify \/ Begin \/ Upload \/ Recheck \/ Post
  \/ Settled \/ Terminal \/ GivesUp \/ Confirm

Next ==
  \/ Runner \/ RequestFails \/ Deadline \/ TimePasses
  \/ \E t \in Targets : TakesEffect(t) \/ DeploymentFails(t) \/ Foreign(t)

Spec == Init /\ [][Next]_vars
\* Every await of the runner is bounded, so it goes on; the service owes nothing.
FairSpec == Spec /\ WF_vars(Runner)

-----------------------------------------------------------------------------
ReleaseTypeOK ==
  /\ live \in [Targets -> {"prev", "next", "other"}]
  /\ job \in [Targets -> {"none", "prev", "next", "failed"}]
  /\ uncertain \subseteq Targets /\ owned \subseteq Targets /\ failed \subseteq Targets
  /\ order \in Orders
  /\ at.phase \in {"preflight", "deploy", "verify", "final", "undo", "restore", "done"}
  /\ outcome \in {"none", "refused", "complete", "rolled-back", "recovery-required"}
  /\ late \in BOOLEAN /\ foreign \in 0..ForeignMax /\ together \subseteq {"prev", "next"}

\* A release that says "complete" or "rolled-back" has left nothing behind that
\* may still change an origin: a timed-out deployment never races what the
\* runner reported (school-release.mjs 2-4, school-release-adapter.mjs 2-3).
EndedIsSettled ==
  outcome \in {"complete", "rolled-back"} =>
    \A t \in Targets : job[t] \notin {"prev", "next"}

\* With the lease the adapter's comment asks for, the answer stays true: the
\* origins serve the new generation, or both serve the previous one.
EndHolds ==
  /\ outcome = "complete" /\ foreign = 0 => \A t \in Targets : live[t] = "next"
  /\ outcome = "rolled-back" /\ foreign = 0 => \A t \in Targets : live[t] = "prev"

\* Even against another writer the answer was true at one moment for both
\* origins together: that is what the second verification of both is for
\* (lines 153-154 and 166-168).
TrueAtOnce ==
  /\ outcome = "complete" => "next" \in together
  /\ outcome = "rolled-back" => "prev" \in together

\* What a release says when it ends is true, and nothing makes it untrue later.
ReleaseIsTrue == EndedIsSettled /\ EndHolds /\ TrueAtOnce

\* The release always ends and says how, even when the service never does.
Ends == <>(outcome # "none")
=============================================================================
